---------------------------- MODULE MarketProofs ----------------------------
(***************************************************************************)
(* Proofs about Market for every number of players, trades and requests:   *)
(* its types; as long as no lease lapses under a live holder, that a trade *)
(* is sold once and that the market implements the abstract sale; and      *)
(* always, that locks come back and that open trades stay listed.          *)
(***************************************************************************)
EXTENDS Market, TLAPS

-----------------------------------------------------------------------------
\* Types

\* What a save writes is a document.
LEMMA SoldType ==
  ASSUME NEW p \in Players,
         NEW d \in [seller : Players \cup {Nobody}, isCompleted : BOOLEAN,
                   buyerId : Players \cup {Nobody}]
  PROVE  [d EXCEPT !.isCompleted = TRUE, !.buyerId = p]
           \in [seller : Players \cup {Nobody}, isCompleted : BOOLEAN,
               buyerId : Players \cup {Nobody}]
  OBVIOUS

LEMMA TypeInit == Init => TypeOK
  <1> SUFFICES ASSUME Init PROVE TypeOK
    OBVIOUS
  <1>1. /\ caller \in [Requests -> Players]
        /\ target \in [Requests -> Trades]
        /\ stamp \in [Requests -> Stamps]
    BY NonEmptyAssumption DEF Init
  <1>2. QED
    BY <1>1 DEF Init, TypeOK, NoTrade, Lock!LockInit, Lock!Absent, Labels, Replies

LEMMA TypeStep == TypeOK /\ [Next]_vars => TypeOK'
  <1> SUFFICES ASSUME TypeOK, [Next]_vars PROVE TypeOK'
    OBVIOUS
  <1> USE DEF TypeOK, args, lockVars, Goto, Decide, Arrive, Labels, Replies
  <1>1. ASSUME NEW r \in Requests, NEW p \in Players, NEW t \in Trades,
               ListCreate(r, p, t)
        PROVE  TypeOK'
    BY <1>1 DEF ListCreate, NoTrade
  <1>2. ASSUME NEW r \in Requests, NEW p \in Players, NEW t \in Trades,
               CancelFind(r, p, t)
        PROVE  TypeOK'
    BY <1>2 DEF CancelFind
  <1>3. ASSUME NEW r \in Requests, NEW p \in Players, NEW t \in Trades,
               NEW s \in Stamps, BuyLock(r, p, t, s)
        PROVE  TypeOK'
    <2>1. /\ caller' \in [Requests -> Players]
          /\ target' \in [Requests -> Trades]
          /\ stamp' \in [Requests -> Stamps]
          /\ trades' = trades /\ index' = index
      BY <1>3 DEF BuyLock
    <2>2. CASE Lock!SetNx(t, s) /\ Goto(r, "expire") /\ UNCHANGED reply
      BY <2>1, <2>2 DEF Lock!SetNx
    <2>3. CASE Goto(r, "done") /\ Decide(r, "refused") /\ UNCHANGED lockVars
      BY <2>1, <2>3
    <2>4. QED
      BY <1>3, <2>2, <2>3 DEF BuyLock
  <1>4. ASSUME NEW r \in Requests, ListIndex(r) PROVE TypeOK'
    BY <1>4 DEF ListIndex
  <1>5. ASSUME NEW r \in Requests, BuyExpire(r) PROVE TypeOK'
    BY <1>5 DEF BuyExpire, Lock!SetExpiry
  <1>6. ASSUME NEW r \in Requests, BuyFind(r) PROVE TypeOK'
    BY <1>6 DEF BuyFind
  <1>7. ASSUME NEW r \in Requests, BuySave(r) PROVE TypeOK'
    <2>1. /\ pc' \in [Requests -> Labels]
          /\ UNCHANGED <<index, lockVal, lockTtl, caller, target, stamp, reply>>
      BY <1>7 DEF BuySave
    <2>2. caller[r] \in Players /\ target[r] \in Trades
      OBVIOUS
    <2>3. trades' = [u \in Trades |->
                       IF u = target[r]
                       THEN [trades[u] EXCEPT !.isCompleted = TRUE, !.buyerId = caller[r]]
                       ELSE trades[u]]
      BY <1>7 DEF BuySave
    <2>4. trades' \in [Trades -> [seller : Players \cup {Nobody},
                                 isCompleted : BOOLEAN,
                                 buyerId : Players \cup {Nobody}]]
      BY <2>2, <2>3, SoldType
    <2>5. QED
      BY <2>1, <2>4
  <1>8. ASSUME NEW r \in Requests, BuyUnlist(r) PROVE TypeOK'
    BY <1>8 DEF BuyUnlist
  <1>9. ASSUME NEW r \in Requests, BuyGetLock(r) PROVE TypeOK'
    BY <1>9 DEF BuyGetLock
  <1>10. ASSUME NEW r \in Requests, BuyDelLock(r) PROVE TypeOK'
    BY <1>10 DEF BuyDelLock, Lock!Del
  <1>11. ASSUME NEW r \in Requests, CancelSave(r) PROVE TypeOK'
    BY <1>11 DEF CancelSave
  <1>12. ASSUME NEW r \in Requests, CancelUnlist(r) PROVE TypeOK'
    BY <1>12 DEF CancelUnlist
  <1>13. ASSUME NEW r \in Requests, TryFails(r) \/ CallFails(r) \/ Crash(r)
         PROVE  TypeOK'
    BY <1>13 DEF TryFails, CallFails, Crash
  <1>14. ASSUME NEW t \in Trades, LockLapses(t) PROVE TypeOK'
    BY <1>14 DEF LockLapses, Lock!Lapse, Lock!Del
  <1>15. CASE Rest \/ UNCHANGED vars
    BY <1>15 DEF Rest, vars
  <1>16. QED
    BY <1>1, <1>2, <1>3, <1>4, <1>5, <1>6, <1>7, <1>8, <1>9, <1>10, <1>11,
       <1>12, <1>13, <1>14, <1>15 DEF Next

\* The documents, the keys and the requests keep their types.
THEOREM TypeCorrect == Spec => []TypeOK
  BY TypeInit, TypeStep, PTL DEF Spec
-----------------------------------------------------------------------------
\* The lock.  Without a lapse under a live holder, the value of the key tells
\* the one request that runs between SETNX and DEL.

LEMMA SectionStep ==
  TypeOK /\ SectionOwnsLock /\ ~MayLapse /\ [Next]_vars => SectionOwnsLock'
  <1> SUFFICES ASSUME TypeOK, SectionOwnsLock, ~MayLapse, [Next]_vars
               PROVE  SectionOwnsLock'
    OBVIOUS
  <1> USE StampsAssumption DEF TypeOK, SectionOwnsLock, InSection, Lock!Absent,
        args, lockVars, Goto, Decide, Arrive
  <1>1. ASSUME NEW r \in Requests, NEW p \in Players, NEW t \in Trades,
               ListCreate(r, p, t)
        PROVE  SectionOwnsLock'
    BY <1>1 DEF ListCreate, NoTrade
  <1>2. ASSUME NEW r \in Requests, NEW p \in Players, NEW t \in Trades,
               CancelFind(r, p, t)
        PROVE  SectionOwnsLock'
    BY <1>2 DEF CancelFind
  <1>3. ASSUME NEW r \in Requests, NEW p \in Players, NEW t \in Trades,
               NEW s \in Stamps, BuyLock(r, p, t, s)
        PROVE  SectionOwnsLock'
    <2>1. CASE Lock!SetNx(t, s) /\ Goto(r, "expire") /\ UNCHANGED reply
      BY <1>3, <2>1 DEF BuyLock, Lock!SetNx
    <2>2. CASE Goto(r, "done") /\ Decide(r, "refused") /\ UNCHANGED lockVars
      BY <1>3, <2>2 DEF BuyLock
    <2>3. QED
      BY <1>3, <2>1, <2>2 DEF BuyLock
  <1>4. ASSUME NEW r \in Requests, ListIndex(r) PROVE SectionOwnsLock'
    BY <1>4 DEF ListIndex
  <1>5. ASSUME NEW r \in Requests, BuyExpire(r) PROVE SectionOwnsLock'
    BY <1>5 DEF BuyExpire, Lock!SetExpiry
  <1>6. ASSUME NEW r \in Requests, BuyFind(r) PROVE SectionOwnsLock'
    BY <1>6 DEF BuyFind, Buyable
  <1>7. ASSUME NEW r \in Requests, BuySave(r) PROVE SectionOwnsLock'
    BY <1>7 DEF BuySave
  <1>8. ASSUME NEW r \in Requests, BuyUnlist(r) PROVE SectionOwnsLock'
    BY <1>8 DEF BuyUnlist
  <1>9. ASSUME NEW r \in Requests, BuyGetLock(r) PROVE SectionOwnsLock'
    BY <1>9 DEF BuyGetLock
  <1>10. ASSUME NEW r \in Requests, BuyDelLock(r) PROVE SectionOwnsLock'
    BY <1>10 DEF BuyDelLock, Lock!Del
  <1>11. ASSUME NEW r \in Requests, CancelSave(r) PROVE SectionOwnsLock'
    BY <1>11 DEF CancelSave
  <1>12. ASSUME NEW r \in Requests, CancelUnlist(r) PROVE SectionOwnsLock'
    BY <1>12 DEF CancelUnlist
  <1>13. ASSUME NEW r \in Requests, TryFails(r) \/ CallFails(r) \/ Crash(r)
         PROVE  SectionOwnsLock'
    BY <1>13 DEF TryFails, CallFails, Crash
  <1>14. ASSUME NEW t \in Trades, LockLapses(t) PROVE SectionOwnsLock'
    BY <1>14 DEF LockLapses, Lock!Lapse, Lock!Del
  <1>15. CASE Rest \/ UNCHANGED vars
    BY <1>15 DEF Rest, vars
  <1>16. QED
    BY <1>1, <1>2, <1>3, <1>4, <1>5, <1>6, <1>7, <1>8, <1>9, <1>10, <1>11,
       <1>12, <1>13, <1>14, <1>15 DEF Next

-----------------------------------------------------------------------------
\* The sale.  OneSale is not inductive: it needs what a request has learnt
\* before its save, and that nobody overwrites it before it answers.

\* A success is only decided after the listing is removed.
BoughtPlaces ==
  \A r \in Requests :
    reply[r] = "bought" => pc[r] \in {"getLock", "delLock", "done", "dead"}

\* A document with a buyer was offered by another player and is completed.
OfferedFirst ==
  \A t \in Trades :
    trades[t].buyerId # Nobody =>
      /\ trades[t].seller \notin {Nobody, trades[t].buyerId}
      /\ trades[t].isCompleted

\* What the checks after findById established still holds at the save.
SaveReady ==
  \A r \in Requests :
    pc[r] = "save" =>
      /\ trades[target[r]].seller \notin {Nobody, caller[r]}
      /\ trades[target[r]].buyerId = Nobody

\* After the save the document names this buyer and nobody was told yet.
UnlistReady ==
  \A r \in Requests :
    pc[r] = "zrem" =>
      /\ trades[target[r]].buyerId = caller[r]
      /\ \A q \in Requests : reply[q] = "bought" => target[q] # target[r]

SaleParts ==
  /\ BoughtPlaces /\ OfferedFirst /\ SaveReady /\ UnlistReady
  /\ BuyerOfRecord /\ OneSale

LEMMA SaleStep ==
  TypeOK /\ TypeOK' /\ SectionOwnsLock /\ SaleParts /\ [Next]_vars => SaleParts'
  <1> SUFFICES ASSUME TypeOK, TypeOK', SectionOwnsLock, SaleParts, [Next]_vars
               PROVE  SaleParts'
    OBVIOUS
  <1> USE NobodyAssumption DEF TypeOK, SectionOwnsLock, InSection, SaleParts,
        BoughtPlaces, OfferedFirst, SaveReady, UnlistReady, BuyerOfRecord,
        OneSale, args, lockVars, Goto, Decide, Arrive
  <1>1. ASSUME NEW r \in Requests, NEW p \in Players, NEW t \in Trades,
               ListCreate(r, p, t)
        PROVE  SaleParts'
    BY <1>1 DEF ListCreate, NoTrade
  <1>2. ASSUME NEW r \in Requests, NEW p \in Players, NEW t \in Trades,
               CancelFind(r, p, t)
        PROVE  SaleParts'
    <2>1. UNCHANGED <<trades, index, lockVal, lockTtl, stamp>> /\ pc[r] = "idle"
      BY <1>2 DEF CancelFind
    <2>2. CASE Goto(r, "cancelSave") /\ UNCHANGED reply
      BY <1>2, <2>1, <2>2 DEF CancelFind
    <2>3. CASE Goto(r, "done") /\ Decide(r, "refused")
      BY <1>2, <2>1, <2>3 DEF CancelFind
    <2>4. QED
      BY <1>2, <2>2, <2>3 DEF CancelFind
  <1>3. ASSUME NEW r \in Requests, NEW p \in Players, NEW t \in Trades,
               NEW s \in Stamps, BuyLock(r, p, t, s)
        PROVE  SaleParts'
    <2>1. CASE Lock!SetNx(t, s) /\ Goto(r, "expire") /\ UNCHANGED reply
      BY <1>3, <2>1 DEF BuyLock, Lock!SetNx
    <2>2. CASE Goto(r, "done") /\ Decide(r, "refused") /\ UNCHANGED lockVars
      BY <1>3, <2>2 DEF BuyLock
    <2>3. QED
      BY <1>3, <2>1, <2>2 DEF BuyLock
  <1>4. ASSUME NEW r \in Requests, ListIndex(r) PROVE SaleParts'
    BY <1>4 DEF ListIndex
  <1>5. ASSUME NEW r \in Requests, BuyExpire(r) PROVE SaleParts'
    BY <1>5 DEF BuyExpire, Lock!SetExpiry
  <1>6. ASSUME NEW r \in Requests, BuyFind(r) PROVE SaleParts'
    <2>1. CASE Buyable(target[r], caller[r]) /\ Goto(r, "save") /\ UNCHANGED reply
      <3>1. SaveReady'
        BY <1>6, <2>1 DEF BuyFind, Buyable
      <3>2. BoughtPlaces' /\ OfferedFirst' /\ UnlistReady' /\ BuyerOfRecord' /\ OneSale'
        BY <1>6, <2>1 DEF BuyFind
      <3>3. QED
        BY <3>1, <3>2
    <2>2. CASE Goto(r, "getLock") /\ Decide(r, "refused")
      BY <1>6, <2>2 DEF BuyFind
    <2>3. QED
      BY <1>6, <2>1, <2>2 DEF BuyFind
  <1>7. ASSUME NEW r \in Requests, BuySave(r) PROVE SaleParts'
    <2>1. /\ UNCHANGED <<index, lockVal, lockTtl, caller, target, stamp, reply>>
          /\ pc[r] = "save" /\ pc' = [pc EXCEPT ![r] = "zrem"]
      BY <1>7 DEF BuySave
    <2>2. \A t \in Trades :
            /\ trades'[t].seller = trades[t].seller
            /\ t = target[r] => trades'[t].isCompleted /\ trades'[t].buyerId = caller[r]
            /\ t # target[r] => trades'[t] = trades[t]
      BY <1>7 DEF BuySave
    <2>3. BoughtPlaces' /\ OfferedFirst' /\ OneSale'
      BY <2>1, <2>2
    <2>4. SaveReady'
      BY <2>1, <2>2
    <2>5. UnlistReady' /\ BuyerOfRecord'
      BY <2>1, <2>2
    <2>6. QED
      BY <2>3, <2>4, <2>5
  <1>8. ASSUME NEW r \in Requests, BuyUnlist(r) PROVE SaleParts'
    BY <1>8 DEF BuyUnlist
  <1>9. ASSUME NEW r \in Requests, BuyGetLock(r) PROVE SaleParts'
    BY <1>9 DEF BuyGetLock
  <1>10. ASSUME NEW r \in Requests, BuyDelLock(r) PROVE SaleParts'
    BY <1>10 DEF BuyDelLock, Lock!Del
  <1>11. ASSUME NEW r \in Requests, CancelSave(r) PROVE SaleParts'
    BY <1>11 DEF CancelSave
  <1>12. ASSUME NEW r \in Requests, CancelUnlist(r) PROVE SaleParts'
    BY <1>12 DEF CancelUnlist
  <1>13. ASSUME NEW r \in Requests, TryFails(r) \/ CallFails(r) \/ Crash(r)
         PROVE  SaleParts'
    <2>1. CASE TryFails(r)
      BY <2>1 DEF TryFails
    <2>2. CASE CallFails(r)
      BY <2>2 DEF CallFails
    <2>3. CASE Crash(r)
      BY <2>3 DEF Crash
    <2>4. QED
      BY <1>13, <2>1, <2>2, <2>3
  <1>14. ASSUME NEW t \in Trades, LockLapses(t) PROVE SaleParts'
    BY <1>14 DEF LockLapses, Lock!Lapse, Lock!Del
  <1>15. CASE Rest \/ UNCHANGED vars
    BY <1>15 DEF Rest, vars
  <1>16. QED
    BY <1>1, <1>2, <1>3, <1>4, <1>5, <1>6, <1>7, <1>8, <1>9, <1>10, <1>11,
       <1>12, <1>13, <1>14, <1>15 DEF Next

LEMMA SaleInvariant ==
  ASSUME ~MayLapse
  PROVE  Spec => [](TypeOK /\ SectionOwnsLock /\ SaleParts)
  <1>1. Init => SectionOwnsLock /\ SaleParts
    BY DEF Init, NoTrade, SectionOwnsLock, InSection, SaleParts, BoughtPlaces,
       OfferedFirst, SaveReady, UnlistReady, BuyerOfRecord, OneSale
  <1>2. Init => TypeOK /\ SectionOwnsLock /\ SaleParts
    BY <1>1, TypeInit
  <1>3. TypeOK /\ SectionOwnsLock /\ SaleParts /\ [Next]_vars
          => (TypeOK /\ SectionOwnsLock /\ SaleParts)'
    BY TypeStep, SectionStep, SaleStep
  <1>4. QED
    BY <1>2, <1>3, PTL DEF Spec

\* While leases outlive the requests that hold them, a request keeps its lock
\* from SETNX to DEL and is alone there, whatever crashes, fails or coincides.
THEOREM LockOwned == ASSUME ~MayLapse PROVE Spec => []SectionOwnsLock
  BY SaleInvariant, PTL

\* Under the same assumption, and although cancelListing takes no lock, no two
\* requests decide to answer success for one trade.
THEOREM SoldOnce == ASSUME ~MayLapse PROVE Spec => []OneSale
  <1>1. SaleParts => OneSale
    BY DEF SaleParts
  <1>2. QED
    BY <1>1, SaleInvariant, PTL

\* Under the same assumption, the document keeps the buyer who was told so.
THEOREM BuyerKept == ASSUME ~MayLapse PROVE Spec => []BuyerOfRecord
  <1>1. SaleParts => BuyerOfRecord
    BY DEF SaleParts
  <1>2. QED
    BY <1>1, SaleInvariant, PTL

-----------------------------------------------------------------------------
\* The market implements the abstract sale.

\* A step of which nobody is told anything.
ToldNobody ==
  \A q \in Requests :
    /\ Told(q)' = Told(q)
    /\ Told(q) => caller'[q] = caller[q] /\ target'[q] = target[q]

LEMMA ToldFrame ==
  ASSUME ToldNobody
  PROVE  [t \in Trades |-> ToldOf(t)]' = [t \in Trades |-> ToldOf(t)]
  <1>1. ASSUME NEW t \in Trades PROVE ToldOf(t)' = ToldOf(t)
    BY DEF ToldOf, ToldNobody
  <1>2. QED
    BY <1>1

\* The arguments of a request change only while it is idle, and the steps that
\* end a request with another answer than "bought" tell nobody.
LEMMA MostlyTellsNobody ==
  ASSUME TypeOK, NEW r \in Requests,
         \/ caller' = caller /\ target' = target
         \/ /\ pc[r] = "idle"
            /\ \E p \in Players, t \in Trades : Arrive(r, p, t),
         NEW l \in Labels, pc' = [pc EXCEPT ![r] = l],
         pc[r] # "done",
         \/ l # "done" /\ reply' = reply
         \/ \E a \in Replies :
              /\ reply' = [reply EXCEPT ![r] = a]
              /\ l # "done" \/ a # "bought"
  PROVE  ToldNobody
  BY DEF ToldNobody, Told, Arrive, TypeOK

\* A step after which the documents have the sellers and buyers they had.
SameParties ==
  \A t \in Trades : /\ trades'[t].seller = trades[t].seller
                    /\ trades'[t].buyerId = trades[t].buyerId

LEMMA SaleStutters ==
  ASSUME SameParties, ToldNobody
  PROVE  UNCHANGED AbstractSale!saleVars
  BY ToldFrame DEF SameParties, AbstractSale!saleVars

LEMMA PurchaseIsSale ==
  ASSUME NEW t \in Trades, NEW p \in Players, AbstractSale!Purchase(t, p)
  PROVE  AbstractSale!SaleNext
  BY DEF AbstractSale!SaleNext

LEMMA ConfirmIsSale ==
  ASSUME NEW t \in Trades, NEW r \in Requests, AbstractSale!Confirm(t, r)
  PROVE  AbstractSale!SaleNext
  BY DEF AbstractSale!SaleNext

\* The DEL that ends a purchase is the moment its request is told.
LEMMA Confirmed ==
  ASSUME TypeOK, SaleParts, NEW r \in Requests, NEW t \in Trades, t = target[r],
         BuyDelLock(r), reply[r] = "bought"
  PROVE  AbstractSale!Confirm(t, r)
  <1>1. trades[t].buyerId = caller[r] /\ caller[r] # Nobody
    BY NobodyAssumption DEF SaleParts, BuyerOfRecord, TypeOK
  <1>2. \A q \in Requests : Told(q) => target[q] # t
    BY DEF SaleParts, OneSale, Told, BuyDelLock
  <1>3. ToldOf(t) = {}
    BY <1>2 DEF ToldOf
  <1>4. \A q \in Requests : Told(q)' <=> Told(q) \/ q = r
    BY DEF BuyDelLock, Told, Goto, TypeOK
  <1>5. caller' = caller /\ target' = target /\ trades' = trades
    BY DEF BuyDelLock, args
  <1>6. ToldOf(t)' = {<<r, caller[r]>>}
    <2>1. {q \in Requests : Told(q)' /\ target'[q] = t} = {r}
      BY <1>2, <1>4, <1>5
    <2>2. QED
      BY <2>1, <1>5 DEF ToldOf
  <1>7. ASSUME NEW u \in Trades, u # t PROVE ToldOf(u)' = ToldOf(u)
    <2>1. {q \in Requests : Told(q)' /\ target'[q] = u}
            = {q \in Requests : Told(q) /\ target[q] = u}
      BY <1>4, <1>5, <1>7
    <2>2. QED
      BY <2>1, <1>5 DEF ToldOf
  <1>8. [u \in Trades |-> ToldOf(u)]'
          = [[u \in Trades |-> ToldOf(u)] EXCEPT ![t] = {<<r, trades[t].buyerId>>}]
    BY <1>1, <1>6, <1>7
  <1>9. QED
    BY <1>1, <1>3, <1>5, <1>8 DEF AbstractSale!Confirm

LEMMA RefinedStep ==
  ASSUME TypeOK, SectionOwnsLock, SaleParts, [Next]_vars
  PROVE  [AbstractSale!SaleNext]_AbstractSale!saleVars
  <1> USE DEF args, lockVars, Goto, Decide
  <1> DEFINE Refined == [AbstractSale!SaleNext]_AbstractSale!saleVars
             Stutter == UNCHANGED AbstractSale!saleVars
  <1>1. ASSUME NEW r \in Requests, NEW p \in Players, NEW t \in Trades,
               ListCreate(r, p, t)
        PROVE  Refined
    <2>1. ToldNobody
      BY <1>1, MostlyTellsNobody DEF ListCreate, Labels, Arrive
    <2>2. trades[t].seller = Nobody /\ trades[t].buyerId = Nobody
      BY <1>1 DEF ListCreate, SaleParts, OfferedFirst
    <2>3. \A u \in Trades :
            /\ trades'[u].seller = IF u = t THEN p ELSE trades[u].seller
            /\ trades'[u].buyerId = trades[u].buyerId
      BY <1>1, <2>2 DEF ListCreate, NoTrade, TypeOK
    <2>4. AbstractSale!Offer(t, p)
      BY <2>2, <2>3, <2>1, ToldFrame DEF AbstractSale!Offer
    <2>5. QED
      BY <2>4 DEF AbstractSale!SaleNext
  <1>2. ASSUME NEW r \in Requests, NEW p \in Players, NEW t \in Trades,
               CancelFind(r, p, t)
        PROVE  Stutter
    <2>1. ToldNobody
      BY <1>2, MostlyTellsNobody DEF CancelFind, Labels, Replies, Arrive
    <2>2. QED
      BY <1>2, <2>1, SaleStutters DEF CancelFind, SameParties
  <1>3. ASSUME NEW r \in Requests, NEW p \in Players, NEW t \in Trades,
               NEW s \in Stamps, BuyLock(r, p, t, s)
        PROVE  Stutter
    <2>1. ToldNobody
      BY <1>3, MostlyTellsNobody DEF BuyLock, Labels, Replies, Arrive
    <2>2. QED
      BY <1>3, <2>1, SaleStutters DEF BuyLock, SameParties
  <1>4. ASSUME NEW r \in Requests,
               \/ ListIndex(r) \/ BuyExpire(r) \/ BuyFind(r) \/ BuyUnlist(r)
               \/ CancelSave(r) \/ CancelUnlist(r)
               \/ TryFails(r) \/ CallFails(r) \/ Crash(r)
        PROVE  Stutter
    <2>1. SameParties
      BY <1>4 DEF ListIndex, BuyExpire, BuyFind, BuyUnlist, CancelSave,
         CancelUnlist, TryFails, CallFails, Crash, SameParties, TypeOK
    <2>2. ASSUME ListIndex(r) PROVE ToldNobody
      BY <2>2, MostlyTellsNobody DEF ListIndex, Labels, Replies
    <2>3. ASSUME BuyExpire(r) PROVE ToldNobody
      BY <2>3, MostlyTellsNobody DEF BuyExpire, Labels
    <2>4. ASSUME BuyFind(r) PROVE ToldNobody
      BY <2>4, MostlyTellsNobody DEF BuyFind, Labels, Replies
    <2>5. ASSUME BuyUnlist(r) PROVE ToldNobody
      BY <2>5, MostlyTellsNobody DEF BuyUnlist, Labels, Replies
    <2>6. ASSUME CancelSave(r) PROVE ToldNobody
      BY <2>6, MostlyTellsNobody DEF CancelSave, Labels
    <2>7. ASSUME CancelUnlist(r) PROVE ToldNobody
      BY <2>7, MostlyTellsNobody DEF CancelUnlist, Labels, Replies
    <2>8. ASSUME TryFails(r) PROVE ToldNobody
      BY <2>8, MostlyTellsNobody DEF TryFails, Labels, Replies
    <2>9. ASSUME CallFails(r) PROVE ToldNobody
      BY <2>9, MostlyTellsNobody DEF CallFails, Labels, Replies
    <2>10. ASSUME Crash(r) PROVE ToldNobody
      BY <2>10, MostlyTellsNobody DEF Crash, Labels
    <2>11. ToldNobody
      BY <1>4, <2>2, <2>3, <2>4, <2>5, <2>6, <2>7, <2>8, <2>9, <2>10
    <2>12. QED
      BY <2>1, <2>11, SaleStutters
  <1>5. ASSUME NEW r \in Requests, BuySave(r) PROVE Refined
    <2>1. ToldNobody
      BY <1>5, MostlyTellsNobody DEF BuySave, Labels
    <2>2. /\ trades[target[r]].seller \notin {Nobody, caller[r]}
          /\ trades[target[r]].buyerId = Nobody
      BY <1>5 DEF BuySave, SaleParts, SaveReady
    <2>3. \A u \in Trades :
            /\ trades'[u].seller = trades[u].seller
            /\ trades'[u].buyerId = IF u = target[r] THEN caller[r] ELSE trades[u].buyerId
      BY <1>5 DEF BuySave, TypeOK
    <2>4. PICK t \in Trades : t = target[r]
      BY DEF TypeOK
    <2>5. PICK p \in Players : p = caller[r]
      BY DEF TypeOK
    <2>6. AbstractSale!Purchase(t, p)
      BY <2>1, <2>2, <2>3, <2>4, <2>5, ToldFrame DEF AbstractSale!Purchase
    <2>7. QED
      BY <2>6, PurchaseIsSale
  <1>6. ASSUME NEW r \in Requests, BuyGetLock(r) PROVE Stutter
    <2>1. pc' = [pc EXCEPT ![r] = "delLock"]
      BY <1>6 DEF BuyGetLock, SectionOwnsLock, InSection
    <2>2. ToldNobody
      BY <1>6, <2>1, MostlyTellsNobody DEF BuyGetLock, Labels
    <2>3. QED
      BY <1>6, <2>2, SaleStutters DEF BuyGetLock, SameParties
  <1>7. ASSUME NEW r \in Requests, BuyDelLock(r) PROVE Refined
    <2>1. CASE reply[r] = "bought"
      <3>1. target[r] \in Trades
        BY DEF TypeOK
      <3>2. AbstractSale!Confirm(target[r], r)
        BY <1>7, <2>1, <3>1, Confirmed
      <3>3. QED
        BY <3>1, <3>2, ConfirmIsSale
    <2>2. CASE reply[r] # "bought"
      <3>1. ToldNobody
        BY <1>7, <2>2 DEF BuyDelLock, ToldNobody, Told, TypeOK
      <3>2. QED
        BY <1>7, <3>1, SaleStutters DEF BuyDelLock, SameParties
    <2>3. QED
      BY <2>1, <2>2
  <1>8. ASSUME NEW t \in Trades, LockLapses(t) PROVE Stutter
    <2>1. ToldNobody
      BY <1>8 DEF LockLapses, ToldNobody, Told
    <2>2. QED
      BY <1>8, <2>1, SaleStutters DEF LockLapses, SameParties
  <1>9. CASE Rest \/ UNCHANGED vars
    <2>1. ToldNobody /\ SameParties
      BY <1>9 DEF Rest, vars, ToldNobody, Told, SameParties
    <2>2. QED
      BY <2>1, SaleStutters
  <1>10. QED
    BY <1>1, <1>2, <1>3, <1>4, <1>5, <1>6, <1>7, <1>8, <1>9 DEF Next

\* Under the lease assumption the market implements the abstract sale: one
\* buyer per trade, never its seller, and one confirmation, to that buyer.
THEOREM MarketImplementsSale == ASSUME ~MayLapse PROVE Spec => ImplementsSale
  <1>1. Init => AbstractSale!SaleInit
    BY DEF Init, NoTrade, AbstractSale!SaleInit, ToldOf, Told
  <1>2. QED
    BY <1>1, RefinedStep, SaleInvariant, PTL
       DEF Spec, ImplementsSale, AbstractSale!SaleSpec

-----------------------------------------------------------------------------
\* The lock of a trade, also when leases lapse and lock values coincide.
\* ReleasedOnReturn is not inductive: a slow request that finds another value
\* in the key returns without deleting it, so the request that answers for a
\* taken lock has to be one with the value the key holds.

\* r took the lock of t, or carries its value, and did not return normally.
Behind(r, t) ==
  /\ target[r] = t /\ stamp[r] = lockVal[t]
  /\ InSection(r) \/ pc[r] = "dead" \/ (pc[r] = "done" /\ reply[r] = "error")

TakenHasReason ==
  \A t \in Trades :
    lockVal[t] # Lock!Absent => \E r \in Requests : Behind(r, t)

\* A step after which every key and every request behind a key is as before.
LEMMA BehindFrame ==
  ASSUME TakenHasReason,
         \A t \in Trades : \/ lockVal'[t] = Lock!Absent
                           \/ /\ lockVal'[t] = lockVal[t]
                              /\ \A r \in Requests : Behind(r, t) => Behind(r, t)'
  PROVE  TakenHasReason'
  BY DEF TakenHasReason, Lock!Absent

LEMMA ReasonStep == TypeOK /\ TakenHasReason /\ [Next]_vars => TakenHasReason'
  <1> SUFFICES ASSUME TypeOK, TakenHasReason, [Next]_vars PROVE TakenHasReason'
    OBVIOUS
  <1> USE DEF Behind, InSection, TypeOK, Lock!Absent, args, lockVars, Goto,
        Decide, Arrive
  <1>1. ASSUME NEW r \in Requests, NEW p \in Players, NEW t \in Trades,
               ListCreate(r, p, t) \/ CancelFind(r, p, t)
        PROVE  TakenHasReason'
    BY <1>1, BehindFrame DEF ListCreate, CancelFind
  <1>2. ASSUME NEW r \in Requests, NEW p \in Players, NEW t \in Trades,
               NEW s \in Stamps, BuyLock(r, p, t, s)
        PROVE  TakenHasReason'
    <2>1. CASE Lock!SetNx(t, s) /\ Goto(r, "expire") /\ UNCHANGED reply
      <3>1. Behind(r, t)'
        BY <1>2, <2>1 DEF BuyLock, Lock!SetNx
      <3>2. ASSUME NEW u \in Trades, u # t
            PROVE  /\ lockVal'[u] = lockVal[u]
                   /\ \A q \in Requests : Behind(q, u) => Behind(q, u)'
        BY <1>2, <2>1, <3>2 DEF BuyLock, Lock!SetNx
      <3>3. QED
        BY <3>1, <3>2 DEF TakenHasReason
    <2>2. CASE Goto(r, "done") /\ Decide(r, "refused") /\ UNCHANGED lockVars
      BY <1>2, <2>2, BehindFrame DEF BuyLock
    <2>3. QED
      BY <1>2, <2>1, <2>2 DEF BuyLock
  <1>3. ASSUME NEW r \in Requests,
               \/ ListIndex(r) \/ BuyExpire(r) \/ BuyFind(r) \/ BuySave(r)
               \/ BuyUnlist(r) \/ CancelSave(r) \/ CancelUnlist(r)
        PROVE  TakenHasReason'
    BY <1>3, BehindFrame DEF ListIndex, BuyExpire, BuyFind, BuySave, BuyUnlist,
       CancelSave, CancelUnlist, Lock!SetExpiry
  <1>4. ASSUME NEW r \in Requests, BuyGetLock(r) PROVE TakenHasReason'
    BY <1>4, BehindFrame DEF BuyGetLock
  <1>5. ASSUME NEW r \in Requests, BuyDelLock(r) PROVE TakenHasReason'
    BY <1>5, BehindFrame DEF BuyDelLock, Lock!Del
  <1>6. ASSUME NEW r \in Requests, TryFails(r) \/ CallFails(r) \/ Crash(r)
        PROVE  TakenHasReason'
    BY <1>6, BehindFrame DEF TryFails, CallFails, Crash
  <1>7. ASSUME NEW t \in Trades, LockLapses(t) PROVE TakenHasReason'
    BY <1>7, BehindFrame DEF LockLapses, Lock!Lapse, Lock!Del
  <1>8. CASE Rest \/ UNCHANGED vars
    BY <1>8, BehindFrame DEF Rest, vars
  <1>9. QED
    BY <1>1, <1>2, <1>3, <1>4, <1>5, <1>6, <1>7, <1>8 DEF Next

\* Whatever lapses, fails, crashes or coincides, a lock without a request in
\* its section was left by a crash or by a call that failed.
THEOREM LockGivenBack == Spec => []ReleasedOnReturn
  <1>1. Init => TakenHasReason
    BY DEF Init, Lock!LockInit, TakenHasReason
  <1>2. TakenHasReason => ReleasedOnReturn
    BY DEF TakenHasReason, ReleasedOnReturn, Behind
  <1>3. QED
    BY <1>1, <1>2, ReasonStep, TypeCorrect, PTL DEF Spec

-----------------------------------------------------------------------------
\* The index.  A request removes an entry two awaits after it looked at the
\* document: what it saved in between has to last.

\* A request about to complete a document, or one that did, knows it exists.
RemovalEarned ==
  /\ \A t \in Trades : trades[t].isCompleted => trades[t].seller # Nobody
  /\ \A r \in Requests :
       /\ pc[r] \in {"save", "cancelSave"} => trades[target[r]].seller # Nobody
       /\ pc[r] \in {"zrem", "cancelZrem"} => trades[target[r]].isCompleted

LEMMA EarnedStep == TypeOK /\ RemovalEarned /\ [Next]_vars => RemovalEarned'
  <1> SUFFICES ASSUME TypeOK, RemovalEarned, [Next]_vars PROVE RemovalEarned'
    OBVIOUS
  <1> USE NobodyAssumption DEF TypeOK, RemovalEarned, args, lockVars, Goto,
        Decide, Arrive
  <1>1. ASSUME NEW r \in Requests, NEW p \in Players, NEW t \in Trades,
               ListCreate(r, p, t)
        PROVE  RemovalEarned'
    BY <1>1 DEF ListCreate, NoTrade
  <1>2. ASSUME NEW r \in Requests, NEW p \in Players, NEW t \in Trades,
               CancelFind(r, p, t)
        PROVE  RemovalEarned'
    BY <1>2 DEF CancelFind
  <1>3. ASSUME NEW r \in Requests, NEW p \in Players, NEW t \in Trades,
               NEW s \in Stamps, BuyLock(r, p, t, s)
        PROVE  RemovalEarned'
    BY <1>3 DEF BuyLock
  <1>4. ASSUME NEW r \in Requests,
               \/ ListIndex(r) \/ BuyExpire(r) \/ BuyUnlist(r) \/ BuyGetLock(r)
               \/ BuyDelLock(r) \/ CancelUnlist(r)
        PROVE  RemovalEarned'
    BY <1>4 DEF ListIndex, BuyExpire, BuyUnlist, BuyGetLock, BuyDelLock, CancelUnlist
  <1>5. ASSUME NEW r \in Requests, BuyFind(r) PROVE RemovalEarned'
    BY <1>5 DEF BuyFind, Buyable
  <1>6. ASSUME NEW r \in Requests, BuySave(r) PROVE RemovalEarned'
    BY <1>6 DEF BuySave
  <1>7. ASSUME NEW r \in Requests, CancelSave(r) PROVE RemovalEarned'
    BY <1>7 DEF CancelSave
  <1>8. ASSUME NEW r \in Requests, TryFails(r) \/ CallFails(r) \/ Crash(r)
        PROVE  RemovalEarned'
    BY <1>8 DEF TryFails, CallFails, Crash
  <1>9. ASSUME NEW t \in Trades, LockLapses(t) PROVE RemovalEarned'
    BY <1>9 DEF LockLapses
  <1>10. CASE Rest \/ UNCHANGED vars
    BY <1>10 DEF Rest, vars
  <1>11. QED
    BY <1>1, <1>2, <1>3, <1>4, <1>5, <1>6, <1>7, <1>8, <1>9, <1>10 DEF Next

\* Only two steps take an entry out of the index.
LEMMA Unlisting ==
  ASSUME TypeOK, RemovalEarned, [Next]_vars
  PROVE  \A t \in index \ index' : trades[t].isCompleted
  <1>1. ASSUME NEW r \in Requests, BuyUnlist(r) \/ CancelUnlist(r)
        PROVE  \A t \in index \ index' : trades[t].isCompleted
    BY <1>1 DEF BuyUnlist, CancelUnlist, RemovalEarned
  <1>2. CASE \A r \in Requests : ~(BuyUnlist(r) \/ CancelUnlist(r))
    <2>1. index \subseteq index'
      BY <1>2 DEF Next, vars, lockVars, ListCreate, CancelFind, BuyLock, ListIndex,
         BuyExpire, BuyFind, BuySave, BuyGetLock, BuyDelLock, CancelSave,
         TryFails, CallFails, Crash, LockLapses, Rest
    <2>2. QED
      BY <2>1
  <1>3. QED
    BY <1>1, <1>2

\* The index never loses a trade that can still be bought, whatever lapses.
THEOREM OpenTradeKept == Spec => OpenTradeStaysListed
  <1>1. Init => RemovalEarned
    BY DEF Init, NoTrade, RemovalEarned
  <1>2. TypeOK /\ RemovalEarned /\ [Next]_vars
          => [\A t \in index \ index' : trades[t].isCompleted]_vars
    BY Unlisting
  <1>3. QED
    BY <1>1, <1>2, EarnedStep, TypeCorrect, PTL DEF Spec, OpenTradeStaysListed

=============================================================================
