---------------------------- MODULE RiskControl ----------------------------
(***************************************************************************)
(* src/modules/market/risk-control.service.ts.  No module of the server    *)
(* calls it yet, so nothing orders its operations: a gift is recorded      *)
(* whether or not it was validated.  Amounts are in millions.              *)
(***************************************************************************)
EXTENDS Integers, FiniteSets, FiniteSetsExt

CONSTANTS
  Players, Requests,
  Watched,             \* bound: the players who get gifts, loans and flags
  Amounts,             \* of gifts and loans
  DueTimes,            \* loan periods
  LastDay,             \* bound on the clock
  MaxTotal,            \* bound on the total that a gift finds
  MaxGifts, MaxFlags, MaxLoans,   \* bounds on trades, flags and open loans
  Nothing              \* an idle request

MAX_GIFT_VALUE == 10

Trades == [id : 1..MaxGifts, from : Players, to : Players, amount : Amounts, day : 0..LastDay]
Loans == [borrower : Players, amount : Amounts, dueAt : Nat, lives : BOOLEAN]
Gifts == [from : Players, to : Players, amount : Amounts, at : {"set", "create"}, total : Nat]

RiskAssumption ==
  /\ Watched \subseteq Players
  /\ Amounts \subseteq Nat \ {0} /\ DueTimes \subseteq Nat /\ MaxTotal \in Nat
  /\ LastDay \in Nat /\ MaxGifts \in Nat /\ MaxFlags \in Nat /\ MaxLoans \in Nat
  /\ Nothing \notin Gifts

VARIABLES
  day,
  gifts,               \* player:<id>:gifts, 0 when it is missing
  trades,              \* the gift trades: [id, from, to, amount, day]
  loans,               \* player:<id>:loan:<ms> keys: [borrower, amount, dueAt, lives]
  flags,               \* how many flags each player has
  gift,                \* each request: [from, to, amount, at, total], or Nothing
  steady               \* history: no two gifts to the player overlapped, none
                       \*          failed and the total has not expired

riskVars == <<day, gifts, trades, loans, flags, gift, steady>>

RiskTypeOK ==
  /\ day \in 0..LastDay /\ gifts \in [Players -> Nat]
  /\ trades \subseteq Trades /\ loans \subseteq Loans /\ flags \in [Players -> 0..MaxFlags]
  /\ gift \in [Requests -> Gifts \cup {Nothing}]
  /\ steady \in [Players -> BOOLEAN]

RiskInit ==
  /\ day = 0 /\ gifts = [p \in Players |-> 0] /\ trades = {} /\ loans = {}
  /\ flags = [p \in Players |-> 0]
  /\ gift = [r \in Requests |-> Nothing]
  /\ steady = [p \in Players |-> TRUE]

-----------------------------------------------------------------------------
\* recordGift reads the total, writes the sum and creates the trade.

GiftUnderWay(p) == \E r \in Requests : gift[r] # Nothing /\ gift[r].to = p

GiftGet(r, from, to, amount) ==
  /\ gift[r] = Nothing /\ gifts[to] <= MaxTotal
  /\ gift' = [gift EXCEPT ![r] =
       [from |-> from, to |-> to, amount |-> amount, at |-> "set", total |-> gifts[to]]]
  /\ steady' = [steady EXCEPT ![to] = @ /\ ~GiftUnderWay(to)]
  /\ UNCHANGED <<day, gifts, trades, loans, flags>>

NewTotalCapped(g) == IF g.total + g.amount > MAX_GIFT_VALUE THEN MAX_GIFT_VALUE ELSE g.total + g.amount
NewTotal(g) == g.total + g.amount

GiftSet(r) ==
  /\ gift[r] # Nothing /\ gift[r].at = "set"
  /\ gifts' = [gifts EXCEPT ![gift[r].to] = NewTotal(gift[r])]
  /\ gift' = [gift EXCEPT ![r].at = "create"]
  /\ UNCHANGED <<day, trades, loans, flags, steady>>

GiftCreate(r) ==
  LET g == gift[r]
      n == Cardinality(trades) + 1 IN
  /\ g # Nothing /\ g.at = "create" /\ n <= MaxGifts
  /\ trades' = trades \cup
       {[id |-> n, from |-> g.from, to |-> g.to, amount |-> g.amount, day |-> day]}
  /\ gift' = [gift EXCEPT ![r] = Nothing]
  /\ UNCHANGED <<day, gifts, loans, flags, steady>>

\* A rejected call or a crash; the total and the trades are not reconciled.
GiftFails(r) ==
  /\ gift[r] # Nothing
  /\ gift' = [gift EXCEPT ![r] = Nothing]
  /\ steady' = [steady EXCEPT ![gift[r].to] = FALSE]
  /\ UNCHANGED <<day, gifts, trades, loans, flags>>

\* The total lives thirty days from the last gift.
GiftsExpire(p) ==
  /\ gifts[p] > 0
  /\ gifts' = [gifts EXCEPT ![p] = 0]
  /\ steady' = [steady EXCEPT ![p] = FALSE]
  /\ UNCHANGED <<day, trades, loans, flags, gift>>

-----------------------------------------------------------------------------
\* recordLoan keeps a loan until it is due, and no longer; but setJson takes a
\* time to live of 0 for none, and keeps a loan that is due at once for good.

RecordLoan(p, amount, dueDays) ==
  /\ Cardinality(loans) < MaxLoans
  /\ loans' = loans \cup {[borrower |-> p, amount |-> amount, dueAt |-> day + dueDays,
                            lives |-> dueDays = 0]}
  /\ UNCHANGED <<day, gifts, trades, flags, gift, steady>>

DayPasses ==
  /\ day < LastDay
  /\ day' = day + 1
  /\ loans' = {l \in loans : l.lives \/ day + 1 < l.dueAt}
  /\ UNCHANGED <<gifts, trades, flags, gift, steady>>

\* checkOverdueLoans, which changes nothing.
Overdue(p) == {l \in loans : l.borrower = p /\ l.dueAt < day}

FlagAccount(p) ==
  /\ flags[p] < MaxFlags
  /\ flags' = [flags EXCEPT ![p] = @ + 1]
  /\ UNCHANGED <<day, gifts, trades, loans, gift, steady>>

-----------------------------------------------------------------------------
\* validateTrade and what it calls, which change nothing.  Scores are times
\* MAX_GIFT_VALUE, to have no fractions; an hour is a day here.

RecentTransactions(p) == {t \in trades : p \in {t.from, t.to} /\ t.day >= day - 7}
Target(t, p) == IF t.from = p THEN t.to ELSE t.from
detectAbnormalPattern(p) ==
  \/ Cardinality({t \in RecentTransactions(p) : t.day = day}) > 20
  \/ Cardinality({Target(t, p) : t \in RecentTransactions(p)}) > 10
calculateRiskScore(p, amount) ==
  LET score == MAX_GIFT_VALUE * (flags[p] * 20 + (IF amount > 1 THEN 20 ELSE 0)
                                   + (IF amount > 5 THEN 30 ELSE 0)) + gifts[p] * 30
  IN IF score > MAX_GIFT_VALUE * 100 THEN MAX_GIFT_VALUE * 100 ELSE score
validateTrade(p, amount) ==
  /\ gifts[p] + amount <= MAX_GIFT_VALUE
  /\ ~detectAbnormalPattern(p)
  /\ calculateRiskScore(p, amount) < MAX_GIFT_VALUE * 70

RiskNext ==
  \/ \E r \in Requests :
       \/ \E from \in Players, to \in Watched, amount \in Amounts : GiftGet(r, from, to, amount)
       \/ GiftSet(r) \/ GiftCreate(r) \/ GiftFails(r)
  \/ \E p \in Watched :
       \/ GiftsExpire(p) \/ FlagAccount(p)
       \/ \E amount \in Amounts, d \in DueTimes : RecordLoan(p, amount, d)
  \/ DayPasses

RiskSpec == RiskInit /\ [][RiskNext]_riskVars

-----------------------------------------------------------------------------
Received(p) == MapThenSumSet(LAMBDA t : t.amount, {t \in trades : t.to = p})

\* A player whose gifts come one after the other, in whole and within thirty
\* days, has the amounts of the recorded trades as total: what validateTrade
\* compares with the limit is what was given, and a gift it lets pass keeps
\* the limit.
GiftsCounted ==
  \A p \in Players : steady[p] =>
    /\ ~GiftUnderWay(p) => gifts[p] = Received(p)
    /\ \A n \in Amounts : validateTrade(p, n) =>
         Received(p) + n <= MAX_GIFT_VALUE
=============================================================================
