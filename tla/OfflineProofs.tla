---------------------------- MODULE OfflineProofs ----------------------------
(***************************************************************************)
(* Theorems about Offline.tla: types, and that a player whose claims do    *)
(* not overlap or fail is paid for no more than the time that passed.      *)
(***************************************************************************)
EXTENDS Offline, TLAPS

offlineVars == <<second, offlineTask, credited, claim, alone>>

\* Tasks start in the past; the types need it, for what a claim counts.
TasksStarted == \A p \in Players : offlineTask[p] # Nothing => offlineTask[p] <= second

TypeInv == OfflineTypeOK /\ TasksStarted

\* What makes PaidForTimeAway inductive: while nothing has overlapped, there is
\* one claim of the player at most, what it is about to pay fits in the time
\* that has passed, and a task that nobody claims starts after all that is paid.
Claims1(p) ==
  \A r, q \in Requests :
    claim[r] # Nothing /\ claim[q] # Nothing /\ claim[r].player = p /\ claim[q].player = p
      => r = q
PayFits(p) ==
  \A r \in Requests : claim[r] # Nothing /\ claim[r].player = p /\ claim[r].at = "pay"
    => credited[p] + claim[r].seconds <= second
TaskUnpaid(p) == ~Claiming(p) /\ offlineTask[p] # Nothing => credited[p] <= offlineTask[p]

AloneInv(p) ==
  alone[p] => credited[p] <= second /\ Claims1(p) /\ PayFits(p) /\ TaskUnpaid(p)
OfflineInv == TypeInv /\ \A p \in Players : AloneInv(p)

-----------------------------------------------------------------------------
\* The clamp stays within the limit and never counts more than there is.
LEMMA ClampBounds ==
  ASSUME OfflineAssumption, NEW d \in Nat
  PROVE  clampOfflineDuration(d) \in 0..MaxSeconds /\ clampOfflineDuration(d) <= d
  BY DEF clampOfflineDuration, OfflineAssumption

LEMMA TypeInductive ==
  ASSUME OfflineAssumption, TypeInv, [OfflineNext]_offlineVars
  PROVE  TypeInv'
<1> USE DEF TypeInv, OfflineTypeOK, TasksStarted, OfflineAssumption
<1>1. ASSUME NEW p \in Players, SetOfflineTask(p)
      PROVE  TypeInv'
  BY <1>1 DEF SetOfflineTask, Overlaps
<1>2. ASSUME NEW r \in Requests, NEW p \in Players, ClaimGet(r, p)
      PROVE  TypeInv'
  <2> DEFINE d == second - offlineTask[p]
  <2>1. d \in Nat
    BY <1>2 DEF ClaimGet
  <2>2. clampOfflineDuration(d) \in 0..MaxSeconds
    BY <2>1, ClampBounds
  <2>3. claim' \in [Requests -> Claims \cup {Nothing}]
    BY <1>2, <2>2 DEF ClaimGet, Claims
  <2> QED
    BY <1>2, <2>3 DEF ClaimGet, Overlaps
<1>3. ASSUME NEW r \in Requests, ClaimPay(r)
      PROVE  TypeInv'
  <2>1. claim[r] \in Claims
    BY <1>3 DEF ClaimPay
  <2>2. claim' \in [Requests -> Claims \cup {Nothing}]
    BY <1>3, <2>1 DEF ClaimPay, Claims
  <2>3. claim[r].player \in Players /\ claim[r].seconds \in Nat
    BY <2>1 DEF Claims
  <2>4. credited' \in [Players -> Nat]
    BY <1>3, <2>3 DEF ClaimPay, Credit
  <2>5. alone' \in [Players -> BOOLEAN]
    BY <1>3, <2>3 DEF ClaimPay
  <2> QED
    BY <1>3, <2>2, <2>4, <2>5 DEF ClaimPay
<1>4. ASSUME NEW r \in Requests, ClaimDel(r)
      PROVE  TypeInv'
  BY <1>4 DEF ClaimDel, RemoveTask
<1>5. ASSUME NEW r \in Requests, ClaimFails(r)
      PROVE  TypeInv'
  BY <1>5 DEF ClaimFails
<1>6. ASSUME SecondPasses
      PROVE  TypeInv'
  BY <1>6 DEF SecondPasses
<1>7. CASE UNCHANGED offlineVars
  BY <1>7 DEF offlineVars
<1> QED
  BY <1>1, <1>2, <1>3, <1>4, <1>5, <1>6, <1>7 DEF OfflineNext

-----------------------------------------------------------------------------
\* A claim that ends, and a task that is removed, leave a player who is alone
\* with what AloneInv needs.
LEMMA AloneInductive ==
  ASSUME OfflineAssumption, OfflineInv, TypeInv', [OfflineNext]_offlineVars,
         NEW p \in Players
  PROVE  AloneInv(p)'
<1> SUFFICES ASSUME alone'[p]
             PROVE  (credited[p] <= second /\ Claims1(p) /\ PayFits(p) /\ TaskUnpaid(p))'
  BY DEF AloneInv
<1>t. /\ second \in Nat /\ credited \in [Players -> Nat] /\ alone \in [Players -> BOOLEAN]
      /\ offlineTask \in [Players -> Nat \cup {Nothing}]
      /\ claim \in [Requests -> Claims \cup {Nothing}]
      /\ Nothing \notin Nat /\ Nothing \notin Claims
  BY DEF OfflineInv, TypeInv, OfflineTypeOK, OfflineAssumption
<1>i. alone[p] => credited[p] <= second /\ Claims1(p) /\ PayFits(p) /\ TaskUnpaid(p)
  BY DEF OfflineInv, AloneInv
<1>1. ASSUME NEW q \in Players, SetOfflineTask(q)
      PROVE  (credited[p] <= second /\ Claims1(p) /\ PayFits(p) /\ TaskUnpaid(p))'
  BY <1>1, <1>t, <1>i DEF SetOfflineTask, Overlaps, Claims1, PayFits, TaskUnpaid, Claiming
<1>2. ASSUME NEW r \in Requests, NEW q \in Players, ClaimGet(r, q)
      PROVE  (credited[p] <= second /\ Claims1(p) /\ PayFits(p) /\ TaskUnpaid(p))'
  <2> DEFINE c == [player |-> q, at |-> "pay",
                   seconds |-> clampOfflineDuration(second - offlineTask[q])]
  <2>1. /\ claim[r] = Nothing /\ offlineTask[q] # Nothing /\ claim' = [claim EXCEPT ![r] = c]
        /\ alone' = [alone EXCEPT ![q] = @ /\ ~Claiming(q)]
        /\ UNCHANGED <<second, offlineTask, credited>>
    BY <1>2 DEF ClaimGet, Overlaps
  <2>2. alone[p] /\ (q = p => ~Claiming(p))
    BY <2>1, <1>t
  <2>3. c.player = q /\ c.at = "pay" /\ c.seconds = clampOfflineDuration(second - offlineTask[q])
    OBVIOUS
  <2>4. \A s \in Requests : claim'[s] = IF s = r THEN c ELSE claim[s]
    BY <2>1, <1>t
  <2>5. CASE q = p
    <3>1. second - offlineTask[p] \in Nat
      BY <2>1, <2>5, <1>t DEF OfflineInv, TypeInv, TasksStarted
    <3>2. c.seconds \in Nat /\ c.seconds <= second - offlineTask[p]
      BY <3>1, <2>3, <2>5, ClampBounds DEF OfflineAssumption
    <3>3. credited[p] <= offlineTask[p]
      BY <2>1, <2>2, <2>5, <1>i DEF TaskUnpaid
    <3>4. credited[p] + c.seconds <= second
      BY <3>2, <3>3, <1>t, <2>1, <2>5
    <3>5. PayFits(p)' /\ Claims1(p)'
      BY <3>4, <2>1, <2>2, <2>4, <2>5 DEF PayFits, Claims1, Claiming
    <3>6. c # Nothing
      <4>1. claim' \in [Requests -> Claims \cup {Nothing}] /\ c \in Claims
        BY <3>1, <2>3, <2>5, <3>2, ClampBounds DEF Claims, TypeInv, OfflineTypeOK
      <4> QED
        BY <4>1, <1>t
    <3>7. TaskUnpaid(p)'
      BY <3>6, <2>3, <2>4, <2>5 DEF TaskUnpaid, Claiming
    <3> QED
      BY <3>5, <3>7, <2>1, <2>2, <1>i
  <2>6. CASE q # p
    BY <2>1, <2>2, <2>3, <2>4, <2>6, <1>t, <1>i DEF PayFits, Claims1, TaskUnpaid, Claiming
  <2> QED
    BY <2>5, <2>6
<1>3. ASSUME NEW r \in Requests, ClaimPay(r)
      PROVE  (credited[p] <= second /\ Claims1(p) /\ PayFits(p) /\ TaskUnpaid(p))'
  <2> DEFINE c == claim[r]
  <2>1. /\ c \in Claims /\ c # Nothing /\ c.at = "pay" /\ c.player \in Players /\ c.seconds \in Nat
        /\ Credit(c.player, c.seconds) /\ UNCHANGED <<second, offlineTask>>
    BY <1>3, <1>t DEF ClaimPay, Claims
  <2>2. alone[p]
    BY <1>3, <1>t DEF ClaimPay
  <2>3. CASE c.player = p
    <3>1. claim' = [claim EXCEPT ![r].at = "del"]
      BY <1>3, <1>t, <2>3 DEF ClaimPay
    <3>2. claim'[r] \in Claims /\ claim'[r].player = p /\ claim'[r].at = "del"
      BY <3>1, <2>1, <2>3, <1>t DEF Claims
    <3>3. \A s \in Requests : s # r => claim'[s] = claim[s]
      BY <3>1, <1>t
    <3>4. \A s \in Requests : s # r /\ claim[s] # Nothing => claim[s].player # p
      BY <2>1, <2>2, <2>3, <1>i DEF Claims1
    <3>5. credited'[p] <= second
      BY <2>1, <2>2, <2>3, <1>i, <1>t DEF PayFits, Credit
    <3> QED
      BY <3>2, <3>3, <3>4, <3>5, <2>1, <1>t DEF Claims1, PayFits, TaskUnpaid, Claiming
  <2>4. CASE c.player # p
    <3>1. credited'[p] = credited[p]
      BY <2>1, <2>4, <1>t DEF Credit
    <3>2. \A s \in Requests : s # r => claim'[s] = claim[s]
      BY <1>3, <1>t DEF ClaimPay
    <3>3. claim'[r] # Nothing => claim'[r].player # p
      BY <1>3, <2>1, <2>4, <1>t DEF ClaimPay, Claims
    <3> QED
      BY <3>1, <3>2, <3>3, <2>1, <2>2, <2>4, <1>i, <1>t
      DEF Claims1, PayFits, TaskUnpaid, Claiming
  <2> QED
    BY <2>3, <2>4
<1>4. ASSUME NEW r \in Requests, ClaimDel(r)
      PROVE  (credited[p] <= second /\ Claims1(p) /\ PayFits(p) /\ TaskUnpaid(p))'
  <2>1. /\ claim[r] # Nothing /\ alone' = alone /\ credited' = credited /\ second' = second
        /\ claim[r].player \in Players
        /\ offlineTask' = [offlineTask EXCEPT ![claim[r].player] = Nothing]
        /\ \A s \in Requests : claim'[s] = IF s = r THEN Nothing ELSE claim[s]
    BY <1>4, <1>t DEF ClaimDel, RemoveTask, Claims
  <2>2. CASE claim[r].player = p
    BY <2>1, <2>2, <1>t, <1>i DEF Claims1, PayFits, TaskUnpaid, Claiming
  <2>3. CASE claim[r].player # p
    BY <2>1, <2>3, <1>t, <1>i DEF Claims1, PayFits, TaskUnpaid, Claiming
  <2> QED
    BY <2>2, <2>3
<1>5. ASSUME NEW r \in Requests, ClaimFails(r)
      PROVE  (credited[p] <= second /\ Claims1(p) /\ PayFits(p) /\ TaskUnpaid(p))'
  <2>1. /\ claim[r] # Nothing /\ alone' = [alone EXCEPT ![claim[r].player] = FALSE]
        /\ UNCHANGED <<second, offlineTask, credited>>
        /\ claim[r].player \in Players
        /\ \A s \in Requests : claim'[s] = IF s = r THEN Nothing ELSE claim[s]
    BY <1>5, <1>t DEF ClaimFails, Claims
  <2>2. claim[r].player # p /\ alone[p]
    BY <2>1, <1>t
  <2> QED
    BY <2>1, <2>2, <1>t, <1>i DEF Claims1, PayFits, TaskUnpaid, Claiming
<1>6. ASSUME SecondPasses
      PROVE  (credited[p] <= second /\ Claims1(p) /\ PayFits(p) /\ TaskUnpaid(p))'
  <2>1. second' = second + 1 /\ UNCHANGED <<offlineTask, credited, claim, alone>>
    BY <1>6 DEF SecondPasses
  <2>2. \A r \in Requests : claim[r] # Nothing => claim[r].seconds \in Nat
    BY <1>t DEF Claims, OfflineAssumption
  <2> QED
    BY <2>1, <2>2, <1>t, <1>i DEF Claims1, PayFits, TaskUnpaid, Claiming
<1>7. CASE UNCHANGED offlineVars
  BY <1>7, <1>t, <1>i DEF offlineVars, Claims1, PayFits, TaskUnpaid, Claiming
<1> QED
  BY <1>1, <1>2, <1>3, <1>4, <1>5, <1>6, <1>7 DEF OfflineNext

LEMMA OfflineInitial == ASSUME OfflineAssumption, OfflineInit PROVE OfflineInv
  BY DEF OfflineInit, OfflineInv, TypeInv, OfflineTypeOK, TasksStarted, AloneInv, Claims1,
         PayFits, TaskUnpaid, Claiming, OfflineAssumption

-----------------------------------------------------------------------------
\* A player whose claims overlap nothing and do not fail is credited with no
\* more seconds than have passed, for all players, requests, limits and
\* clocks: the three calls of calculateAndClaimReward pay one task once.
THEOREM NotOverpaid ==
  ASSUME OfflineAssumption
  PROVE  OfflineSpec => []PaidForTimeAway
<1>1. OfflineInit => OfflineInv
  BY OfflineInitial
<1>2. OfflineInv /\ [OfflineNext]_offlineVars => OfflineInv'
  BY TypeInductive, AloneInductive DEF OfflineInv
<1>3. OfflineInv => PaidForTimeAway
  BY DEF OfflineInv, AloneInv, PaidForTimeAway
<1> QED
  BY <1>1, <1>2, <1>3, PTL DEF OfflineSpec, offlineVars

\* The claims have their types; what a claim counts is never negative and never
\* more than the limit of an absence.
THEOREM TypeCorrect ==
  ASSUME OfflineAssumption
  PROVE  OfflineSpec => []OfflineTypeOK
<1>1. OfflineInit => OfflineInv
  BY OfflineInitial
<1>2. OfflineInv /\ [OfflineNext]_offlineVars => OfflineInv'
  BY TypeInductive, AloneInductive DEF OfflineInv
<1>3. OfflineInv => OfflineTypeOK
  BY DEF OfflineInv, TypeInv
<1> QED
  BY <1>1, <1>2, <1>3, PTL DEF OfflineSpec, offlineVars
=============================================================================
