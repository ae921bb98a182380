------------------------------ MODULE Offline ------------------------------
(***************************************************************************)
(* Offline rewards, src/modules/offline/offline.service.ts.  A claim reads *)
(* the task in Redis, pays in MongoDB and deletes the task, three awaited  *)
(* calls without a lock.                                                   *)
(*                                                                         *)
(* What is paid grows with the seconds a claim counts, at a rate and with  *)
(* an efficiency that are left out: the seconds stand for it.              *)
(***************************************************************************)
EXTENDS Integers

CONSTANTS
  Players, Requests,
  Skilled,             \* players whose document has the skill of their task
  MaxSeconds,          \* OFFLINE_REWARD_MAX_HOURS, in seconds
  LastSecond,          \* bound on the clock
  MaxCredit,           \* bound on what a player has when a claim starts
  Nothing              \* a missing key, an idle request

Claims == [player : Players, at : {"pay", "del"}, seconds : 0..MaxSeconds]

OfflineAssumption ==
  /\ MaxSeconds \in Nat /\ LastSecond \in Nat /\ MaxCredit \in Nat
  /\ Skilled \subseteq Players /\ Nothing \notin Nat \cup Claims

VARIABLES
  second,              \* the clock, now() of utils/index.ts
  offlineTask,         \* player:<id>:offline_task, its startTime, or Nothing
  credited,            \* the seconds the player's document was credited
  claim,               \* each request: [player, at, seconds], or Nothing
  alone                \* history: no two claims of the player, and no claim and
                       \*          a new task, overlapped; no call failed

OfflineTypeOK ==
  /\ second \in 0..LastSecond
  /\ offlineTask \in [Players -> 0..LastSecond \cup {Nothing}]
  /\ credited \in [Players -> Nat]
  /\ claim \in [Requests -> Claims \cup {Nothing}]
  /\ alone \in [Players -> BOOLEAN]

OfflineInit ==
  /\ second = 0
  /\ offlineTask = [p \in Players |-> Nothing]
  /\ credited = [p \in Players |-> 0]
  /\ claim = [r \in Requests |-> Nothing]
  /\ alone = [p \in Players |-> TRUE]

-----------------------------------------------------------------------------
Claiming(p) == \E r \in Requests : claim[r] # Nothing /\ claim[r].player = p
Overlaps(p) == alone' = [alone EXCEPT ![p] = @ /\ ~Claiming(p)]

\* A new task takes the place of an older one, paid or not.
SetOfflineTask(p) ==
  /\ offlineTask' = [offlineTask EXCEPT ![p] = second]
  /\ Overlaps(p)
  /\ UNCHANGED <<second, credited, claim>>

clampOfflineDurationNone(d) == d
\* clampOfflineDuration and the bound in the service are the same.
clampOfflineDuration(d) == IF d < MaxSeconds THEN d ELSE MaxSeconds

\* Without a task the answer is empty.
ClaimGet(r, p) ==
  /\ claim[r] = Nothing /\ offlineTask[p] # Nothing /\ credited[p] <= MaxCredit
  /\ claim' = [claim EXCEPT ![r] = [player |-> p, at |-> "pay",
                 seconds |-> clampOfflineDuration(second - offlineTask[p])]]
  /\ Overlaps(p)
  /\ UNCHANGED <<second, offlineTask, credited>>

\* The update matches no element for a player without the skill.
Credit(p, seconds) ==
  credited' = [credited EXCEPT ![p] = IF p \in Skilled THEN @ + seconds ELSE @]

ClaimPay(r) ==
  /\ claim[r] # Nothing /\ claim[r].at = "pay"
  /\ Credit(claim[r].player, claim[r].seconds)
  /\ \/ claim' = [claim EXCEPT ![r].at = "del"] /\ UNCHANGED alone
     \/ claim' = [claim EXCEPT ![r] = Nothing]                  \* the reply is lost
        /\ alone' = [alone EXCEPT ![claim[r].player] = FALSE]
  /\ UNCHANGED <<second, offlineTask>>

RemoveTaskNone(p) == UNCHANGED offlineTask
RemoveTask(p) == offlineTask' = [offlineTask EXCEPT ![p] = Nothing]

ClaimDel(r) ==
  /\ claim[r] # Nothing /\ claim[r].at = "del"
  /\ RemoveTask(claim[r].player)
  /\ claim' = [claim EXCEPT ![r] = Nothing]
  /\ UNCHANGED <<second, credited, alone>>

\* A rejected call, or a crash.
ClaimFails(r) ==
  /\ claim[r] # Nothing
  /\ claim' = [claim EXCEPT ![r] = Nothing]
  /\ alone' = [alone EXCEPT ![claim[r].player] = FALSE]
  /\ UNCHANGED <<second, offlineTask, credited>>

SecondPasses ==
  /\ second < LastSecond
  /\ second' = second + 1
  /\ UNCHANGED <<offlineTask, credited, claim, alone>>

OfflineNext ==
  \/ \E p \in Players : SetOfflineTask(p)
  \/ \E r \in Requests :
       \/ \E p \in Players : ClaimGet(r, p)
       \/ ClaimPay(r) \/ ClaimDel(r) \/ ClaimFails(r)
  \/ SecondPasses

OfflineSpec == OfflineInit /\ [][OfflineNext]_<<second, offlineTask, credited, claim, alone>>

\* getRewardPreview, which changes nothing, and calculateExpGain.
RewardPreview(p) ==
  LET d == IF offlineTask[p] = Nothing THEN 0 ELSE second - offlineTask[p]
  IN [duration |-> d, counted |-> clampOfflineDuration(d), willBeCapped |-> d > MaxSeconds]
calculateExpGain(seconds) == seconds \div 10

-----------------------------------------------------------------------------
\* A player whose claims never overlap another, or a new task, and never fail
\* is paid no more seconds than have passed, one task after the other.
PaidForTimeAway == \A p \in Players : alone[p] => credited[p] <= second
=============================================================================
