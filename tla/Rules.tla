------------------------------- MODULE Rules -------------------------------
(***************************************************************************)
(* The calculations of src/shared/utils/index.ts and the private ones of   *)
(* battle.service.ts and player.service.ts, with the rules that are        *)
(* written twice.  Products with 0.18, 0.5, 0.2 and 0.1 of whole numbers   *)
(* are exact after rounding, so they are fractions here.                   *)
(***************************************************************************)
EXTENDS Integers, Sequences, SequencesExt, FiniteSets

Lowest(S) == CHOOSE n \in S : \A m \in S : n <= m
Highest(S) == CHOOSE n \in S : \A m \in S : n >= m

calculateTradeTax(amount) == (amount * 18) \div 100

calculateEfficiencyBonus(skillLevel, requiredLevel, extraBonus) ==
  Lowest({Highest({0, skillLevel - requiredLevel}) + extraBonus, 100})

\* Times 100, to have no fractions.
calculateEfficiencyTime(baseTime, skillLevel, requiredLevel, extraBonus) ==
  baseTime * (100 - calculateEfficiencyBonus(skillLevel, requiredLevel, extraBonus))

\* A realm is its number; progress is not bounded by the next realm.
Realms == 1..8
getRealmLevel(realm, progress) == realm * 100 + progress

\* checkRealmSuppression: nobody is left to compare when no document is found.
hasSuppression(levels) ==
  levels # {} /\ (Highest(levels) - Lowest(levels)) * 5 > Lowest(levels)

calculateSuppressedRewardAtLeast(base, highest, level) ==
  IF (highest - level) * 5 >= level THEN base \div 2 ELSE base
calculateSuppressedReward(base, highest, level) ==
  IF (highest - level) * 5 > level THEN base \div 2 ELSE base

\* validateMeridianSlot and the slots that getMeridianSlots counts with it.
MERIDIAN_SLOT_UNLOCK_LEVELS == [SLOT_3 |-> 20, SLOT_4 |-> 50, SLOT_5 |-> 90]
validateMeridianSlot(spiritLevel, slotIndex) ==
  spiritLevel >= IF slotIndex \in 0..4 THEN <<0, 0, 20, 50, 90>>[slotIndex + 1] ELSE 0
maxSlots(spiritLevel) ==
  IF validateMeridianSlot(spiritLevel, 4) THEN 5
  ELSE IF validateMeridianSlot(spiritLevel, 3) THEN 4
  ELSE IF validateMeridianSlot(spiritLevel, 2) THEN 3
  ELSE 2

validateTradeRisk(giftValue, totalReceived) == totalReceived + giftValue <= 10000000

\* getWeaponType looks for the types in the name of the item, in this order;
\* a name is the set of the types it contains.
Styles == {"sword_cultivator", "spell_cultivator", "body_cultivator", "hybrid"}
getWeaponType(name) ==
  IF "sword" \in name THEN "sword"
  ELSE IF "staff" \in name THEN "staff"
  ELSE IF "orb" \in name THEN "orb"
  ELSE "unknown"
\* equipments has a weapon or not: nobody without a weapon has a style.
validateStyleForEquipment(style, weapons) ==
  \E name \in weapons :
    CASE style = "sword_cultivator" -> getWeaponType(name) \in {"sword", "heavy_sword"}
      [] style = "spell_cultivator" -> getWeaponType(name) \in {"staff", "orb"}
      [] style = "body_cultivator" -> getWeaponType(name) \in {"fist", "gauntlet"}
      [] OTHER -> TRUE

\* createItemMap and mergeItemLists; an item is [itemId, count].
AddItem(item, map) ==
  [id \in DOMAIN map \cup {item.itemId} |->
     (IF id \in DOMAIN map THEN map[id] ELSE 0) + (IF id = item.itemId THEN item.count ELSE 0)]
EmptyMap == [id \in {} |-> 0]
createItemMap(items) == FoldSeq(AddItem, EmptyMap, items)
\* A Map keeps its keys in the order they came in.
Merge(entries, item) ==
  LET known == {i \in DOMAIN entries : entries[i].itemId = item.itemId}
  IN IF known = {} THEN Append(entries, item)
     ELSE [entries EXCEPT ![CHOOSE i \in known : TRUE].count = @ + item.count]
mergeItemLists(lists) == FoldLeft(LAMBDA entries, list : FoldLeft(Merge, entries, list), <<>>, lists)

-----------------------------------------------------------------------------
\* The rules that are written twice agree: a party is suppressed exactly when
\* its lowest member's reward is halved; merged lists hold each item once, with
\* the count of the item map; the slots open at the levels of the constants.
\* Splitting a sale never raises its tax.
SomeLevels == {getRealmLevel(realm, progress) : realm \in 1..3, progress \in {0, 19, 20, 21, 40}}
SomeItems == [itemId : {"herb", "stone"}, count : 1..2]
SomeLists == UNION {[1..n -> SomeItems] : n \in 0..2}

RulesAgree ==
  /\ \A a, b \in SomeLevels :
       hasSuppression({a, b}) <=>
         calculateSuppressedReward(10, Highest({a, b}), Lowest({a, b})) = 5
  /\ \A x, y \in SomeLists :
       LET merged == mergeItemLists(<<x, y>>) IN
       /\ \A i, j \in DOMAIN merged : merged[i].itemId = merged[j].itemId => i = j
       /\ createItemMap(merged) = createItemMap(x \o y)
  /\ \A l \in 0..100 :
       /\ maxSlots(l) >= 3 <=> l >= MERIDIAN_SLOT_UNLOCK_LEVELS.SLOT_3
       /\ maxSlots(l) >= 4 <=> l >= MERIDIAN_SLOT_UNLOCK_LEVELS.SLOT_4
       /\ maxSlots(l) >= 5 <=> l >= MERIDIAN_SLOT_UNLOCK_LEVELS.SLOT_5
  /\ \A a, b \in 0..60 :
       calculateTradeTax(a) + calculateTradeTax(b) <= calculateTradeTax(a + b)
=============================================================================
