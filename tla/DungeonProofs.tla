---------------------------- MODULE DungeonProofs ----------------------------
(***************************************************************************)
(* Theorems about Dungeon: its types, and that every floor was paid for.   *)
(* What a request is about to write was paid for when it was read, and     *)
(* says so itself: no overlap, failure or expiry can change that.          *)
(***************************************************************************)
EXTENDS Dungeon, TLAPS

dungeonVars == <<dungeon, visit>>

\* The two items, by their values.
LEMMA ItemNames == Items = {"guiding_talisman", "concealment_array"}
  BY DEF Items, DungeonItem

\* No item is among the names the limits are kept under.
LEMMA NoLimit == \A item \in Items : Limit(item) = Nothing
  BY ItemNames DEF Limit, DUNGEON_ITEM_LIMITS

\* A state that is good to be stored.
Sound(s) == s \in States /\ Paid(s)

-----------------------------------------------------------------------------
\* What each operation computes from a sound state is sound.

LEMMA EnterSound ==
  ASSUME DungeonAssumption, NEW m \in Nat, m <= 1 + Given.guiding_talisman
  PROVE  Sound([floor |-> 1, maxFloor |-> m, items |-> Given, activeArrays |-> 0,
                isActive |-> TRUE])
  BY ItemNames DEF Sound, States, Paid, DungeonAssumption, DUNGEON_ITEM_LIMITS

LEMMA TalismanSound ==
  ASSUME DungeonAssumption, NEW s, Sound(s), Has(s, DungeonItem.GUIDING_TALISMAN)
  PROVE  Sound([Consume(s, DungeonItem.GUIDING_TALISMAN) EXCEPT !.floor = @ + 1])
<1> DEFINE t == [Consume(s, DungeonItem.GUIDING_TALISMAN) EXCEPT !.floor = @ + 1]
           n == s.items.guiding_talisman
<1>1. /\ s \in States /\ Paid(s) /\ n # Nothing /\ n > 0 /\ n \in Nat
      /\ s.items \in [Items -> Nat \cup {Nothing}]
  BY ItemNames DEF Sound, Has, DungeonItem, States, Unlisted
<1>2. t = [s EXCEPT !.items = [s.items EXCEPT !["guiding_talisman"] = n - 1],
                    !.floor = s.floor + 1]
  BY <1>1, ItemNames DEF Consume, DungeonItem, States, Unlisted
<1>3. t \in States
  <2>1. n - 1 \in Nat
    BY <1>1
  <2>2. [s.items EXCEPT !["guiding_talisman"] = n - 1] \in [Items -> Nat \cup {Nothing}]
    BY <1>1, <2>1
  <2>3. s.floor + 1 \in Nat
    BY <1>1 DEF States
  <2> QED
    BY <1>1, <1>2, <2>2, <2>3 DEF States
<1>4. /\ t.items.guiding_talisman = n - 1
      /\ t.items.concealment_array = s.items.concealment_array
      /\ t.floor = s.floor + 1 /\ t.maxFloor = s.maxFloor /\ t.activeArrays = s.activeArrays
  BY <1>1, <1>2, ItemNames DEF States
<1>5. /\ s.floor \in Nat /\ s.floor - 1 + n = Given.guiding_talisman /\ s.floor >= 1
      /\ Given.guiding_talisman \in Nat
  BY <1>1 DEF Paid, States, DungeonAssumption
<1>6. Paid(t)
  BY <1>1, <1>4, <1>5 DEF Paid
<1> QED
  BY <1>3, <1>6 DEF Sound

LEMMA ArraySound ==
  ASSUME DungeonAssumption, NEW s, Sound(s), Has(s, DungeonItem.CONCEALMENT_ARRAY),
         s.activeArrays < DUNGEON_ITEM_LIMITS.CONCEALMENT_ARRAY
  PROVE  Sound([Consume(s, DungeonItem.CONCEALMENT_ARRAY) EXCEPT !.activeArrays = @ + 1])
<1> DEFINE t == [Consume(s, DungeonItem.CONCEALMENT_ARRAY) EXCEPT !.activeArrays = @ + 1]
           n == s.items.concealment_array
<1>1. /\ s \in States /\ Paid(s) /\ n # Nothing /\ n > 0 /\ n \in Nat
      /\ s.items \in [Items -> Nat \cup {Nothing}]
  BY ItemNames DEF Sound, Has, DungeonItem, States, Unlisted
<1>2. t = [s EXCEPT !.items = [s.items EXCEPT !["concealment_array"] = n - 1],
                    !.activeArrays = s.activeArrays + 1]
  BY <1>1, ItemNames DEF Consume, DungeonItem, States, Unlisted
<1>3. t \in States
  <2>1. n - 1 \in Nat
    BY <1>1
  <2>2. [s.items EXCEPT !["concealment_array"] = n - 1] \in [Items -> Nat \cup {Nothing}]
    BY <1>1, <2>1
  <2>3. s.activeArrays + 1 \in Nat
    BY <1>1 DEF States
  <2> QED
    BY <1>1, <1>2, <2>2, <2>3 DEF States
<1>4. /\ t.items.concealment_array = n - 1
      /\ t.items.guiding_talisman = s.items.guiding_talisman
      /\ t.floor = s.floor /\ t.maxFloor = s.maxFloor /\ t.activeArrays = s.activeArrays + 1
  BY <1>1, <1>2, ItemNames DEF States
<1>5. s.activeArrays \in Nat /\ Given.concealment_array \in Nat
  BY <1>1 DEF States, DungeonAssumption
<1>6. Paid(t)
  BY <1>1, <1>4, <1>5 DEF Paid, DUNGEON_ITEM_LIMITS
<1> QED
  BY <1>3, <1>6 DEF Sound

\* A type that names no item costs and brings nothing.
LEMMA UnlistedSound ==
  ASSUME NEW s, Sound(s)
  PROVE  Sound(Consume(s, Unlisted))
  BY DEF Consume

LEMMA ExitSound ==
  ASSUME NEW s, Sound(s)
  PROVE  Sound([s EXCEPT !.maxFloor = IF s.floor > @ THEN s.floor ELSE @, !.isActive = FALSE])
<1> DEFINE t == [s EXCEPT !.maxFloor = IF s.floor > @ THEN s.floor ELSE @, !.isActive = FALSE]
<1>1. t \in States
  BY DEF Sound, States
<1>2. /\ t.items = s.items /\ t.floor = s.floor /\ t.activeArrays = s.activeArrays
      /\ t.maxFloor \in {s.floor, s.maxFloor}
  BY DEF Sound, States
<1> QED
  BY <1>1, <1>2 DEF Sound, Paid, States

\* The count of an acquired item is stored as null: nothing is claimed of it.
LEMMA AcquireSound ==
  ASSUME NEW s, Sound(s), NEW item \in Items, NEW n
  PROVE  Sound([s EXCEPT !.items[item] = Capped(n, Limit(item))])
<1> DEFINE t == [s EXCEPT !.items[item] = Capped(n, Limit(item))]
<1>1. t = [s EXCEPT !.items = [s.items EXCEPT ![item] = Nothing]]
  BY NoLimit DEF Capped, Sound, States
<1>2. t \in States
  BY <1>1 DEF Sound, States
<1>3. /\ t.floor = s.floor /\ t.maxFloor = s.maxFloor /\ t.activeArrays = s.activeArrays
      /\ t.items = [s.items EXCEPT ![item] = Nothing]
  BY <1>1 DEF Sound, States
<1>4. \A i \in Items : t.items[i] \in {s.items[i], Nothing}
  BY <1>3 DEF Sound, States
<1> QED
  BY <1>2, <1>3, <1>4, ItemNames DEF Sound, Paid, States

-----------------------------------------------------------------------------
DungeonInv == DungeonTypeOK /\ FloorPaid

\* A request that has read holds a sound state.
LEMMA ReadSound ==
  ASSUME DungeonInv, NEW r \in Requests, NEW op \in Operations, NEW p \in Players, NEW s,
         Sound(s), Read(r, op, p, s)
  PROVE  DungeonInv'
<1>1. /\ visit' \in [Requests -> Visits \cup {Nothing}]
      /\ visit' = [visit EXCEPT ![r] = [op |-> op, player |-> p, state |-> s]]
  BY DEF DungeonInv, DungeonTypeOK, Read, Visits, Sound
<1>2. DungeonTypeOK'
  BY <1>1 DEF DungeonInv, DungeonTypeOK, Read
<1>3. \A q \in Requests : visit'[q] # Nothing => Paid(visit'[q].state)
  BY <1>1 DEF DungeonInv, DungeonTypeOK, FloorPaid, Sound
<1>4. FloorPaid'
  BY <1>3 DEF DungeonInv, FloorPaid, Read, Inside, Paid
<1> QED
  BY <1>2, <1>4 DEF DungeonInv

LEMMA DungeonInductive ==
  ASSUME DungeonAssumption, DungeonInv, [DungeonNext]_dungeonVars
  PROVE  DungeonInv'
<1> USE DEF Operations
<1>1. ASSUME NEW p \in Players, Inside(p)
      PROVE  Sound(dungeon[p]) /\ dungeon[p].maxFloor \in Nat
  BY <1>1 DEF DungeonInv, DungeonTypeOK, FloorPaid, Inside, Sound, States
<1>2. ASSUME NEW r \in Requests, NEW p \in Players, Enter(r, p)
      PROVE  DungeonInv'
  <2> DEFINE m == IF Inside(p) THEN dungeon[p].maxFloor ELSE 0
  <2>1. m \in Nat /\ m <= 1 + Given.guiding_talisman
    BY <1>1 DEF Sound, Paid, DungeonAssumption
  <2> QED
    BY <1>2, <2>1, EnterSound, ReadSound DEF Enter
<1>3. ASSUME NEW r \in Requests, NEW p \in Players, Exit(r, p)
      PROVE  DungeonInv'
  BY <1>3, <1>1, ExitSound, ReadSound DEF Exit
<1>4. ASSUME NEW r \in Requests, NEW p \in Players, NEW item \in Items \cup {Unlisted},
             UseItem(r, p, item)
      PROVE  DungeonInv'
  <2>1. Sound(dungeon[p]) /\ Has(dungeon[p], item)
    BY <1>1, <1>4 DEF UseItem, Active
  <2>2. CASE item = DungeonItem.GUIDING_TALISMAN /\ Read(r, "use", p,
               [Consume(dungeon[p], item) EXCEPT !.floor = @ + 1])
    BY <2>1, <2>2, TalismanSound, ReadSound
  <2>3. CASE /\ item = DungeonItem.CONCEALMENT_ARRAY
             /\ dungeon[p].activeArrays < DUNGEON_ITEM_LIMITS.CONCEALMENT_ARRAY
             /\ Read(r, "use", p, [Consume(dungeon[p], item) EXCEPT !.activeArrays = @ + 1])
    BY <2>1, <2>3, ArraySound, ReadSound
  <2>4. CASE item = Unlisted /\ Read(r, "use", p, Consume(dungeon[p], item))
    BY <2>1, <2>4, UnlistedSound, ReadSound
  <2> QED
    BY <1>4, <2>2, <2>3, <2>4 DEF UseItem
<1>5. ASSUME NEW r \in Requests, NEW p \in Players, NEW item \in Items, NEW n \in Counts,
             AcquireItem(r, p, item, n)
      PROVE  DungeonInv'
  BY <1>5, <1>1, AcquireSound, ReadSound DEF AcquireItem
<1>6. ASSUME NEW r \in Requests, Write(r)
      PROVE  DungeonInv'
  <2>1. /\ visit[r] \in Visits /\ Paid(visit[r].state)
        /\ visit[r].state \in States /\ visit[r].player \in Players
    BY <1>6 DEF Write, DungeonInv, DungeonTypeOK, FloorPaid, Visits
  <2>2. DungeonTypeOK'
    BY <1>6, <2>1 DEF Write, DungeonInv, DungeonTypeOK
  <2>3. \A p \in Players : dungeon'[p] \in {dungeon[p], visit[r].state}
    BY <1>6, <2>1 DEF Write, DungeonInv, DungeonTypeOK
  <2>4. \A q \in Requests : visit'[q] \in {visit[q], Nothing}
    BY <1>6 DEF Write, DungeonInv, DungeonTypeOK
  <2>5. FloorPaid'
    BY <2>1, <2>3, <2>4 DEF DungeonInv, FloorPaid, Inside, Paid
  <2> QED
    BY <2>2, <2>5 DEF DungeonInv
<1>7. ASSUME NEW p \in Players, DungeonExpires(p)
      PROVE  DungeonInv'
  BY <1>7 DEF DungeonExpires, DungeonInv, DungeonTypeOK, FloorPaid, Inside, Paid
<1>8. CASE UNCHANGED dungeonVars
  BY <1>8 DEF dungeonVars, DungeonInv, DungeonTypeOK, FloorPaid, Inside, Paid
<1> QED
  BY <1>2, <1>3, <1>4, <1>5, <1>6, <1>7, <1>8 DEF DungeonNext

\* Every floor and every array was paid with an item, for all players,
\* requests, counts and starting items: src/modules/battle/dungeon.service.ts
\* gives no floors away although its operations overlap.
THEOREM FloorsPaid ==
  ASSUME DungeonAssumption
  PROVE  DungeonSpec => []FloorPaid
<1>1. DungeonInit => DungeonInv
  BY DEF DungeonInit, DungeonInv, DungeonTypeOK, FloorPaid, Inside
<1>2. DungeonInv /\ [DungeonNext]_dungeonVars => DungeonInv'
  BY DungeonInductive
<1>3. DungeonInv => FloorPaid
  BY DEF DungeonInv
<1> QED
  BY <1>1, <1>2, <1>3, PTL DEF DungeonSpec, dungeonVars

\* What is stored of a visit has its type, whatever overlaps.
THEOREM TypeCorrect ==
  ASSUME DungeonAssumption
  PROVE  DungeonSpec => []DungeonTypeOK
<1>1. DungeonInit => DungeonInv
  BY DEF DungeonInit, DungeonInv, DungeonTypeOK, FloorPaid, Inside
<1>2. DungeonInv /\ [DungeonNext]_dungeonVars => DungeonInv'
  BY DungeonInductive
<1>3. DungeonInv => DungeonTypeOK
  BY DEF DungeonInv
<1> QED
  BY <1>1, <1>2, <1>3, PTL DEF DungeonSpec, dungeonVars
=============================================================================
