------------------------------ MODULE Dungeon ------------------------------
(***************************************************************************)
(* The dungeon, src/modules/battle/dungeon.service.ts.  All a player has   *)
(* there is one Redis value, which every operation reads, changes and      *)
(* writes back.  exitDungeon and acquireItem are exported and have no      *)
(* route yet.                                                              *)
(*                                                                         *)
(* A number that JSON cannot hold is stored as null.  In a comparison null *)
(* counts as 0, and what an absent limit caps is no number.                *)
(***************************************************************************)
EXTENDS Integers

CONSTANTS
  Players, Requests,
  Counts,              \* how many items acquireItem is called for
  Given,               \* the items a visit starts with: ten and two
  Nothing              \* a missing key, an idle request; null and undefined

DungeonAssumption ==
  /\ Counts \subseteq Nat
  /\ Given \in [{"guiding_talisman", "concealment_array"} -> Nat] /\ Given.concealment_array <= 4

VARIABLES
  dungeon,             \* dungeon:<player>
  visit                \* each request: what it will write, where and for what

DungeonItem == [GUIDING_TALISMAN |-> "guiding_talisman",
                CONCEALMENT_ARRAY |-> "concealment_array"]
Items == {DungeonItem[name] : name \in DOMAIN DungeonItem}
Unlisted == "unlisted"  \* an item type that a client may send and names no item

\* The limits are stored under the names of the items and looked up by value.
DUNGEON_ITEM_LIMITS == [GUIDING_TALISMAN |-> 100, CONCEALMENT_ARRAY |-> 4]
Limit(item) ==
  IF item \in DOMAIN DUNGEON_ITEM_LIMITS THEN DUNGEON_ITEM_LIMITS[item] ELSE Nothing

States == [floor : Nat, maxFloor : Nat, items : [Items -> Nat \cup {Nothing}],
           activeArrays : Nat, isActive : BOOLEAN]
Operations == {"enter", "use", "exit", "acquire"}
Visits == [op : Operations, player : Players, state : States]

DungeonTypeOK ==
  /\ dungeon \in [Players -> States \cup {Nothing}]
  /\ visit \in [Requests -> Visits \cup {Nothing}]

DungeonInit ==
  /\ dungeon = [p \in Players |-> Nothing]
  /\ visit = [r \in Requests |-> Nothing]

-----------------------------------------------------------------------------
Inside(p) == dungeon[p] # Nothing
Active(p) == Inside(p) /\ dungeon[p].isActive

Read(r, op, p, state) ==
  /\ visit[r] = Nothing
  /\ visit' = [visit EXCEPT ![r] = [op |-> op, player |-> p, state |-> state]]
  /\ UNCHANGED dungeon

\* A player who is inside is answered what is stored, and nothing is written.
Enter(r, p) ==
  /\ ~Active(p)
  /\ Read(r, "enter", p,
       [floor |-> 1, maxFloor |-> IF Inside(p) THEN dungeon[p].maxFloor ELSE 0,
        items |-> Given, activeArrays |-> 0, isActive |-> TRUE])

\* What is not there at all passes "count <= 0"; one less of it is stored as
\* null and does not pass again, but a client may name as many types as it likes.
Has(s, item) == item # Unlisted => s.items[item] # Nothing /\ s.items[item] > 0
ConsumeNone(s, item) == s
Consume(s, item) == IF item = Unlisted THEN s ELSE [s EXCEPT !.items[item] = @ - 1]

UseItem(r, p, item) ==
  LET s == dungeon[p] IN
  /\ Active(p) /\ Has(s, item)
  /\ \/ /\ item = DungeonItem.GUIDING_TALISMAN
        /\ Read(r, "use", p, [Consume(s, item) EXCEPT !.floor = @ + 1])
     \/ /\ item = DungeonItem.CONCEALMENT_ARRAY
        /\ s.activeArrays < DUNGEON_ITEM_LIMITS.CONCEALMENT_ARRAY
        /\ Read(r, "use", p, [Consume(s, item) EXCEPT !.activeArrays = @ + 1])
     \/ item = Unlisted /\ Read(r, "use", p, Consume(s, item))

\* It does not look at isActive.  Its rewards are a function of the floor.
Exit(r, p) ==
  LET s == dungeon[p] IN
  /\ Inside(p)
  /\ Read(r, "exit", p,
       [s EXCEPT !.maxFloor = IF s.floor > @ THEN s.floor ELSE @, !.isActive = FALSE])

\* Math.min of a number and the limit.
Capped(n, limit) ==
  IF limit = Nothing THEN Nothing ELSE IF n < limit THEN n ELSE limit

AcquireItem(r, p, item, count) ==
  LET held == dungeon[p].items[item] IN
  /\ Inside(p)
  /\ Read(r, "acquire", p,
       [dungeon[p] EXCEPT !.items[item] =
          Capped((IF held = Nothing THEN 0 ELSE held) + count, Limit(item))])

\* The write may fail, or be done and its reply lost: the caller sees an error.
Write(r) ==
  /\ visit[r] # Nothing
  /\ dungeon' \in {dungeon, [dungeon EXCEPT ![visit[r].player] = visit[r].state]}
  /\ visit' = [visit EXCEPT ![r] = Nothing]

\* The value lives an hour from its last write, a day after an exit.
DungeonExpires(p) ==
  /\ Inside(p)
  /\ dungeon' = [dungeon EXCEPT ![p] = Nothing]
  /\ UNCHANGED visit

DungeonNext ==
  \/ \E r \in Requests :
       \/ \E p \in Players :
            \/ Enter(r, p) \/ Exit(r, p)
            \/ \E item \in Items \cup {Unlisted} : UseItem(r, p, item)
            \/ \E item \in Items, n \in Counts : AcquireItem(r, p, item, n)
       \/ Write(r)
  \/ \E p \in Players : DungeonExpires(p)

DungeonSpec == DungeonInit /\ [][DungeonNext]_<<dungeon, visit>>

\* calculateRewards, which an exit answers with.
calculateRewards(floor) ==
  [dungeon_spirit_stone |-> floor * 10, cultivation_material |-> floor \div 10 + 1]

-----------------------------------------------------------------------------
\* Every floor below the first was paid with a talisman, every active array
\* with an array, in what is stored and in what any request is about to write,
\* while the counts are numbers: requests that overlap, failed writes, exits
\* and expired keys do not give floors, and so rewards, away.
Paid(s) ==
  /\ s.items.guiding_talisman # Nothing =>
       s.floor - 1 + s.items.guiding_talisman = Given.guiding_talisman
  /\ s.items.concealment_array # Nothing =>
       s.activeArrays + s.items.concealment_array = Given.concealment_array
  /\ s.floor \in 1..(1 + Given.guiding_talisman) /\ s.maxFloor <= 1 + Given.guiding_talisman
  /\ s.activeArrays <= DUNGEON_ITEM_LIMITS.CONCEALMENT_ARRAY

FloorPaid ==
  /\ \A p \in Players : Inside(p) => Paid(dungeon[p])
  /\ \A r \in Requests : visit[r] # Nothing => Paid(visit[r].state)
=============================================================================
