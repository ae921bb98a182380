--------------------------- MODULE ServicesProofs ---------------------------
(***************************************************************************)
(* Proofs about MCServices, whose steps are steps of one service that      *)
(* leave the variables of the others alone: what DungeonProofs and         *)
(* OfflineProofs prove holds in the composition; parties, rooms, the bus   *)
(* and gifts have their invariants here, with lemmas about lists that lose *)
(* an element and sums over sets; the copies of the message codes differ   *)
(* in known names alone; and the rules agree, which takes lemmas           *)
(* about the folds that the item lists are merged with.                    *)
(***************************************************************************)
EXTENDS MCServices, Lists, FiniteSetTheorems, SequenceTheorems, WellFoundedInduction, TLAPS

DungeonTheory == INSTANCE DungeonProofs
OfflineTheory == INSTANCE OfflineProofs

-----------------------------------------------------------------------------
\* Each service is instantiated twice: with its definitions in MCServices and
\* with its theorems here.  The two instances are the same formulas.

LEMMA SameDungeon ==
  /\ Dungeons!DungeonAssumption <=> DungeonTheory!DungeonAssumption
  /\ Dungeons!DungeonInit <=> DungeonTheory!DungeonInit
  /\ Dungeons!DungeonNext <=> DungeonTheory!DungeonNext
  /\ Dungeons!FloorPaid <=> DungeonTheory!FloorPaid
  /\ Dungeons!DungeonTypeOK <=> DungeonTheory!DungeonTypeOK
<1> USE DEF Dungeons!Inside, DungeonTheory!Inside, Dungeons!Paid, DungeonTheory!Paid,
      Dungeons!DungeonItem, DungeonTheory!DungeonItem, Dungeons!Unlisted,
      DungeonTheory!Unlisted, Dungeons!Items, DungeonTheory!Items,
      Dungeons!DUNGEON_ITEM_LIMITS, DungeonTheory!DUNGEON_ITEM_LIMITS
<1>1. Dungeons!DungeonAssumption <=> DungeonTheory!DungeonAssumption
  BY DEF Dungeons!DungeonAssumption, DungeonTheory!DungeonAssumption
<1>2. Dungeons!DungeonInit <=> DungeonTheory!DungeonInit
  BY DEF Dungeons!DungeonInit, DungeonTheory!DungeonInit
<1>3. Dungeons!DungeonNext <=> DungeonTheory!DungeonNext
  <2> USE DEF Dungeons!Read, DungeonTheory!Read, Dungeons!Active, DungeonTheory!Active
  <2>1. ASSUME NEW r, NEW p
        PROVE  Dungeons!Enter(r, p) <=> DungeonTheory!Enter(r, p)
    BY DEF Dungeons!Enter, DungeonTheory!Enter
  <2>2. ASSUME NEW r, NEW p
        PROVE  Dungeons!Exit(r, p) <=> DungeonTheory!Exit(r, p)
    BY DEF Dungeons!Exit, DungeonTheory!Exit
  <2>3. ASSUME NEW r, NEW p, NEW item
        PROVE  Dungeons!UseItem(r, p, item) <=> DungeonTheory!UseItem(r, p, item)
    BY DEF Dungeons!UseItem, DungeonTheory!UseItem, Dungeons!Has, DungeonTheory!Has,
           Dungeons!Consume, DungeonTheory!Consume
  <2>4. ASSUME NEW r, NEW p, NEW item, NEW n
        PROVE  Dungeons!AcquireItem(r, p, item, n) <=> DungeonTheory!AcquireItem(r, p, item, n)
    BY DEF Dungeons!AcquireItem, DungeonTheory!AcquireItem, Dungeons!Capped,
           DungeonTheory!Capped, Dungeons!Limit, DungeonTheory!Limit
  <2>5. ASSUME NEW r
        PROVE  Dungeons!Write(r) <=> DungeonTheory!Write(r)
    BY DEF Dungeons!Write, DungeonTheory!Write
  <2>6. ASSUME NEW p
        PROVE  Dungeons!DungeonExpires(p) <=> DungeonTheory!DungeonExpires(p)
    BY DEF Dungeons!DungeonExpires, DungeonTheory!DungeonExpires
  <2> HIDE DEF Dungeons!Items, DungeonTheory!Items
  <2>7. Dungeons!Items = DungeonTheory!Items
    BY DEF Dungeons!Items, DungeonTheory!Items
  <2> QED
    BY <2>1, <2>2, <2>3, <2>4, <2>5, <2>6, <2>7
    DEF Dungeons!DungeonNext, DungeonTheory!DungeonNext
<1>4. Dungeons!FloorPaid <=> DungeonTheory!FloorPaid
  BY DEF Dungeons!FloorPaid, DungeonTheory!FloorPaid
<1>5. Dungeons!DungeonTypeOK <=> DungeonTheory!DungeonTypeOK
  <2>1. Dungeons!States = DungeonTheory!States
    BY DEF Dungeons!States, DungeonTheory!States
  <2>2. Dungeons!Visits = DungeonTheory!Visits
    BY <2>1 DEF Dungeons!Visits, DungeonTheory!Visits, Dungeons!Operations,
                DungeonTheory!Operations
  <2> QED
    BY <2>1, <2>2 DEF Dungeons!DungeonTypeOK, DungeonTheory!DungeonTypeOK
<1> QED
  BY <1>1, <1>2, <1>3, <1>4, <1>5

LEMMA SameOffline ==
  /\ Offlines!OfflineAssumption <=> OfflineTheory!OfflineAssumption
  /\ Offlines!OfflineInit <=> OfflineTheory!OfflineInit
  /\ Offlines!OfflineNext <=> OfflineTheory!OfflineNext
  /\ Offlines!PaidForTimeAway <=> OfflineTheory!PaidForTimeAway
  /\ Offlines!OfflineTypeOK <=> OfflineTheory!OfflineTypeOK
<1>1. Offlines!OfflineAssumption <=> OfflineTheory!OfflineAssumption
  BY DEF Offlines!OfflineAssumption, OfflineTheory!OfflineAssumption, Offlines!Claims,
         OfflineTheory!Claims
<1>2. Offlines!OfflineInit <=> OfflineTheory!OfflineInit
  BY DEF Offlines!OfflineInit, OfflineTheory!OfflineInit
<1>3. Offlines!OfflineNext <=> OfflineTheory!OfflineNext
  <2> USE DEF Offlines!Overlaps, OfflineTheory!Overlaps, Offlines!Claiming,
        OfflineTheory!Claiming
  <2>1. ASSUME NEW p
        PROVE  Offlines!SetOfflineTask(p) <=> OfflineTheory!SetOfflineTask(p)
    BY DEF Offlines!SetOfflineTask, OfflineTheory!SetOfflineTask
  <2>2. ASSUME NEW r, NEW p
        PROVE  Offlines!ClaimGet(r, p) <=> OfflineTheory!ClaimGet(r, p)
    BY DEF Offlines!ClaimGet, OfflineTheory!ClaimGet, Offlines!clampOfflineDuration,
           OfflineTheory!clampOfflineDuration
  <2>3. ASSUME NEW r
        PROVE  Offlines!ClaimPay(r) <=> OfflineTheory!ClaimPay(r)
    BY DEF Offlines!ClaimPay, OfflineTheory!ClaimPay, Offlines!Credit, OfflineTheory!Credit
  <2>4. ASSUME NEW r
        PROVE  Offlines!ClaimDel(r) <=> OfflineTheory!ClaimDel(r)
    BY DEF Offlines!ClaimDel, OfflineTheory!ClaimDel, Offlines!RemoveTask,
           OfflineTheory!RemoveTask
  <2>5. ASSUME NEW r
        PROVE  Offlines!ClaimFails(r) <=> OfflineTheory!ClaimFails(r)
    BY DEF Offlines!ClaimFails, OfflineTheory!ClaimFails
  <2>6. Offlines!SecondPasses <=> OfflineTheory!SecondPasses
    BY DEF Offlines!SecondPasses, OfflineTheory!SecondPasses
  <2> QED
    BY <2>1, <2>2, <2>3, <2>4, <2>5, <2>6 DEF Offlines!OfflineNext, OfflineTheory!OfflineNext
<1>4. Offlines!PaidForTimeAway <=> OfflineTheory!PaidForTimeAway
  BY DEF Offlines!PaidForTimeAway, OfflineTheory!PaidForTimeAway
<1>5. Offlines!OfflineTypeOK <=> OfflineTheory!OfflineTypeOK
  BY DEF Offlines!OfflineTypeOK, OfflineTheory!OfflineTypeOK, Offlines!Claims,
         OfflineTheory!Claims
<1> QED
  BY <1>1, <1>2, <1>3, <1>4, <1>5

-----------------------------------------------------------------------------
\* Induction for a set of numbers: the least number outside it would have a
\* predecessor inside.
LEMMA NumberInduction ==
  ASSUME NEW S, 0 \in S, \A n \in Nat : n \in S => n + 1 \in S
  PROVE  Nat \subseteq S
<1> DEFINE T == Nat \ S
           Less == {ss \in Nat \X Nat : ss[1] < ss[2]}
<1> SUFFICES ASSUME T # {} PROVE FALSE
  OBVIOUS
<1>1. IsWellFoundedOn(Less, Nat)
  BY NatLessThanWellFounded DEF OpToRel
<1>2. \A x, y \in Nat : y < x => <<y, x>> \in Less
  OBVIOUS
<1>3. T \subseteq Nat
  OBVIOUS
<1> HIDE DEF Less, T
<1>4. PICK x \in T : \A y \in T : ~ (<<y, x>> \in Less)
  BY <1>1, <1>3, WFMin
<1>5. x \in Nat /\ x \notin S
  BY DEF T
<1>6. x # 0 /\ x - 1 \in Nat /\ x - 1 < x
  BY <1>5
<1>7. x - 1 \notin T
  BY <1>2, <1>4, <1>5, <1>6
<1>8. x - 1 \in S
  BY <1>6, <1>7 DEF T
<1>9. QED
  BY <1>5, <1>6, <1>8

\* What filter has kept of the first n elements.
KeptNext(list, x, k, n) ==
  IF n = 0 THEN <<>>
  ELSE IF list[n] = x THEN k[n - 1]
  ELSE Append(k[n - 1], list[n])
Keeps(list, x, k, m) == k = [n \in 0..m |-> KeptNext(list, x, k, n)]

LEMMA KeepsExists == ASSUME NEW list, NEW x PROVE \A m \in Nat : \E k : Keeps(list, x, k, m)
<1> DEFINE S == {m \in Nat : \E k : Keeps(list, x, k, m)}
<1>1. 0 \in S
  <2>1. Keeps(list, x, [n \in 0..0 |-> <<>>], 0)
    BY DEF Keeps, KeptNext
  <2>2. QED
    BY <2>1
<1>2. ASSUME NEW m \in Nat, m \in S PROVE m + 1 \in S
  <2>1. PICK k : Keeps(list, x, k, m)
    BY <1>2
  <2> DEFINE k2 == [n \in 0..(m + 1) |-> IF n = m + 1 THEN KeptNext(list, x, k, n) ELSE k[n]]
  <2>2. \A n \in 0..m : k[n] = KeptNext(list, x, k, n)
    BY <2>1 DEF Keeps
  <2>3. \A n \in 0..m : k2[n] = k[n]
    OBVIOUS
  <2>4. k2[m + 1] = KeptNext(list, x, k, m + 1)
    OBVIOUS
  <2>5. k2 = [n \in 0..(m + 1) |-> k2[n]]
    OBVIOUS
  <2> HIDE DEF k2
  <2>6. \A n \in 0..(m + 1) : KeptNext(list, x, k2, n) = KeptNext(list, x, k, n)
    BY <2>3 DEF KeptNext
  <2>7. \A n \in 0..(m + 1) : k2[n] = KeptNext(list, x, k2, n)
    BY <2>2, <2>3, <2>4, <2>6
  <2>8. Keeps(list, x, k2, m + 1)
    BY <2>5, <2>7 DEF Keeps
  <2>9. QED
    BY <2>8
<1> HIDE DEF S
<1>3. Nat \subseteq S
  BY <1>1, <1>2, NumberInduction
<1>4. QED
  BY <1>3 DEF S

\* Of a list, filter keeps the elements other than x, in their order.
FilterOf(kept, list, x, n) ==
  /\ Len(kept) <= n
  /\ \A i \in 1..Len(kept) : \E k \in 1..n : kept[i] = list[k] /\ list[k] # x
  /\ \A k \in 1..n : list[k] # x => \E i \in 1..Len(kept) : kept[i] = list[k]
  /\ \A i, j \in 1..Len(kept) : i < j =>
       \E k, l \in 1..n : k < l /\ kept[i] = list[k] /\ kept[j] = list[l]

LEMMA FilterStep ==
  ASSUME NEW E, NEW list \in Seq(E), NEW x, NEW m \in Nat, m + 1 <= Len(list),
         NEW kept \in Seq(E), FilterOf(kept, list, x, m)
  PROVE  LET next == IF list[m + 1] = x THEN kept ELSE Append(kept, list[m + 1])
         IN  next \in Seq(E) /\ FilterOf(next, list, x, m + 1)
<1>0. list[m + 1] \in E
  OBVIOUS
<1>1. CASE list[m + 1] = x
  <2>1. \A k \in 1..(m + 1) : k \in 1..m \/ k = m + 1
    OBVIOUS
  <2>2. 1..m \subseteq 1..(m + 1) /\ Len(kept) \in Nat
    OBVIOUS
  <2>3. \A i \in 1..Len(kept) : \E k \in 1..(m + 1) : kept[i] = list[k] /\ list[k] # x
    BY <2>2 DEF FilterOf
  <2>4. \A k \in 1..(m + 1) : list[k] # x => \E i \in 1..Len(kept) : kept[i] = list[k]
    BY <1>1, <2>1 DEF FilterOf
  <2>5. \A i, j \in 1..Len(kept) : i < j =>
          \E k, l \in 1..(m + 1) : k < l /\ kept[i] = list[k] /\ kept[j] = list[l]
    BY <2>2 DEF FilterOf
  <2>6. Len(kept) <= m + 1
    BY <2>2 DEF FilterOf
  <2>7. QED
    BY <1>1, <2>3, <2>4, <2>5, <2>6 DEF FilterOf
<1>2. CASE list[m + 1] # x
  <2> DEFINE next == Append(kept, list[m + 1])
  <2>1. /\ next \in Seq(E) /\ Len(next) = Len(kept) + 1 /\ next[Len(kept) + 1] = list[m + 1]
        /\ \A i \in 1..Len(kept) : next[i] = kept[i]
    BY <1>0
  <2>0. Len(kept) \in Nat
    OBVIOUS
  <2> HIDE DEF next
  <2>2. \A i \in 1..Len(next) : \E k \in 1..(m + 1) : next[i] = list[k] /\ list[k] # x
    <3>1. \A i \in 1..Len(next) : i \in 1..Len(kept) \/ i = Len(kept) + 1
      BY <2>0, <2>1
    <3>2. \A i \in 1..Len(kept) : \E k \in 1..(m + 1) : kept[i] = list[k] /\ list[k] # x
      <4>1. 1..m \subseteq 1..(m + 1)
        OBVIOUS
      <4>2. QED
        BY <4>1 DEF FilterOf
    <3>3. m + 1 \in 1..(m + 1)
      OBVIOUS
    <3>4. QED
      BY <1>2, <2>1, <3>1, <3>2, <3>3
  <2>3. \A k \in 1..(m + 1) : list[k] # x => \E i \in 1..Len(next) : next[i] = list[k]
    <3>1. \A k \in 1..(m + 1) : k \in 1..m \/ k = m + 1
      OBVIOUS
    <3>2. Len(kept) + 1 \in 1..Len(next) /\ 1..Len(kept) \subseteq 1..Len(next)
      BY <2>0, <2>1
    <3>3. \A k \in 1..m : list[k] # x => \E i \in 1..Len(next) : next[i] = list[k]
      BY <2>1, <3>2 DEF FilterOf
    <3>4. QED
      BY <2>1, <3>1, <3>2, <3>3
  <2>4. ASSUME NEW i \in 1..Len(next), NEW j \in 1..Len(next), i < j
        PROVE  \E k, l \in 1..(m + 1) : k < l /\ next[i] = list[k] /\ next[j] = list[l]
    <3>1. i \in 1..Len(kept) /\ next[i] = kept[i]
      BY <2>0, <2>1, <2>4
    <3>2. CASE j = Len(kept) + 1
      <4>1. PICK k \in 1..m : kept[i] = list[k]
        BY <3>1 DEF FilterOf
      <4>2. k < m + 1 /\ k \in 1..(m + 1) /\ m + 1 \in 1..(m + 1)
        OBVIOUS
      <4>3. QED
        BY <2>1, <3>1, <3>2, <4>1, <4>2
    <3>3. CASE j # Len(kept) + 1
      <4>1. j \in 1..Len(kept) /\ next[j] = kept[j]
        BY <2>0, <2>1, <3>3
      <4>2. PICK k, l \in 1..m : k < l /\ kept[i] = list[k] /\ kept[j] = list[l]
        BY <2>4, <3>1, <4>1 DEF FilterOf
      <4>3. k \in 1..(m + 1) /\ l \in 1..(m + 1)
        OBVIOUS
      <4>4. QED
        BY <3>1, <4>1, <4>2, <4>3
    <3>4. QED
      BY <3>2, <3>3
  <2>5. Len(next) <= m + 1
    BY <2>0, <2>1 DEF FilterOf
  <2>6. FilterOf(next, list, x, m + 1)
    BY <2>2, <2>3, <2>4, <2>5 DEF FilterOf
  <2>7. QED
    BY <1>2, <2>1, <2>6 DEF next
<1>3. QED
  BY <1>1, <1>2

LEMMA FilteredKeeps ==
  ASSUME NEW E, NEW list \in Seq(E), NEW x
  PROVE  Filtered(list, x) \in Seq(E) /\ FilterOf(Filtered(list, x), list, x, Len(list))
<1> DEFINE k == CHOOSE k : Keeps(list, x, k, Len(list))
<1>0. Len(list) \in Nat
  OBVIOUS
<1>1. Keeps(list, x, k, Len(list))
  BY <1>0, KeepsExists
<1>2. Filtered(list, x) = k[Len(list)]
  BY DEF Filtered, Keeps, KeptNext
<1> HIDE DEF k
<1>3. \A n \in 0..Len(list) : k[n] = KeptNext(list, x, k, n)
  BY <1>1 DEF Keeps
<1> DEFINE S == {m \in Nat : m <= Len(list) => k[m] \in Seq(E) /\ FilterOf(k[m], list, x, m)}
<1>4. 0 \in S
  <2>1. k[0] = <<>>
    BY <1>0, <1>3 DEF KeptNext
  <2>2. FilterOf(<<>>, list, x, 0)
    BY DEF FilterOf
  <2>3. <<>> \in Seq(E)
    OBVIOUS
  <2>4. 0 \in Nat /\ k[0] \in Seq(E) /\ FilterOf(k[0], list, x, 0)
    BY <2>1, <2>2, <2>3
  <2>5. QED
    BY <2>4
<1>5. ASSUME NEW m \in Nat, m \in S PROVE m + 1 \in S
  <2> SUFFICES ASSUME m + 1 <= Len(list)
               PROVE  k[m + 1] \in Seq(E) /\ FilterOf(k[m + 1], list, x, m + 1)
    OBVIOUS
  <2>1. k[m] \in Seq(E) /\ FilterOf(k[m], list, x, m)
    BY <1>0, <1>5
  <2>2. k[m + 1] = IF list[m + 1] = x THEN k[m] ELSE Append(k[m], list[m + 1])
    BY <1>0, <1>3 DEF KeptNext
  <2>3. QED
    BY <2>1, <2>2, FilterStep
<1> HIDE DEF S
<1>6. Nat \subseteq S
  BY <1>4, <1>5, NumberInduction
<1>7. QED
  BY <1>0, <1>2, <1>6 DEF S

\* The sum of the amounts in a set, taken off one by one.
Some(s) == CHOOSE x \in s : TRUE
SumNext(f, s) == IF s = {} THEN 0 ELSE Some(s).amount + f[s \ {Some(s)}]
Sums(f, S) == f = [s \in SUBSET S |-> SumNext(f, s)]
AmountOf(S) == (CHOOSE f : Sums(f, S))[S]
Whole(S) == \A x \in S : x.amount \in Nat

LEMMA SomeOf == \A s : s # {} => Some(s) \in s
  BY DEF Some

LEMMA FewerLeft ==
  ASSUME NEW s, IsFiniteSet(s), NEW x \in s
  PROVE  /\ IsFiniteSet(s \ {x}) /\ Cardinality(s) \in Nat
         /\ Cardinality(s \ {x}) = Cardinality(s) - 1 /\ Cardinality(s) # 0
  BY FS_RemoveElement, FS_CardinalityType, FS_EmptySet

LEMMA SumsExist ==
  ASSUME NEW S, IsFiniteSet(S)
  PROVE  \E f : Sums(f, S)
<1> DEFINE Small(n) == {s \in SUBSET S : Cardinality(s) <= n}
           T == {n \in Nat : \E f : f = [s \in Small(n) |-> SumNext(f, s)]}
<1>1. \A s \in SUBSET S : IsFiniteSet(s) /\ Cardinality(s) \in Nat /\ Cardinality(s) <= Cardinality(S)
  BY FS_Subset, FS_CardinalityType
<1>2. 0 \in T
  <2>1. \A s \in Small(0) : s = {}
    BY <1>1, FS_EmptySet
  <2> DEFINE f == [s \in Small(0) |-> 0]
  <2>2. f = [s \in Small(0) |-> SumNext(f, s)]
    BY <2>1 DEF SumNext
  <2>3. QED
    BY <2>2
<1>3. ASSUME NEW n \in Nat, n \in T PROVE n + 1 \in T
  <2>1. PICK f : f = [s \in Small(n) |-> SumNext(f, s)]
    BY <1>3
  <2> DEFINE g == [s \in Small(n + 1) |-> SumNext(f, s)]
  <2>2. \A s \in Small(n) : s \in Small(n + 1) /\ f[s] = SumNext(f, s)
    BY <1>1, <2>1
  <2>3. \A s \in Small(n) : g[s] = f[s]
    BY <2>2
  <2>4. ASSUME NEW s \in Small(n + 1) PROVE SumNext(g, s) = SumNext(f, s)
    <3>1. CASE s = {}
      BY <3>1 DEF SumNext
    <3>2. CASE s # {}
      <4>1. Some(s) \in s /\ IsFiniteSet(s)
        BY <1>1, <3>2, SomeOf
      <4>2. Cardinality(s \ {Some(s)}) = Cardinality(s) - 1 /\ Cardinality(s) \in Nat
        BY <4>1, FewerLeft
      <4>3. s \ {Some(s)} \in Small(n)
        BY <4>2
      <4>4. g[s \ {Some(s)}] = f[s \ {Some(s)}]
        BY <2>3, <4>3
      <4>5. QED
        BY <4>4 DEF SumNext
    <3>3. QED
      BY <3>1, <3>2
  <2>5. g = [s \in Small(n + 1) |-> SumNext(g, s)]
    BY <2>4
  <2> HIDE DEF g, Small
  <2>6. \E h : h = [s \in Small(n + 1) |-> SumNext(h, s)]
    BY <2>5
  <2>7. QED
    BY <2>6
<1> HIDE DEF T
<1>4. Cardinality(S) \in T
  BY <1>1, <1>2, <1>3, NumberInduction, FS_CardinalityType
<1>5. Small(Cardinality(S)) = SUBSET S
  BY <1>1
<1>6. QED
  BY <1>4, <1>5 DEF T, Sums

\* Two such functions agree wherever both are defined.
LEMMA SumsAgree ==
  ASSUME NEW S, NEW R, NEW f, NEW g, Sums(f, S), Sums(g, R)
  PROVE  \A s : IsFiniteSet(s) /\ s \subseteq S /\ s \subseteq R => f[s] = g[s]
<1> DEFINE T == {n \in Nat : \A s : IsFiniteSet(s) /\ s \subseteq S /\ s \subseteq R
                                /\ Cardinality(s) = n => f[s] = g[s]}
<1>1. /\ \A s : s \subseteq S => f[s] = SumNext(f, s)
      /\ \A s : s \subseteq R => g[s] = SumNext(g, s)
  BY DEF Sums
<1>2. 0 \in T
  BY <1>1, FS_EmptySet DEF SumNext
<1>3. ASSUME NEW n \in Nat, n \in T PROVE n + 1 \in T
  <2> SUFFICES ASSUME NEW s, IsFiniteSet(s), s \subseteq S, s \subseteq R, Cardinality(s) = n + 1
               PROVE  f[s] = g[s]
    OBVIOUS
  <2>1. s # {}
    BY FS_EmptySet
  <2>2. Some(s) \in s
    BY <2>1, SomeOf
  <2>3. IsFiniteSet(s \ {Some(s)}) /\ Cardinality(s \ {Some(s)}) = n
    BY <2>2, FewerLeft
  <2>4. f[s \ {Some(s)}] = g[s \ {Some(s)}]
    BY <1>3, <2>3
  <2>5. QED
    BY <1>1, <2>4 DEF SumNext
<1> HIDE DEF T
<1>4. Nat \subseteq T
  BY <1>2, <1>3, NumberInduction
<1>5. QED
  BY <1>4, FS_CardinalityType DEF T

\* Any element may be taken off first.
LEMMA SumsInAnyOrder ==
  ASSUME NEW S, Whole(S), NEW f, Sums(f, S)
  PROVE  \A s : IsFiniteSet(s) /\ s \subseteq S =>
           f[s] \in Nat /\ \A x \in s : f[s] = x.amount + f[s \ {x}]
<1> DEFINE P(s) == f[s] \in Nat /\ \A x \in s : f[s] = x.amount + f[s \ {x}]
           T == {n \in Nat : \A s : IsFiniteSet(s) /\ s \subseteq S /\ Cardinality(s) <= n => P(s)}
<1>1. \A s : s \subseteq S => f[s] = SumNext(f, s)
  BY DEF Sums
<1>2. 0 \in T
  <2>1. \A s : IsFiniteSet(s) /\ Cardinality(s) <= 0 => s = {}
    BY FS_EmptySet, FS_CardinalityType
  <2>2. f[{}] = 0
    BY <1>1 DEF SumNext
  <2>3. QED
    BY <2>1, <2>2
<1>3. ASSUME NEW n \in Nat, n \in T PROVE n + 1 \in T
  <2> HIDE DEF P
  <2>1. \A r : IsFiniteSet(r) /\ r \subseteq S /\ Cardinality(r) <= n => P(r)
    BY <1>3
  <2>2. ASSUME NEW s, IsFiniteSet(s), s \subseteq S, Cardinality(s) = n + 1
        PROVE  P(s)
    <3> DEFINE c == Some(s)
    <3>1. s # {}
      BY <2>2, FS_EmptySet
    <3>2. c \in s /\ c.amount \in Nat
      BY <2>2, <3>1, SomeOf DEF Whole
    <3>3. f[s] = c.amount + f[s \ {c}]
      BY <1>1, <2>2, <3>1 DEF SumNext
    <3> HIDE DEF c
    <3>4. \A x \in s : P(s \ {x})
      <4>1. \A x \in s : IsFiniteSet(s \ {x}) /\ Cardinality(s \ {x}) = n
        BY <2>2, FewerLeft
      <4>2. QED
        BY <2>1, <2>2, <4>1
    <3>5. f[s] \in Nat
      <4>1. f[s \ {c}] \in Nat
        BY <3>2, <3>4 DEF P
      <4>2. QED
        BY <3>2, <3>3, <4>1
    <3>6. ASSUME NEW x \in s PROVE f[s] = x.amount + f[s \ {x}]
      <4>1. CASE x = c
        BY <3>3, <4>1
      <4>2. CASE x # c
        <5>1. x \in s \ {c} /\ c \in s \ {x} /\ (s \ {c}) \ {x} = (s \ {x}) \ {c}
          BY <3>2, <4>2
        <5> DEFINE rest == f[(s \ {x}) \ {c}]
        <5>2. f[s \ {c}] = x.amount + rest
          BY <3>2, <3>4, <5>1 DEF P
        <5>3. f[s \ {x}] = c.amount + rest
          BY <3>4, <5>1 DEF P
        <5>4. x.amount \in Nat /\ f[s \ {c}] \in Nat /\ f[s \ {x}] \in Nat
          BY <2>2, <3>2, <3>4 DEF P, Whole
        <5>5. rest \in Nat
          <6>1. IsFiniteSet(s \ {x}) /\ Cardinality(s \ {x}) = n
            BY <2>2, FewerLeft
          <6>2. /\ IsFiniteSet((s \ {x}) \ {c})
                /\ Cardinality((s \ {x}) \ {c}) <= n
            BY <5>1, <6>1, FewerLeft
          <6>3. P((s \ {x}) \ {c})
            BY <2>1, <2>2, <6>2
          <6>4. QED
            BY <6>3 DEF P
        <5> HIDE DEF rest
        <5>6. QED
          BY <3>2, <3>3, <5>2, <5>3, <5>4, <5>5
      <4>3. QED
        BY <4>1, <4>2
    <3>7. QED
      BY <3>5, <3>6 DEF P
  <2>3. \A s : IsFiniteSet(s) /\ Cardinality(s) <= n + 1 =>
              Cardinality(s) <= n \/ Cardinality(s) = n + 1
    BY FS_CardinalityType
  <2>4. \A s : IsFiniteSet(s) /\ s \subseteq S /\ Cardinality(s) <= n + 1 => P(s)
    BY <2>1, <2>2, <2>3
  <2>5. QED
    BY <2>4
<1> HIDE DEF T
<1>4. Nat \subseteq T
  BY <1>2, <1>3, NumberInduction
<1> HIDE DEF P
<1>5. \A n \in Nat : \A s : IsFiniteSet(s) /\ s \subseteq S /\ Cardinality(s) <= n => P(s)
  BY <1>4 DEF T
<1>6. ASSUME NEW s, IsFiniteSet(s), s \subseteq S PROVE P(s)
  <2>1. Cardinality(s) \in Nat /\ Cardinality(s) <= Cardinality(s)
    BY <1>6, FS_CardinalityType
  <2>2. QED
    BY <1>5, <1>6, <2>1
<1>7. QED
  BY <1>6 DEF P

LEMMA AmountAdded ==
  /\ AmountOf({}) = 0
  /\ \A S : IsFiniteSet(S) /\ Whole(S) => AmountOf(S) \in Nat
  /\ \A S, x : IsFiniteSet(S) /\ Whole(S \cup {x}) /\ x \notin S =>
       AmountOf(S \cup {x}) = AmountOf(S) + x.amount
<1>1. ASSUME NEW S, IsFiniteSet(S) PROVE \E f : Sums(f, S) /\ AmountOf(S) = f[S]
  <2> DEFINE f == CHOOSE f : Sums(f, S)
  <2>1. Sums(f, S)
    BY <1>1, SumsExist
  <2>2. AmountOf(S) = f[S]
    BY DEF AmountOf
  <2> HIDE DEF f
  <2>3. QED
    BY <2>1, <2>2
<1>2. AmountOf({}) = 0
  <2>1. PICK f : Sums(f, {}) /\ AmountOf({}) = f[{}]
    BY <1>1, FS_EmptySet
  <2>2. QED
    BY <2>1 DEF Sums, SumNext
<1>3. ASSUME NEW S, IsFiniteSet(S), Whole(S) PROVE AmountOf(S) \in Nat
  <2>1. PICK f : Sums(f, S) /\ AmountOf(S) = f[S]
    BY <1>1, <1>3
  <2>2. QED
    BY <1>3, <2>1, SumsInAnyOrder
<1>4. ASSUME NEW S, NEW x, IsFiniteSet(S), Whole(S \cup {x}), x \notin S
      PROVE  AmountOf(S \cup {x}) = AmountOf(S) + x.amount
  <2> DEFINE R == S \cup {x}
  <2>1. IsFiniteSet(R) /\ R \ {x} = S /\ Whole(S)
    BY <1>4, FS_AddElement DEF Whole
  <2>2. PICK f : Sums(f, R) /\ AmountOf(R) = f[R]
    BY <1>1, <2>1
  <2>3. PICK g : Sums(g, S) /\ AmountOf(S) = g[S]
    BY <1>1, <1>4
  <2>4. f[R] = x.amount + f[S]
    BY <1>4, <2>1, <2>2, SumsInAnyOrder
  <2>5. f[S] = g[S]
    BY <1>4, <2>2, <2>3, SumsAgree
  <2>6. g[S] \in Nat /\ x.amount \in Nat
    BY <1>3, <1>4, <2>1, <2>3 DEF Whole
  <2>7. QED
    BY <2>2, <2>3, <2>4, <2>5, <2>6
<1>5. QED
  BY <1>2, <1>3, <1>4

-----------------------------------------------------------------------------
\* Parties, as Party stands in MCServices.

\* What is stored, and what a request is about to store, is a party.
StoredParties ==
  /\ party \in [PartyIds -> Parties!Parties \cup {Nothing}]
  /\ partyCache \subseteq PartyIds
  /\ \A id \in PartyIds : party[id] # Nothing =>
       id \in partyCache /\ Parties!WellFormed(party[id])
GoodCall(c) ==
  /\ c.op \in {"create", "join", "leave"} /\ c.player \in PartyMembers
  /\ c.keys \subseteq PartyIds
  /\ c.id \in PartyIds \cup {Nothing} /\ (c.id # Nothing => c.id \in partyCache)
  /\ c.value \in Parties!Parties \cup {Nothing}
  /\ c.value # Nothing => Parties!WellFormed(c.value)
PartyInv ==
  /\ StoredParties
  /\ call = [r \in Requests |-> call[r]]
  /\ \A r \in Requests : call[r] # Nothing => GoodCall(call[r])

LEMMA NewPartyFormed ==
  ASSUME NEW p \in PartyMembers
  PROVE  LET v == [leader |-> p, members |-> <<p>>]
         IN  v \in Parties!Parties /\ Parties!WellFormed(v)
  <1> DEFINE v == [leader |-> p, members |-> <<p>>]
  <1>1. v.leader = p /\ v.members = <<p>> /\ v.members \in Seq(PartyMembers)
    OBVIOUS
  <1>2. v \in Parties!Parties
    BY <1>1 DEF Parties!Parties
  <1>3. Len(<<p>>) = 1 /\ <<p>>[1] = p /\ DOMAIN <<p>> = {1}
    OBVIOUS
  <1>4. maxPartySize \in Nat \ {0}
    BY PartyAssumption DEF Parties!PartyAssumption
  <1>5. QED
    BY <1>1, <1>2, <1>3, <1>4
       DEF Parties!WellFormed, Parties!Includes, Parties!Contains, Parties!IsInjective

\* joinParty: the party has room and not yet the player.
LEMMA JoinedPartyFormed ==
  ASSUME NEW v \in Parties!Parties, Parties!WellFormed(v), NEW p \in PartyMembers,
         Parties!HasRoom(v), ~Parties!Includes(v, p)
  PROVE  LET w == [v EXCEPT !.members = Append(@, p)]
         IN  w \in Parties!Parties /\ Parties!WellFormed(w)
  <1> DEFINE m == v.members
             n == Append(m, p)
             w == [v EXCEPT !.members = n]
  <1>1. m \in Seq(PartyMembers) /\ v.leader \in PartyMembers
    BY DEF Parties!Parties
  <1>2. /\ n \in Seq(PartyMembers) /\ Len(n) = Len(m) + 1 /\ n[Len(m) + 1] = p
        /\ \A i \in 1..Len(m) : n[i] = m[i]
    BY <1>1
  <1>3. w.members = n /\ w.leader = v.leader /\ w \in Parties!Parties
    BY <1>1, <1>2 DEF Parties!Parties
  <1>4. Len(m) \in Nat /\ DOMAIN m = 1..Len(m) /\ DOMAIN n = 1..Len(n)
    BY <1>1, <1>2
  <1>5. maxPartySize \in Nat
    BY PartyAssumption DEF Parties!PartyAssumption
  <1>6. Len(n) \in 1..maxPartySize
    BY <1>2, <1>4, <1>5 DEF Parties!HasRoom
  <1>7. \A i \in 1..Len(m) : m[i] # p
    BY DEF Parties!Includes, Parties!Contains
  <1>8. \A i, j \in 1..Len(m) : m[i] = m[j] => i = j
    BY <1>4 DEF Parties!WellFormed, Parties!IsInjective
  <1>9. \E i \in 1..Len(m) : m[i] = v.leader
    BY DEF Parties!WellFormed, Parties!Includes, Parties!Contains
  <1> HIDE DEF m, n, w
  <1>10. \A i, j \in 1..Len(n) : n[i] = n[j] => i = j
    <2>1. \A i \in 1..Len(n) : i \in 1..Len(m) \/ i = Len(m) + 1
      BY <1>2, <1>4
    <2>2. QED
      BY <1>2, <1>7, <1>8, <2>1
  <1>11. \E i \in 1..Len(n) : n[i] = v.leader
    <2>1. 1..Len(m) \subseteq 1..Len(n)
      BY <1>2, <1>4
    <2>2. QED
      BY <1>2, <1>9, <2>1
  <1>12. Parties!WellFormed(w)
    BY <1>3, <1>4, <1>6, <1>10, <1>11
       DEF Parties!WellFormed, Parties!Includes, Parties!Contains, Parties!IsInjective
  <1>13. QED
    BY <1>3, <1>12 DEF w, n, m

\* leaveParty: what is left is a party, or nothing.
LEMMA LeftPartyFormed ==
  ASSUME NEW v \in Parties!Parties, Parties!WellFormed(v), NEW p \in PartyMembers
  PROVE  LET w == Parties!Without(v, p)
         IN  w \in Parties!Parties \cup {Nothing} /\ (w # Nothing => Parties!WellFormed(w))
  <1> DEFINE m == v.members
             rest == Filtered(m, p)
             w == Parties!Without(v, p)
  <1>1. m \in Seq(PartyMembers) /\ v.leader \in PartyMembers
    BY DEF Parties!Parties
  <1>2. rest \in Seq(PartyMembers) /\ FilterOf(rest, m, p, Len(m))
    BY <1>1, FilteredKeeps
  <1>3. Parties!Filtered(m, p) = rest
    BY DEF Filtered, Parties!Filtered
  <1>4. w = IF rest = <<>> THEN Nothing
            ELSE [leader |-> IF v.leader = p THEN rest[1] ELSE v.leader, members |-> rest]
    BY <1>3 DEF Parties!Without
  <1>5. CASE rest = <<>>
    BY <1>4, <1>5
  <1>6. CASE rest # <<>>
    <2> DEFINE leader == IF v.leader = p THEN rest[1] ELSE v.leader
    <2>1. Len(rest) \in Nat \ {0} /\ DOMAIN rest = 1..Len(rest) /\ rest[1] \in PartyMembers
      BY <1>2, <1>6
    <2>2. Len(m) \in Nat /\ DOMAIN m = 1..Len(m)
      BY <1>1
    <2>3. \A i, j \in 1..Len(m) : m[i] = m[j] => i = j
      BY <2>2 DEF Parties!WellFormed, Parties!IsInjective
    <2>4. PICK k \in 1..Len(m) : m[k] = v.leader
      BY DEF Parties!WellFormed, Parties!Includes, Parties!Contains
    <2>5. maxPartySize \in Nat /\ Len(m) <= maxPartySize
      BY PartyAssumption, <2>2 DEF Parties!PartyAssumption, Parties!WellFormed
    <2> HIDE DEF m, rest, w
    <2>6. Len(rest) \in 1..maxPartySize
      BY <1>2, <2>1, <2>2, <2>5 DEF FilterOf
    <2>7. \A i, j \in 1..Len(rest) : rest[i] = rest[j] => i = j
      <3>1. ASSUME NEW i \in 1..Len(rest), NEW j \in 1..Len(rest), i < j PROVE rest[i] # rest[j]
        <4>1. PICK a, b \in 1..Len(m) : a < b /\ rest[i] = m[a] /\ rest[j] = m[b]
          BY <1>2, <3>1 DEF FilterOf
        <4>2. m[a] # m[b]
          BY <2>3, <4>1
        <4>3. QED
          BY <4>1, <4>2
      <3>2. QED
        BY <2>1, <3>1
    <2>8. \E i \in 1..Len(rest) : rest[i] = leader
      <3>1. CASE v.leader = p
        BY <2>1, <3>1
      <3>2. CASE v.leader # p
        BY <1>2, <2>4, <3>2 DEF FilterOf
      <3>3. QED
        BY <3>1, <3>2
    <2>9. leader \in PartyMembers
      BY <1>1, <2>1
    <2>10. w = [leader |-> leader, members |-> rest]
      BY <1>4, <1>6
    <2> HIDE DEF leader
    <2>11. w \in Parties!Parties /\ w.leader = leader /\ w.members = rest
      BY <1>2, <2>9, <2>10 DEF Parties!Parties
    <2>12. Parties!WellFormed(w)
      BY <2>1, <2>6, <2>7, <2>8, <2>11
         DEF Parties!WellFormed, Parties!Includes, Parties!Contains, Parties!IsInjective
    <2>13. QED
      BY <2>11, <2>12 DEF w
  <1>7. QED
    BY <1>5, <1>6

LEMMA PartyStep == PartyInv /\ Parties!PartyNext => PartyInv'
  <1> SUFFICES ASSUME PartyInv, Parties!PartyNext PROVE PartyInv'
    OBVIOUS
  <1>1. ASSUME NEW r \in Requests, NEW c, call' = [call EXCEPT ![r] = c],
               UNCHANGED <<party, partyCache>>, c # Nothing => GoodCall(c)
        PROVE  PartyInv'
    BY <1>1 DEF PartyInv, StoredParties, GoodCall
  <1>2. ASSUME NEW r \in Requests, NEW p \in PartyMembers, Parties!LeaveKeys(r, p)
        PROVE  PartyInv'
    <2> DEFINE ids == {id \in PartyIds : party[id] # Nothing}
               c == [op |-> "leave", player |-> p, keys |-> ids, id |-> Nothing, value |-> Nothing]
               none == [op |-> "leave", player |-> p, keys |-> {}, id |-> Nothing, value |-> Nothing]
    <2>1. [none EXCEPT !.keys = ids] = c
      OBVIOUS
    <2>2. Parties!Writing("leave", p, Nothing, Nothing) = none
      BY DEF Parties!Writing
    <2> HIDE DEF none
    <2>3. call' = [call EXCEPT ![r] = [none EXCEPT !.keys = ids]] /\ UNCHANGED <<party, partyCache>>
      BY <1>2, <2>2 DEF Parties!LeaveKeys, Parties!Begin
    <2>4. call' = [call EXCEPT ![r] = c] /\ UNCHANGED <<party, partyCache>>
      BY <2>1, <2>3
    <2>5. GoodCall(c)
      BY DEF GoodCall
    <2>6. QED
      BY <1>1, <2>4, <2>5
  <1>3. ASSUME NEW r \in Requests, NEW p \in PartyMembers, NEW id \in PartyIds,
               Parties!CreateParty(r, p, id)
        PROVE  PartyInv'
    <2> DEFINE v == [leader |-> p, members |-> <<p>>]
               c == [op |-> "create", player |-> p, keys |-> {}, id |-> id, value |-> v]
    <2>1. /\ call' = [call EXCEPT ![r] = c] /\ UNCHANGED party
          /\ partyCache' = partyCache \cup {id}
      BY <1>3 DEF Parties!CreateParty, Parties!Begin, Parties!Writing
    <2>2. v \in Parties!Parties /\ Parties!WellFormed(v)
      BY NewPartyFormed
    <2> HIDE DEF v
    <2>3. GoodCall(c)'
      BY <2>1, <2>2 DEF GoodCall, Parties!WellFormed
    <2>4. \A d : GoodCall(d) => GoodCall(d)'
      BY <2>1 DEF GoodCall
    <2>5. StoredParties'
      BY <2>1 DEF PartyInv, StoredParties
    <2> HIDE DEF c
    <2>6. QED
      BY <2>1, <2>3, <2>4, <2>5 DEF PartyInv
  <1>4. ASSUME NEW r \in Requests, NEW p \in PartyMembers, NEW id \in PartyIds,
               Parties!JoinGet(r, p, id)
        PROVE  PartyInv'
    <2> DEFINE v == [party[id] EXCEPT !.members = Append(@, p)]
               c == [op |-> "join", player |-> p, keys |-> {}, id |-> id, value |-> v]
    <2>1. call' = [call EXCEPT ![r] = c] /\ UNCHANGED <<party, partyCache>>
      BY <1>4 DEF Parties!JoinGet, Parties!Begin, Parties!Writing
    <2>2. party[id] \in Parties!Parties /\ Parties!WellFormed(party[id]) /\ id \in partyCache
      BY <1>4 DEF Parties!JoinGet, PartyInv, StoredParties
    <2>3. v \in Parties!Parties /\ Parties!WellFormed(v)
      BY <1>4, <2>2, JoinedPartyFormed DEF Parties!JoinGet
    <2> HIDE DEF v
    <2>4. GoodCall(c)
      BY <2>2, <2>3 DEF GoodCall
    <2> HIDE DEF c
    <2>5. QED
      BY <1>1, <2>1, <2>4
  <1>5. ASSUME NEW r \in Requests, Parties!LeaveGet(r) PROVE PartyInv'
    <2>1. PICK id \in call[r].keys :
            call' = [call EXCEPT ![r] =
              IF party[id] # Nothing /\ Parties!Includes(party[id], call[r].player)
              THEN Parties!Writing("leave", call[r].player, id, Parties!Without(party[id], call[r].player))
              ELSE [call[r] EXCEPT !.keys = @ \ {id}]]
      BY <1>5 DEF Parties!LeaveGet
    <2>2. GoodCall(call[r]) /\ id \in PartyIds /\ UNCHANGED <<party, partyCache>>
      BY <1>5 DEF Parties!LeaveGet, PartyInv, GoodCall
    <2>3. CASE party[id] # Nothing /\ Parties!Includes(party[id], call[r].player)
      <3> DEFINE v == Parties!Without(party[id], call[r].player)
                 c == [op |-> "leave", player |-> call[r].player, keys |-> {}, id |-> id, value |-> v]
      <3>1. call' = [call EXCEPT ![r] = c]
        BY <2>1, <2>3 DEF Parties!Writing
      <3>2. party[id] \in Parties!Parties /\ Parties!WellFormed(party[id]) /\ id \in partyCache
        BY <2>2, <2>3 DEF PartyInv, StoredParties
      <3>3. v \in Parties!Parties \cup {Nothing} /\ (v # Nothing => Parties!WellFormed(v))
        BY <2>2, <3>2, LeftPartyFormed DEF GoodCall
      <3> HIDE DEF v
      <3>4. GoodCall(c)
        BY <2>2, <3>2, <3>3 DEF GoodCall
      <3> HIDE DEF c
      <3>5. QED
        BY <1>1, <2>2, <3>1, <3>4
    <2>4. CASE ~(party[id] # Nothing /\ Parties!Includes(party[id], call[r].player))
      <3> DEFINE c == [call[r] EXCEPT !.keys = @ \ {id}]
      <3>1. call' = [call EXCEPT ![r] = c]
        BY <2>1, <2>4
      <3>2. /\ c.op = call[r].op /\ c.player = call[r].player /\ c.id = call[r].id
            /\ c.value = call[r].value /\ (c.keys = call[r].keys \ {id} \/ c.keys = call[r].keys)
        OBVIOUS
      <3> HIDE DEF c
      <3>3. GoodCall(c)
        BY <2>2, <3>2 DEF GoodCall
      <3>4. QED
        BY <1>1, <2>2, <3>1, <3>3
    <2>5. QED
      BY <2>3, <2>4
  <1>6. ASSUME NEW r \in Requests, Parties!LeaveNothing(r) PROVE PartyInv'
    BY <1>1, <1>6 DEF Parties!LeaveNothing, Parties!Ends
  <1>7. ASSUME NEW r \in Requests, Parties!PartyWrite(r) PROVE PartyInv'
    <2>1. /\ GoodCall(call[r]) /\ call[r].id \in PartyIds
          /\ call[r].id \in partyCache
          /\ party' = party \/ party' = [party EXCEPT ![call[r].id] = call[r].value]
          /\ call' = [call EXCEPT ![r] = Nothing] /\ UNCHANGED partyCache
      BY <1>7 DEF Parties!PartyWrite, Parties!Ends, PartyInv, GoodCall
    <2>2. StoredParties'
      BY <2>1 DEF GoodCall, PartyInv, StoredParties
    <2>3. \A d : GoodCall(d) => GoodCall(d)'
      BY <2>1 DEF GoodCall
    <2>4. QED
      BY <2>1, <2>2, <2>3 DEF PartyInv
  <1>8. ASSUME NEW id \in PartyIds, Parties!PartyExpires(id) PROVE PartyInv'
    BY <1>8 DEF Parties!PartyExpires, PartyInv, StoredParties, GoodCall
  <1>9. QED
    BY <1>2, <1>3, <1>4, <1>5, <1>6, <1>7, <1>8 DEF Parties!PartyNext

LEMMA PartyConsequences ==
  PartyInv => Parties!PartyTypeOK /\ Parties!PartyWellFormed
  BY DEF PartyInv, StoredParties, GoodCall, Parties!PartyTypeOK, Parties!PartyWellFormed

LEMMA PartyInitial == Parties!PartyInit => PartyInv
  BY DEF Parties!PartyInit, PartyInv, StoredParties, GoodCall

-----------------------------------------------------------------------------
(***************************************************************************)
(* Rooms: who is in a room is online, once, and in a party room uses the   *)
(* party gateway; and the order of a room is the order of arrival.         *)
(***************************************************************************)

AllSockets == PartySockets \cup TradeSockets \cup EstateSockets

Occupied(n, q) ==
  /\ q \in Seq(AllSockets)
  /\ \A i, j \in 1..Len(q) : q[i] = q[j] => i = j
  /\ \A i \in 1..Len(q) : q[i] \in online /\ (n \in RoomsOf!PartyRooms => q[i] \in PartySockets)
LaterKnown(n, q) ==
  \A i, j \in 1..Len(q) : i < j => q[j] \in known[q[i]][n] \cup misnamed[n]

RoomsInv ==
  /\ online \subseteq AllSockets /\ gone \subseteq AllSockets \ online
  /\ known \in [PartySockets -> [RoomsOf!PartyRooms -> SUBSET PartySockets]]
  /\ misnamed \in [RoomsOf!PartyRooms -> SUBSET PartySockets]
  /\ \A n \in RoomsOf!RoomNames : Occupied(n, room[n])
  /\ \A n \in RoomsOf!PartyRooms : LaterKnown(n, room[n])

LEMMA RoomKinds ==
  /\ RoomsOf!PartyRooms \subseteq RoomsOf!RoomNames
  /\ RoomsOf!PartyRooms \cap (RoomsOf!MarketRooms \cup {RoomsOf!AuctionRoom}) = {}
  /\ RoomsOf!PartyRooms \cap RoomsOf!EstateRooms = {}
  /\ RoomsOf!AllSockets = AllSockets
  BY DEF RoomsOf!PartyRooms, RoomsOf!RoomNames, RoomsOf!MarketRooms, RoomsOf!AuctionRoom,
         RoomsOf!EstateRooms, RoomsOf!AllSockets, AllSockets

\* Whoever comes is the last of the room.
LEMMA AppendOccupies ==
  ASSUME NEW n, NEW q, Occupied(n, q), NEW s \in online, s \in AllSockets,
         n \in RoomsOf!PartyRooms => s \in PartySockets, \A i \in 1..Len(q) : q[i] # s
  PROVE  Occupied(n, Append(q, s))
  <1> DEFINE a == Append(q, s)
  <1>1. /\ a \in Seq(AllSockets) /\ Len(a) = Len(q) + 1 /\ a[Len(q) + 1] = s
        /\ \A i \in 1..Len(q) : a[i] = q[i]
    BY DEF Occupied
  <1>2. Len(q) \in Nat
    BY DEF Occupied
  <1> HIDE DEF a
  <1>3. \A i \in 1..Len(a) : i \in 1..Len(q) \/ i = Len(q) + 1
    BY <1>1, <1>2
  <1>4. \A i, j \in 1..Len(a) : a[i] = a[j] => i = j
    BY <1>1, <1>3 DEF Occupied
  <1>5. \A i \in 1..Len(a) : a[i] \in online /\ (n \in RoomsOf!PartyRooms => a[i] \in PartySockets)
    BY <1>1, <1>3 DEF Occupied
  <1>6. QED
    BY <1>1, <1>4, <1>5 DEF Occupied, a

LEMMA FilterOccupies ==
  ASSUME NEW n, NEW q, Occupied(n, q), NEW s
  PROVE  /\ Occupied(n, Filtered(q, s))
         /\ \A i \in 1..Len(Filtered(q, s)) :
              /\ Filtered(q, s)[i] # s
              /\ \E a \in 1..Len(q) : Filtered(q, s)[i] = q[a]
         /\ LaterKnown(n, q) => LaterKnown(n, Filtered(q, s))
  <1> DEFINE f == Filtered(q, s)
  <1>1. f \in Seq(AllSockets) /\ FilterOf(f, q, s, Len(q))
    BY FilteredKeeps DEF Occupied
  <1>2. Len(q) \in Nat /\ Len(f) \in Nat
    BY <1>1 DEF Occupied
  <1> HIDE DEF f
  <1>3. \A i, j \in 1..Len(f) : f[i] = f[j] => i = j
    <2>1. ASSUME NEW i \in 1..Len(f), NEW j \in 1..Len(f), i < j PROVE f[i] # f[j]
      <3>1. PICK a, b \in 1..Len(q) : a < b /\ f[i] = q[a] /\ f[j] = q[b]
        BY <1>1, <2>1 DEF FilterOf
      <3>2. q[a] # q[b]
        BY <3>1 DEF Occupied
      <3>3. QED
        BY <3>1, <3>2
    <2>2. QED
      BY <1>2, <2>1
  <1>4. \A i \in 1..Len(f) : /\ f[i] # s /\ f[i] \in online
                             /\ \E a \in 1..Len(q) : f[i] = q[a]
                             /\ n \in RoomsOf!PartyRooms => f[i] \in PartySockets
    BY <1>1 DEF FilterOf, Occupied
  <1>5. ASSUME LaterKnown(n, q), NEW i \in 1..Len(f), NEW j \in 1..Len(f), i < j
        PROVE  f[j] \in known[f[i]][n] \cup misnamed[n]
    <2>1. PICK a, b \in 1..Len(q) : a < b /\ f[i] = q[a] /\ f[j] = q[b]
      BY <1>1, <1>5 DEF FilterOf
    <2>2. QED
      BY <1>5, <2>1 DEF LaterKnown
  <1>6. QED
    BY <1>1, <1>3, <1>4, <1>5 DEF Occupied, LaterKnown, f

LEMMA RoomsStep == RoomsInv /\ RoomsOf!RoomsNext => RoomsInv'
  <1> SUFFICES ASSUME RoomsInv, RoomsOf!RoomsNext PROVE RoomsInv'
    OBVIOUS
  <1>a. \A q, s : RoomsOf!Filtered(q, s) = Filtered(q, s)
    BY DEF Filtered, RoomsOf!Filtered
  <1>b. \A q, s : RoomsOf!Contains(q, s) <=> \E i \in 1..Len(q) : q[i] = s
    BY DEF RoomsOf!Contains
  <1>1. ASSUME NEW s \in online, NEW rooms, room' = RoomsOf!Entered(rooms, s),
               UNCHANGED <<online, gone>>,
               s \notin PartySockets => rooms \cap RoomsOf!PartyRooms = {}
        PROVE  \A n \in RoomsOf!RoomNames : Occupied(n, room[n])'
    <2> SUFFICES ASSUME NEW n \in RoomsOf!RoomNames PROVE Occupied(n, room[n])'
      OBVIOUS
    <2>1. Occupied(n, room[n]) /\ s \in AllSockets
      BY DEF RoomsInv
    <2>2. CASE n \in rooms /\ ~RoomsOf!Contains(room[n], s)
      <3>1. room'[n] = Append(room[n], s)
        BY <1>1, <2>2 DEF RoomsOf!Entered
      <3>2. Occupied(n, Append(room[n], s))
        BY <1>1, <1>b, <2>1, <2>2, AppendOccupies
      <3>3. QED
        BY <1>1, <3>1, <3>2 DEF Occupied
    <2>3. CASE ~(n \in rooms /\ ~RoomsOf!Contains(room[n], s))
      <3>1. room'[n] = room[n]
        BY <1>1, <2>3 DEF RoomsOf!Entered
      <3>2. QED
        BY <1>1, <2>1, <3>1 DEF Occupied
    <2>4. QED
      BY <2>2, <2>3
  <1>2. ASSUME NEW s, NEW rooms, room' = RoomsOf!Left(rooms, s), UNCHANGED <<online, gone>>
        PROVE  \A n \in RoomsOf!RoomNames : Occupied(n, room[n])'
    <2> SUFFICES ASSUME NEW n \in RoomsOf!RoomNames PROVE Occupied(n, room[n])'
      OBVIOUS
    <2>1. Occupied(n, room[n]) /\ room'[n] \in {room[n], Filtered(room[n], s)}
      BY <1>2, <1>a DEF RoomsInv, RoomsOf!Left
    <2>2. Occupied(n, Filtered(room[n], s))
      BY <2>1, FilterOccupies
    <2>3. Occupied(n, room'[n])
      BY <2>1, <2>2
    <2>4. QED
      BY <1>2, <2>3 DEF Occupied
  <1>3. ASSUME NEW s \in RoomsOf!AllSockets, RoomsOf!Connect(s) PROVE RoomsInv'
    BY <1>3, RoomKinds DEF RoomsOf!Connect, RoomsInv, Occupied, LaterKnown
  <1>4. ASSUME NEW s \in RoomsOf!AllSockets, RoomsOf!Disconnect(s) PROVE RoomsInv'
    <2>1. /\ online' = online \ {s} /\ gone' = gone \cup {s}
          /\ known' \in [PartySockets -> [RoomsOf!PartyRooms -> SUBSET PartySockets]]
          /\ misnamed' \in [RoomsOf!PartyRooms -> SUBSET PartySockets]
          /\ \A o \in PartySockets : o # s => known'[o] = known[o]
          /\ \A n \in RoomsOf!PartyRooms : misnamed'[n] = misnamed[n] \ {s}
          /\ \A n \in RoomsOf!RoomNames : room'[n] = Filtered(room[n], s)
      BY <1>4, <1>a DEF RoomsOf!Disconnect, RoomsOf!Left, RoomsInv
    <2>2. ASSUME NEW n \in RoomsOf!RoomNames
          PROVE  /\ Occupied(n, Filtered(room[n], s))
                 /\ \A i \in 1..Len(Filtered(room[n], s)) : Filtered(room[n], s)[i] # s
                 /\ LaterKnown(n, room[n]) => LaterKnown(n, Filtered(room[n], s))
      BY FilterOccupies DEF RoomsInv
    <2>3. \A n \in RoomsOf!RoomNames : Occupied(n, room[n])'
      <3> SUFFICES ASSUME NEW n \in RoomsOf!RoomNames PROVE Occupied(n, room[n])'
        OBVIOUS
      <3> DEFINE f == Filtered(room[n], s)
      <3>1. Occupied(n, f) /\ \A i \in 1..Len(f) : f[i] # s
        BY <2>2
      <3>2. room'[n] = f
        BY <2>1
      <3> HIDE DEF f
      <3>3. QED
        BY <2>1, <3>1, <3>2 DEF Occupied
    <2>4. \A n \in RoomsOf!PartyRooms : LaterKnown(n, room[n])'
      <3> SUFFICES ASSUME NEW n \in RoomsOf!PartyRooms PROVE LaterKnown(n, room[n])'
        OBVIOUS
      <3> DEFINE f == Filtered(room[n], s)
      <3>1. LaterKnown(n, f) /\ \A i \in 1..Len(f) : f[i] # s /\ f[i] \in PartySockets
        BY <2>2, RoomKinds DEF RoomsInv, Occupied
      <3>2. room'[n] = f
        BY <2>1, RoomKinds
      <3> HIDE DEF f
      <3>3. QED
        BY <2>1, <3>1, <3>2 DEF LaterKnown
    <2>5. QED
      BY <1>4, <2>1, <2>3, <2>4, RoomKinds DEF RoomsInv, RoomsOf!Disconnect
  <1>5. ASSUME NEW s \in PartySockets, NEW p \in PartySockets,
               NEW n \in RoomsOf!PartyRooms, RoomsOf!JoinPartyRoom(s, n, p)
        PROVE  RoomsInv'
    <2>1. /\ s \in online /\ room' = RoomsOf!Entered({n}, s) /\ UNCHANGED <<online, gone>>
          /\ known' = [o \in PartySockets |->
               IF o \in RoomsOf!Others(n, s) THEN [known[o] EXCEPT ![n] = @ \cup {p}]
               ELSE known[o]]
          /\ misnamed' = [misnamed EXCEPT ![n] = IF p = s THEN @ \ {s} ELSE @ \cup {s}]
      BY <1>5 DEF RoomsOf!JoinPartyRoom
    <2>2. \A m \in RoomsOf!RoomNames : Occupied(m, room[m])'
      BY <1>1, <2>1
    <2>3. /\ known' \in [PartySockets -> [RoomsOf!PartyRooms -> SUBSET PartySockets]]
          /\ misnamed' \in [RoomsOf!PartyRooms -> SUBSET PartySockets]
      BY <2>1 DEF RoomsInv
    <2>4. ASSUME NEW m \in RoomsOf!PartyRooms, m # n PROVE LaterKnown(m, room[m])'
      <3>1. /\ room'[m] = room[m] /\ LaterKnown(m, room[m])
            /\ \A i \in 1..Len(room[m]) : room[m][i] \in PartySockets
        BY <2>1, <2>4, RoomKinds DEF RoomsOf!Entered, RoomsInv, Occupied
      <3>2. misnamed'[m] = misnamed[m] /\ \A o \in PartySockets : known'[o][m] = known[o][m]
        BY <2>1, <2>4 DEF RoomsInv
      <3>3. QED
        BY <3>1, <3>2 DEF LaterKnown
    <2>5. LaterKnown(n, room[n])'
      <3> DEFINE q == room[n]
      <3>1. /\ LaterKnown(n, q) /\ q \in Seq(AllSockets)
            /\ \A i \in 1..Len(q) : q[i] \in PartySockets
            /\ \A i, j \in 1..Len(q) : q[i] = q[j] => i = j
        BY RoomKinds DEF RoomsInv, Occupied
      <3>2. Len(q) \in Nat /\ DOMAIN q = 1..Len(q)
        BY <3>1
      <3>3. \A i \in 1..Len(q) : q[i] # s => known'[q[i]][n] = known[q[i]][n] \cup {p}
        <4>1. \A i \in 1..Len(q) : q[i] # s => q[i] \in RoomsOf!Others(n, s)
          BY <3>2 DEF RoomsOf!Others, RoomsOf!ToSet
        <4>2. \A o \in PartySockets : o \in RoomsOf!Others(n, s) =>
                known'[o][n] = known[o][n] \cup {p}
          BY <2>1 DEF RoomsInv
        <4>3. QED
          BY <3>1, <4>1, <4>2
      <3>4. /\ s \notin RoomsOf!Others(n, s)
            /\ p = s \/ s \in misnamed'[n]
            /\ \A x \in misnamed[n] : x = s \/ x \in misnamed'[n]
        BY <2>1 DEF RoomsOf!Others, RoomsInv
      <3>5. CASE RoomsOf!Contains(q, s)
        <4>1. room'[n] = q
          BY <2>1, <3>5, RoomKinds DEF RoomsOf!Entered
        <4>2. known'[s][n] = known[s][n]
          BY <2>1, <3>4, <3>5
        <4> HIDE DEF q
        <4>3. \A i \in 1..Len(q) : known[q[i]][n] \subseteq known'[q[i]][n]
          BY <3>3, <4>2
        <4>4. ASSUME NEW i \in 1..Len(q), NEW j \in 1..Len(q), i < j
              PROVE  q[j] \in known'[q[i]][n] \cup misnamed'[n]
          <5>1. CASE q[j] = s
            <6>1. q[i] # s
              BY <3>1, <4>4, <5>1
            <6>2. QED
              BY <3>3, <3>4, <5>1, <6>1
          <5>2. CASE q[j] # s
            BY <3>1, <3>4, <4>3, <4>4, <5>2 DEF LaterKnown
          <5>3. QED
            BY <5>1, <5>2
        <4>5. QED
          BY <4>1, <4>4 DEF LaterKnown
      <3>6. CASE ~RoomsOf!Contains(q, s)
        <4>1. room'[n] = Append(q, s)
          BY <2>1, <3>6, RoomKinds DEF RoomsOf!Entered
        <4>2. \A i \in 1..Len(q) : q[i] # s
          BY <1>b, <3>6
        <4> DEFINE a == Append(q, s)
        <4> HIDE DEF q
        <4>3. /\ Len(a) = Len(q) + 1 /\ a[Len(q) + 1] = s
              /\ \A i \in 1..Len(q) : a[i] = q[i]
          BY <3>1, RoomKinds DEF AllSockets
        <4> HIDE DEF a
        <4>4. ASSUME NEW i \in 1..Len(a), NEW j \in 1..Len(a), i < j
              PROVE  a[j] \in known'[a[i]][n] \cup misnamed'[n]
          <5>1. i \in 1..Len(q) /\ a[i] = q[i]
            BY <3>2, <4>3, <4>4
          <5>2. known'[a[i]][n] = known[q[i]][n] \cup {p}
            BY <3>3, <4>2, <5>1
          <5>3. CASE j = Len(q) + 1
            BY <3>4, <4>3, <5>2, <5>3
          <5>4. CASE j # Len(q) + 1
            <6>1. j \in 1..Len(q) /\ a[j] = q[j] /\ q[j] # s
              BY <3>2, <4>2, <4>3, <5>4
            <6>2. q[j] \in known[q[i]][n] \cup misnamed[n]
              BY <3>1, <4>4, <5>1, <6>1 DEF LaterKnown
            <6>3. QED
              BY <3>4, <5>2, <6>1, <6>2
          <5>5. QED
            BY <5>3, <5>4
        <4>5. QED
          BY <4>1, <4>4 DEF LaterKnown, a
      <3>7. QED
        BY <3>5, <3>6
    <2>6. QED
      BY <2>1, <2>2, <2>3, <2>4, <2>5 DEF RoomsInv
  <1>6. ASSUME NEW s \in PartySockets, NEW p \in PartySockets,
               NEW n \in RoomsOf!PartyRooms, RoomsOf!LeavePartyRoom(s, n, p)
        PROVE  RoomsInv'
    <2>1. /\ room' = RoomsOf!Left({n}, s) /\ UNCHANGED <<online, gone>>
          /\ known' = [o \in PartySockets |->
               IF o \in RoomsOf!Others(n, s) THEN [known[o] EXCEPT ![n] = @ \ {p}]
               ELSE IF o = s THEN [known[o] EXCEPT ![n] = {}] ELSE known[o]]
          /\ misnamed' = [misnamed EXCEPT
               ![n] = (@ \cup ({p} \cap RoomsOf!ToSet(room[n]))) \ {s}]
      BY <1>6 DEF RoomsOf!LeavePartyRoom
    <2>2. \A m \in RoomsOf!RoomNames : Occupied(m, room[m])'
      BY <1>2, <2>1
    <2>3. /\ known' \in [PartySockets -> [RoomsOf!PartyRooms -> SUBSET PartySockets]]
          /\ misnamed' \in [RoomsOf!PartyRooms -> SUBSET PartySockets]
      BY <2>1 DEF RoomsInv
    <2>4. ASSUME NEW m \in RoomsOf!PartyRooms PROVE LaterKnown(m, room[m])'
      <3> DEFINE q == room'[m]
      <3>1. /\ LaterKnown(m, q)
            /\ \A i \in 1..Len(q) :
                 /\ q[i] \in PartySockets /\ q[i] \in RoomsOf!ToSet(room[m])
                 /\ m = n => q[i] # s
        <4>1. /\ m \in RoomsOf!RoomNames /\ Occupied(m, room[m]) /\ LaterKnown(m, room[m])
              /\ q = IF m = n THEN Filtered(room[m], s) ELSE room[m]
          BY <1>a, <2>1, RoomKinds DEF RoomsInv, RoomsOf!Left
        <4>2. /\ Occupied(m, Filtered(room[m], s)) /\ LaterKnown(m, Filtered(room[m], s))
              /\ \A i \in 1..Len(Filtered(room[m], s)) :
                   /\ Filtered(room[m], s)[i] # s
                   /\ \E a \in 1..Len(room[m]) : Filtered(room[m], s)[i] = room[m][a]
          <5>1. Occupied(m, room[m]) /\ LaterKnown(m, room[m])
            BY <4>1
          <5> HIDE DEF q
          <5>2. QED
            BY <5>1, FilterOccupies, SMTT(30)
        <4>3. \A a \in 1..Len(room[m]) : room[m][a] \in RoomsOf!ToSet(room[m])
          <5>1. DOMAIN room[m] = 1..Len(room[m])
            BY <4>1 DEF Occupied
          <5>2. QED
            BY <5>1 DEF RoomsOf!ToSet
        <4> HIDE DEF q
        <4>4. CASE m = n
          <5>1. q = Filtered(room[m], s)
            BY <4>1, <4>4
          <5>2. \A i \in 1..Len(q) : q[i] \in PartySockets
            BY <4>2, <5>1 DEF Occupied
          <5>3. \A i \in 1..Len(q) : q[i] # s /\ q[i] \in RoomsOf!ToSet(room[m])
            BY <4>2, <4>3, <5>1
          <5>4. LaterKnown(m, q)
            BY <4>2, <5>1
          <5>5. QED
            BY <5>2, <5>3, <5>4
        <4>5. CASE m # n
          BY <4>1, <4>3, <4>5 DEF Occupied
        <4>6. QED
          BY <4>4, <4>5
      <3>2. ASSUME NEW o \in PartySockets, NEW x \in RoomsOf!ToSet(room[m]),
                   m = n => o # s /\ x # s, x \in known[o][m] \cup misnamed[m]
            PROVE  x \in known'[o][m] \cup misnamed'[m]
        <4>1. CASE m # n
          BY <2>1, <3>2, <4>1 DEF RoomsInv
        <4>2. CASE m = n
          <5>1. /\ misnamed'[n] = (misnamed[n] \cup ({p} \cap RoomsOf!ToSet(room[n]))) \ {s}
                /\ known'[o][n] \in {known[o][n] \ {p}, known[o][n]}
            BY <2>1, <3>2, <4>2 DEF RoomsInv
          <5>2. QED
            BY <3>2, <4>2, <5>1
        <4>3. QED
          BY <4>1, <4>2
      <3>3. QED
        BY <3>1, <3>2 DEF LaterKnown
    <2>5. QED
      BY <2>1, <2>2, <2>3, <2>4 DEF RoomsInv
  <1>7. ASSUME UNCHANGED <<online, gone, known, misnamed>>,
               \A n \in RoomsOf!RoomNames : Occupied(n, room[n])',
               \A n \in RoomsOf!PartyRooms : room'[n] = room[n]
        PROVE  RoomsInv'
    BY <1>7 DEF RoomsInv, LaterKnown
  <1>8. ASSUME NEW s \in (TradeSockets \cup EstateSockets), NEW rooms, rooms \cap RoomsOf!PartyRooms = {},
               s \in online, room' = RoomsOf!Entered(rooms, s) \/ room' = RoomsOf!Left(rooms, s),
               UNCHANGED <<online, gone, known, misnamed>>
        PROVE  RoomsInv'
    <2>1. \A n \in RoomsOf!RoomNames : Occupied(n, room[n])'
      BY <1>1, <1>2, <1>8
    <2>2. \A n \in RoomsOf!PartyRooms : n \notin rooms /\ n \in RoomsOf!RoomNames
      BY <1>8, RoomKinds
    <2>3. \A n \in RoomsOf!PartyRooms : room'[n] = room[n]
      BY <1>8, <2>2 DEF RoomsOf!Entered, RoomsOf!Left
    <2>4. QED
      BY <1>7, <1>8, <2>1, <2>3
  <1>9. ASSUME NEW s \in TradeSockets,
               \/ RoomsOf!SubscribeAuction(s)
               \/ \E types \in SUBSET ItemTypes : RoomsOf!SubscribeMarket(s, types)
               \/ \E n \in RoomsOf!MarketRooms \cup {RoomsOf!AuctionRoom} :
                    RoomsOf!Unsubscribe(s, {n})
        PROVE  RoomsInv'
    <2>1. CASE RoomsOf!SubscribeAuction(s)
      BY <1>8, <2>1, RoomKinds DEF RoomsOf!SubscribeAuction
    <2>2. ASSUME NEW types \in SUBSET ItemTypes, RoomsOf!SubscribeMarket(s, types)
          PROVE  RoomsInv'
      <3>1. RoomsOf!MarketRoomsFor(types) \subseteq RoomsOf!MarketRooms
        BY DEF RoomsOf!MarketRoomsFor, RoomsOf!MarketRooms
      <3>2. QED
        BY <1>8, <2>2, <3>1, RoomKinds DEF RoomsOf!SubscribeMarket
    <2>3. ASSUME NEW n \in RoomsOf!MarketRooms \cup {RoomsOf!AuctionRoom},
                 RoomsOf!Unsubscribe(s, {n})
          PROVE  RoomsInv'
      BY <1>8, <2>3, RoomKinds DEF RoomsOf!Unsubscribe
    <2>4. QED
      BY <1>9, <2>1, <2>2, <2>3
  <1>10. ASSUME NEW s \in EstateSockets, NEW p \in Players,
                RoomsOf!SubscribeEstate(s, p) \/ RoomsOf!UnsubscribeEstate(s, p)
         PROVE  RoomsInv'
    <2>1. {<<"estate", p>>} \cap RoomsOf!PartyRooms = {}
      BY DEF RoomsOf!PartyRooms
    <2>2. QED
      BY <1>8, <1>10, <2>1 DEF RoomsOf!SubscribeEstate, RoomsOf!UnsubscribeEstate
  <1>11. QED
    BY <1>3, <1>4, <1>5, <1>6, <1>9, <1>10 DEF RoomsOf!RoomsNext

LEMMA RoomsConsequences == RoomsInv => RoomsOf!RoomsTypeOK /\ RoomsOf!KnowsLaterMembers
  <1> SUFFICES ASSUME RoomsInv PROVE RoomsOf!RoomsTypeOK /\ RoomsOf!KnowsLaterMembers
    OBVIOUS
  <1>1. \A n \in RoomsOf!RoomNames : DOMAIN room[n] = 1..Len(room[n]) /\ Len(room[n]) \in Nat
    BY DEF RoomsInv, Occupied
  <1>2. \A n \in RoomsOf!RoomNames :
          RoomsOf!ToSet(room[n]) \subseteq online /\ RoomsOf!IsInjective(room[n])
    BY <1>1 DEF RoomsInv, Occupied, RoomsOf!ToSet, RoomsOf!IsInjective
  <1>3. RoomsOf!RoomsTypeOK
    BY <1>2, RoomKinds DEF RoomsInv, RoomsOf!RoomsTypeOK
  <1>4. ASSUME NEW n \in RoomsOf!PartyRooms, NEW j \in DOMAIN room[n], NEW i \in 1..(j - 1)
        PROVE  room[n][j] \in known[room[n][i]][n] \cup misnamed[n]
    <2>1. i \in 1..Len(room[n]) /\ j \in 1..Len(room[n]) /\ i < j
      BY <1>1, <1>4, RoomKinds
    <2>2. QED
      BY <1>4, <2>1 DEF RoomsInv, LaterKnown
  <1>5. QED
    BY <1>3, <1>4 DEF RoomsOf!KnowsLaterMembers

LEMMA RoomsInitial == RoomsOf!RoomsInit => RoomsInv
  BY RoomKinds DEF RoomsOf!RoomsInit, RoomsInv, Occupied, LaterKnown

-----------------------------------------------------------------------------
(***************************************************************************)
(* The event bus: an entry of the player map names a socket of its own     *)
(* instance; what a change is owed to stays bound where the global channel *)
(* is heard; and each copy is passed on at most once.                      *)
(***************************************************************************)

BusHandler == [channel |-> "global", id |-> "bus", type |-> "any"]

\* The bus alone listens to the global channel, and a subscription once to
\* the channel of a player.
Listening ==
  \A i \in Instances :
    /\ IsFiniteSet(handlers[i]) /\ BusHandler \in handlers[i]
    /\ \A h \in handlers[i] : h.channel = "global" => h = BusHandler
    /\ \A h \in handlers[i] : h.channel # "global" => h.id \in Subscriptions
    /\ \A g, h \in handlers[i] : g.id = h.id => g = h

\* A change goes out on the global channel and its player's, on each once.
CopiesOut ==
  /\ \A e \in Changes : change[e] # Nobody =>
       change[e].todo \subseteq {"global", change[e].player}
  /\ \A m \in copies :
       /\ change[m.change] # Nobody /\ m.channel \notin change[m.change].todo
       /\ m.channel \in {"global", change[m.change].player}

Homes ==
  \A i \in Instances, q \in Players :
    LET s == playerSocketMap[i][q] IN s # Nobody => sockets[s] \in {i, Gone}

\* A copy for instance i is yet to be published or to be delivered.
Awaited(e, i, c) ==
  \/ c \in change[e].todo
  \/ [change |-> e, to |-> i, channel |-> c] \in copies

OwedNow ==
  \A e \in Changes : \A s \in due[e] :
    /\ change[e] # Nobody
    /\ sockets[s] \in Instances /\ playerSocketMap[sockets[s]][change[e].player] = s
    /\ "global" \in redisSubs[sockets[s]]
    /\ change[e].kind = "attr" => pushes[e][s] >= 1 \/ Awaited(e, sockets[s], "global")

\* How often a change can have been pushed on an instance by now.
Spent(e, i) ==
  (IF Awaited(e, i, "global") THEN 0 ELSE 1)
    + (IF Awaited(e, i, change[e].player) THEN 0 ELSE Cardinality(Subscriptions))

PushesBounded ==
  \A e \in Changes, s \in Sockets :
    /\ change[e] = Nobody \/ sockets[s] = Nobody => pushes[e][s] = 0
    /\ change[e] # Nobody /\ sockets[s] \in Instances => pushes[e][s] <= Spent(e, sockets[s])
    /\ pushes[e][s] <= 1 + Cardinality(Subscriptions)

BusInv ==
  /\ Bus!BusTypeOK
  /\ Listening /\ CopiesOut /\ Homes /\ OwedNow /\ PushesBounded

\* The finite sets of the instance are those of the theorems.
LEMMA SameFinite ==
  /\ \A S : Bus!IsFiniteSet(S) <=> IsFiniteSet(S)
  /\ \A S : Bus!Cardinality(S) = Cardinality(S)
  BY DEF Bus!IsFiniteSet, IsFiniteSet, Bus!Cardinality, Cardinality

LEMMA BusConstants ==
  /\ Nobody \notin Players \cup Sockets \cup Instances \cup Bus!Change
  /\ Gone \notin Instances \cup {Nobody}
  /\ "global" \notin Players /\ IsFiniteSet(Subscriptions) /\ Cardinality(Subscriptions) \in Nat
  <1>1. IsFiniteSet(Subscriptions)
    BY BusAssumption, SameFinite DEF Bus!BusAssumption
  <1>2. Cardinality(Subscriptions) \in Nat
    BY <1>1, FS_CardinalityType
  <1>3. QED
    BY <1>1, <1>2, BusAssumption DEF Bus!BusAssumption

\* How many handlers a copy passes.
LEMMA PassingBounds ==
  ASSUME BusInv, NEW m \in copies
  PROVE  /\ Cardinality(Bus!Passing(m)) \in Nat
         /\ m.channel = "global" => Cardinality(Bus!Passing(m)) = 1
         /\ m.channel # "global" => Cardinality(Bus!Passing(m)) <= Cardinality(Subscriptions)
  <1> DEFINE P == Bus!Passing(m)
  <1>1. m.to \in Instances
    BY DEF BusInv, Bus!BusTypeOK
  <1>2. P \subseteq handlers[m.to] /\ \A h \in P : h.channel = m.channel
    BY DEF Bus!Passing
  <1>3. IsFiniteSet(P) /\ Cardinality(P) \in Nat
    BY <1>1, <1>2, FS_Subset, FS_CardinalityType DEF BusInv, Listening
  <1>4. CASE m.channel = "global"
    <2>1. BusHandler \in P
      BY <1>1, <1>4 DEF Bus!Passing, BusInv, Listening, BusHandler
    <2>2. P = {BusHandler}
      BY <1>1, <1>2, <1>4, <2>1 DEF BusInv, Listening
    <2>3. QED
      BY <1>3, <1>4, <2>2, FS_Singleton
  <1>5. CASE m.channel # "global"
    <2> DEFINE f == [h \in P |-> h.id]
    <2>1. \A h \in P : h.id \in Subscriptions
      BY <1>1, <1>2, <1>5 DEF BusInv, Listening
    <2>2. \A g, h \in P : g.id = h.id => g = h
      BY <1>1, <1>2 DEF BusInv, Listening
    <2> HIDE DEF P
    <2>3. f \in [P -> Subscriptions] /\ \A g, h \in P : f[g] = f[h] => g = h
      BY <2>1, <2>2
    <2> HIDE DEF f
    <2>4. DOMAIN f = P
      BY <2>3
    <2>41. f \in Injection(P, Subscriptions)
      BY <2>3, <2>4 DEF Injection, IsInjective
    <2>5. Cardinality(P) <= Cardinality(Subscriptions)
      BY <2>41, BusConstants, FS_Injection
    <2>6. QED
      BY <1>3, <1>5, <2>5 DEF P
  <1>6. QED
    BY <1>4, <1>5

LEMMA BusInitial == Bus!BusInit => BusInv
  <1> SUFFICES ASSUME Bus!BusInit PROVE BusInv
    OBVIOUS
  <1> USE BusConstants DEF Bus!BusInit
  <1>1. Bus!BusTypeOK
    BY DEF Bus!BusTypeOK, Bus!Channels, Bus!Handlers, Bus!Kinds, Bus!Change
  <1>2. Listening
    <2>1. \A i \in Instances : handlers[i] = {BusHandler}
      BY DEF BusHandler
    <2>2. BusHandler.channel = "global"
      BY DEF BusHandler
    <2>3. QED
      BY <2>1, <2>2, FS_Singleton DEF Listening
  <1>3. CopiesOut /\ Homes /\ OwedNow /\ PushesBounded
    BY DEF CopiesOut, Homes, OwedNow, PushesBounded
  <1>5. QED
    BY <1>1, <1>2, <1>3 DEF BusInv

LEMMA BusConsequences == BusInv => Bus!BusTypeOK /\ Bus!AttrReaches
  <1> SUFFICES ASSUME BusInv PROVE Bus!BusTypeOK /\ Bus!AttrReaches
    OBVIOUS
  <1>1. ASSUME NEW e \in Changes, Bus!Settled(e), change[e].kind = "attr", NEW s \in due[e]
        PROVE  pushes[e][s] >= 1
    <2>1. ~Awaited(e, sockets[s], "global")
      BY <1>1 DEF Awaited, Bus!Settled
    <2>2. OwedNow
      BY DEF BusInv
    <2>3. QED
      BY <1>1, <2>1, <2>2 DEF OwedNow
  <1>2. \A e \in Changes, s \in Sockets : pushes[e][s] <= 1 + Cardinality(Subscriptions)
    BY DEF BusInv, PushesBounded
  <1>3. QED
    BY <1>1, <1>2, SameFinite DEF BusInv, Bus!AttrReaches, Bus!Reaches

\* A step of the bus keeps its types.
LEMMA BusTypeStep ==
  ASSUME BusInv, Bus!BusNext
  PROVE  Bus!BusTypeOK'
  <1>t. Bus!BusTypeOK
    BY DEF BusInv
  <1>c. CopiesOut
    BY DEF BusInv
  <1> USE <1>t, BusConstants DEF Bus!BusTypeOK, Bus!busVars, Bus!socketVars
  <1>1. ASSUME NEW s \in Sockets, NEW i \in Instances, Bus!Connect(s, i)
        PROVE  Bus!BusTypeOK'
    BY <1>1 DEF Bus!Connect
  <1>2. ASSUME NEW s \in Sockets, NEW p \in Players, Bus!BindPlayer(s, p)
        PROVE  Bus!BusTypeOK'
    BY <1>2 DEF Bus!BindPlayer, Bus!MapSocket
  <1>3. ASSUME NEW s \in Sockets, Bus!HandleDisconnect(s)
        PROVE  Bus!BusTypeOK'
    <2>1. sockets' \in [Sockets -> Instances \cup {Nobody, Gone}]
      BY <1>3 DEF Bus!HandleDisconnect
    <2>2. playerSocketMap' \in [Instances -> [Players -> Sockets \cup {Nobody}]]
      <3>1. CASE bound[s] = Nobody
        BY <1>3, <3>1 DEF Bus!HandleDisconnect
      <3>2. CASE bound[s] \in Players
        <4>1. sockets[s] \in Instances
          BY <1>3 DEF Bus!HandleDisconnect
        <4>2. playerSocketMap' = [playerSocketMap EXCEPT ![sockets[s]][bound[s]] = Nobody]
          BY <1>3, <3>2 DEF Bus!HandleDisconnect, Bus!MapSocket
        <4>3. QED
          BY <4>1, <4>2
      <3>3. QED
        BY <3>1, <3>2
    <2>3. due' \in [Changes -> SUBSET Sockets]
      BY <1>3 DEF Bus!HandleDisconnect
    <2>4. QED
      BY <1>3, <2>1, <2>2, <2>3 DEF Bus!HandleDisconnect
  <1>4. ASSUME NEW i \in Instances, NEW p \in Players, NEW n \in Subscriptions,
               NEW t \in Bus!Kinds \cup {"any"}, Bus!SubscribePlayer(i, p, n, t)
        PROVE  Bus!BusTypeOK'
    <2> DEFINE h == [channel |-> p, id |-> n, type |-> t]
    <2>1. h \in Bus!Handlers
      BY DEF Bus!Handlers, Bus!Channels
    <2>2. handlers' \in [Instances -> SUBSET Bus!Handlers]
      BY <1>4, <2>1 DEF Bus!SubscribePlayer, Bus!Subscribe
    <2>3. commands' \subseteq [to : Instances, channel : Bus!Channels]
      <3>1. commands' \subseteq commands \cup {[to |-> i, channel |-> p]}
        BY <1>4 DEF Bus!SubscribePlayer, Bus!Subscribe
      <3>2. QED
        BY <3>1 DEF Bus!Channels
    <2>4. QED
      BY <1>4, <2>2, <2>3 DEF Bus!SubscribePlayer
  <1>5. ASSUME NEW c \in commands, Bus!CommandArrives(c) \/ Bus!CommandFails(c)
        PROVE  Bus!BusTypeOK'
    <2>1. CASE Bus!CommandArrives(c)
      BY <2>1 DEF Bus!CommandArrives
    <2>2. CASE Bus!CommandFails(c)
      BY <2>2 DEF Bus!CommandFails
    <2>3. QED
      BY <1>5, <2>1, <2>2
  <1>51. ASSUME NEW i \in Instances, Bus!SubscriberLost(i)
         PROVE  Bus!BusTypeOK'
    <2>1. /\ commands' \subseteq [to : Instances, channel : Bus!Channels]
          /\ redisSubs' \in [Instances -> SUBSET Bus!Channels]
          /\ copies' \subseteq copies
          /\ due' \in [Changes -> SUBSET Sockets]
      BY <1>51 DEF Bus!SubscriberLost
    <2>2. UNCHANGED <<handlers, change, sockets, bound, playerSocketMap, pushes>>
      BY <1>51 DEF Bus!SubscriberLost
    <2>3. QED
      BY <2>1, <2>2
  <1>6. ASSUME NEW e \in Changes, NEW k \in Bus!Kinds, NEW p \in Players,
               Bus!Notify(e, k, p) \/ Bus!Emit(e, k, p)
        PROVE  Bus!BusTypeOK'
    <2>1. ASSUME NEW todo \in SUBSET Bus!Channels, Bus!Announce(e, k, p, todo)
          PROVE  Bus!BusTypeOK'
      <3>1. change' \in [Changes -> Bus!Change \cup {Nobody}]
        <4>1. [kind |-> k, player |-> p, todo |-> todo] \in Bus!Change
          BY DEF Bus!Change
        <4>2. QED
          BY <2>1, <4>1 DEF Bus!Announce
      <3>2. due' \in [Changes -> SUBSET Sockets]
        BY <2>1 DEF Bus!Announce, Bus!Owed
      <3>3. QED
        BY <2>1, <3>1, <3>2 DEF Bus!Announce
    <2>2. QED
      BY <1>6, <2>1 DEF Bus!Notify, Bus!Emit, Bus!ChannelsOf, Bus!Channels
  <1>n. ASSUME NEW e \in Changes, NEW c, change[e] # Nobody,
               change' = [change EXCEPT ![e].todo = @ \ {c}]
        PROVE  change' \in [Changes -> Bus!Change \cup {Nobody}]
    <2> DEFINE d == [change[e] EXCEPT !.todo = @ \ {c}]
    <2>1. d \in Bus!Change
      <3>1. change[e] \in Bus!Change
        BY <1>n
      <3>2. QED
        BY <3>1 DEF Bus!Change
    <2>2. change' = [change EXCEPT ![e] = d]
      BY <1>n
    <2> HIDE DEF d
    <2>3. QED
      BY <2>1, <2>2
  <1>7. ASSUME NEW e \in Changes, NEW c \in Bus!Channels, Bus!Publish(e, c)
        PROVE  Bus!BusTypeOK'
    <2>1. change' \in [Changes -> Bus!Change \cup {Nobody}]
      BY <1>7, <1>n DEF Bus!Publish
    <2>2. copies' \subseteq [change : Changes, to : Instances, channel : Bus!Channels]
      BY <1>7 DEF Bus!Publish
    <2>3. QED
      BY <1>7, <2>1, <2>2 DEF Bus!Publish
  <1>8. ASSUME NEW e \in Changes, NEW c \in Bus!Channels, Bus!PublishFails(e, c)
        PROVE  Bus!BusTypeOK'
    <2>1. change' \in [Changes -> Bus!Change \cup {Nobody}]
      BY <1>8, <1>n DEF Bus!PublishFails
    <2>2. QED
      BY <1>8, <2>1 DEF Bus!PublishFails
  <1>9. ASSUME NEW m \in copies, Bus!Deliver(m)
        PROVE  Bus!BusTypeOK'
    <2>1. Bus!Cardinality(Bus!Passing(m)) \in Nat
      BY PassingBounds, SameFinite
    <2> DEFINE s == playerSocketMap[m.to][change[m.change].player]
    <2>2. /\ UNCHANGED <<commands, redisSubs, handlers, change, sockets, bound,
                         playerSocketMap, due>>
          /\ copies' \subseteq copies
      BY <1>9 DEF Bus!Deliver
    <2>3. CASE s # Nobody /\ pushes' # pushes
      <3>1. m.to \in Instances /\ m.change \in Changes /\ change[m.change].player \in Players
        BY <1>c DEF CopiesOut, Bus!Change
      <3>2. s \in Sockets
        BY <2>3, <3>1
      <3>3. pushes' = [pushes EXCEPT ![m.change][s] = @ + Bus!Cardinality(Bus!Passing(m))]
        BY <1>9, <2>3 DEF Bus!Deliver
      <3> HIDE DEF s
      <3>4. pushes' \in [Changes -> [Sockets -> Nat]]
        BY <2>1, <3>1, <3>2, <3>3
      <3>5. QED
        BY <2>2, <3>4
    <2>4. s # Nobody \/ pushes' = pushes
      BY <1>9 DEF Bus!Deliver
    <2>5. QED
      BY <2>2, <2>3, <2>4
  <1>10. QED
    <2> HIDE DEF BusInv, Bus!BusTypeOK
    <2>1. CASE \E s \in Sockets : \/ \E i \in Instances : Bus!Connect(s, i)
                                  \/ \E p \in Players : Bus!BindPlayer(s, p)
                                  \/ Bus!HandleDisconnect(s)
      BY <1>1, <1>2, <1>3, <2>1
    <2>2. CASE \/ \E c \in commands : Bus!CommandArrives(c) \/ Bus!CommandFails(c)
               \/ \E i \in Instances : Bus!SubscriberLost(i)
      BY <1>5, <1>51, <2>2
    <2>3. CASE \E e \in Changes :
                 \/ \E k \in Bus!Kinds, p \in Players : Bus!Notify(e, k, p) \/ Bus!Emit(e, k, p)
                 \/ \E c \in Bus!Channels : Bus!Publish(e, c) \/ Bus!PublishFails(e, c)
      BY <1>6, <1>7, <1>8, <2>3
    <2>4. QED
      BY <1>4, <1>9, <2>1, <2>2, <2>3 DEF Bus!BusNext

\* The handlers, the copies and the player map after a step of the bus.
LEMMA ListeningStep ==
  ASSUME BusInv, NEW i \in Instances, NEW p \in Players, NEW n \in Subscriptions,
         NEW t \in Bus!Kinds \cup {"any"}, Bus!SubscribePlayer(i, p, n, t)
  PROVE  Listening'
  <1> DEFINE h == [channel |-> p, id |-> n, type |-> t]
  <1>1. /\ handlers' = [handlers EXCEPT ![i] = @ \cup {h}]
        /\ \A j \in Instances : \A g \in handlers[j] : g.id # n
    BY DEF Bus!SubscribePlayer, Bus!Subscribe
  <1>2. h.channel # "global" /\ h.id = n
    BY BusConstants
  <1> HIDE DEF h
  <1> USE DEF BusInv, Bus!BusTypeOK, Listening
  <1>3. \A j \in Instances : handlers'[j] = IF j = i THEN handlers[i] \cup {h} ELSE handlers[j]
    BY <1>1
  <1>4. \A j \in Instances : IsFiniteSet(handlers'[j])
    <2>1. \A j \in Instances : IsFiniteSet(handlers[j])
      OBVIOUS
    <2>2. IsFiniteSet(handlers[i] \cup {h})
      BY <2>1, FS_AddElement
    <2>3. QED
      BY <1>3, <2>1, <2>2
  <1>5. ASSUME NEW j \in Instances
        PROVE  /\ BusHandler \in handlers'[j]
               /\ \A g \in handlers'[j] : g.channel = "global" => g = BusHandler
               /\ \A g \in handlers'[j] : g.channel # "global" => g.id \in Subscriptions
               /\ \A f, g \in handlers'[j] : f.id = g.id => f = g
    BY <1>1, <1>2, <1>3
  <1>6. QED
    BY <1>4, <1>5

LEMMA ChangeKept ==
  ASSUME BusInv, NEW e \in Changes, NEW c \in Bus!Channels,
         Bus!Publish(e, c) \/ Bus!PublishFails(e, c), NEW f \in Changes
  PROVE  /\ change[f] = Nobody => change'[f] = change[f]
         /\ change[f] # Nobody =>
              /\ change'[f] # Nobody /\ change'[f].player = change[f].player
              /\ change'[f].todo \subseteq change[f].todo
  <1>1. change[e] \in Bus!Change /\ change' = [change EXCEPT ![e].todo = @ \ {c}]
    BY DEF BusInv, Bus!BusTypeOK, Bus!Publish, Bus!PublishFails
  <1>2. /\ change'[e] \in Bus!Change /\ change'[e].player = change[e].player
        /\ change'[e].todo \subseteq change[e].todo
    BY <1>1 DEF BusInv, Bus!BusTypeOK, Bus!Change
  <1>3. f # e => change'[f] = change[f]
    BY <1>1 DEF BusInv, Bus!BusTypeOK
  <1>4. QED
    BY <1>1, <1>2, <1>3, BusConstants

LEMMA CopiesStep ==
  ASSUME BusInv, NEW e \in Changes, NEW c \in Bus!Channels, Bus!Publish(e, c)
  PROVE  CopiesOut'
  <1> USE DEF BusInv, Bus!BusTypeOK, CopiesOut
  <1>1. /\ change[e] \in Bus!Change /\ change' = [change EXCEPT ![e].todo = @ \ {c}]
        /\ \A m \in copies' : m \in copies \/ (m.change = e /\ m.channel = c)
    BY DEF Bus!Publish
  <1>2. change'[e] \in Bus!Change /\ change'[e].todo = change[e].todo \ {c}
    BY <1>1 DEF Bus!Change
  <1>3. \A f \in Changes : f # e => change'[f] = change[f]
    BY <1>1
  <1>4. \A m \in copies : m.change \in Changes
    OBVIOUS
  <1>5. \A f \in Changes :
          /\ change'[f] # Nobody => change[f] # Nobody
          /\ change[f] # Nobody =>
               /\ change'[f] # Nobody /\ change'[f].player = change[f].player
               /\ change'[f].todo \subseteq change[f].todo
    BY ChangeKept
  <1>6. change[e] # Nobody /\ c \in {"global", change[e].player}
    BY DEF Bus!Publish
  <1>7. \A f \in Changes : change'[f] # Nobody =>
          change'[f].todo \subseteq {"global", change'[f].player}
    BY <1>5
  <1>8. ASSUME NEW m \in copies'
        PROVE  /\ change'[m.change] # Nobody /\ m.channel \notin change'[m.change].todo
               /\ m.channel \in {"global", change'[m.change].player}
    <2>1. CASE m \in copies
      BY <1>4, <1>5, <2>1
    <2>2. CASE m.change = e /\ m.channel = c
      BY <1>1, <1>2, <1>5, <1>6, <2>2
    <2>3. QED
      BY <1>1, <2>1, <2>2
  <1>9. QED
    BY <1>7, <1>8

LEMMA HomesStep ==
  ASSUME BusInv, NEW s \in Sockets,
         \/ \E i \in Instances : Bus!Connect(s, i)
         \/ \E p \in Players : Bus!BindPlayer(s, p)
         \/ Bus!HandleDisconnect(s)
  PROVE  Homes'
  <1> USE BusConstants DEF BusInv, Bus!BusTypeOK, Homes
  <1>1. CASE \E i \in Instances : Bus!Connect(s, i)
    BY <1>1 DEF Bus!Connect
  <1>2. CASE \E p \in Players : Bus!BindPlayer(s, p)
    BY <1>2 DEF Bus!BindPlayer, Bus!MapSocket
  <1>3. CASE Bus!HandleDisconnect(s)
    <2>1. sockets' = [sockets EXCEPT ![s] = Gone]
      BY <1>3 DEF Bus!HandleDisconnect
    <2>2. \A i \in Instances, q \in Players :
            playerSocketMap'[i][q] \in {playerSocketMap[i][q], Nobody}
      <3>1. CASE bound[s] = Nobody
        BY <1>3, <3>1 DEF Bus!HandleDisconnect
      <3>2. CASE bound[s] \in Players
        <4>1. playerSocketMap' = [playerSocketMap EXCEPT ![sockets[s]][bound[s]] = Nobody]
          BY <1>3, <3>2 DEF Bus!HandleDisconnect, Bus!MapSocket
        <4>2. QED
          BY <4>1
      <3>3. QED
        BY <3>1, <3>2
    <2>3. \A i \in Instances, q \in Players : playerSocketMap[i][q] \in Sockets \cup {Nobody}
      OBVIOUS
    <2>4. \A o \in Sockets : sockets'[o] \in {sockets[o], Gone}
      BY <2>1
    <2>5. ASSUME NEW i \in Instances, NEW q \in Players, playerSocketMap'[i][q] # Nobody
          PROVE  sockets'[playerSocketMap'[i][q]] \in {i, Gone}
      <3>1. playerSocketMap'[i][q] = playerSocketMap[i][q]
        BY <2>2, <2>5
      <3>2. sockets[playerSocketMap[i][q]] \in {i, Gone} /\ playerSocketMap[i][q] \in Sockets
        BY <2>3, <2>5, <3>1
      <3>3. QED
        BY <2>4, <3>1, <3>2
    <2>6. QED
      BY <2>5
  <1>4. QED
    BY <1>1, <1>2, <1>3

\* Nothing that a step does but the announcement makes a copy awaited that was
\* not, and what stops being awaited was published where the channel is not
\* heard, failed, or was delivered.
LEMMA AwaitedStep ==
  ASSUME BusInv, NEW e \in Changes, NEW c \in Bus!Channels, Bus!Publish(e, c),
         NEW f \in Changes, NEW i \in Instances, NEW d \in Bus!Channels, change[f] # Nobody
  PROVE  /\ change'[f].kind = change[f].kind /\ change'[f].player = change[f].player
         /\ change'[f] # Nobody
         /\ Awaited(f, i, d)' => Awaited(f, i, d)
         /\ Awaited(f, i, d) /\ d \in redisSubs[i] => Awaited(f, i, d)'
  <1> USE DEF BusInv, Bus!BusTypeOK
  <1>1. /\ change[e] \in Bus!Change /\ c \in change[e].todo
        /\ change' = [change EXCEPT ![e].todo = @ \ {c}]
        /\ copies' = copies \cup {[change |-> e, to |-> j, channel |-> c] :
                                    j \in {j \in Instances : c \in redisSubs[j]}}
    BY DEF Bus!Publish
  <1>2. f # e => change'[f] = change[f]
    BY <1>1
  <1>3. /\ change'[e] \in Bus!Change /\ change'[e].todo = change[e].todo \ {c}
        /\ change'[e].kind = change[e].kind /\ change'[e].player = change[e].player
    BY <1>1 DEF Bus!Change
  <1> DEFINE m == [change |-> f, to |-> i, channel |-> d]
             New == {[change |-> e, to |-> j, channel |-> c] :
                       j \in {j \in Instances : c \in redisSubs[j]}}
  <1>4. m \in New <=> f = e /\ d = c /\ c \in redisSubs[i]
    <2>1. ASSUME m \in New PROVE f = e /\ d = c /\ c \in redisSubs[i]
      <3>1. PICK j \in Instances : c \in redisSubs[j] /\ m = [change |-> e, to |-> j, channel |-> c]
        BY <2>1
      <3>2. m.change = e /\ m.to = j /\ m.channel = c
        BY <3>1
      <3>3. QED
        BY <3>1, <3>2
    <2>2. QED
      BY <2>1
  <1>5. /\ change'[f].kind = change[f].kind /\ change'[f].player = change[f].player
        /\ change'[f] # Nobody
        /\ d \in change'[f].todo <=> d \in change[f].todo /\ ~(f = e /\ d = c)
    BY <1>2, <1>3, BusConstants
  <1>6. m \in copies' <=> m \in copies \/ (f = e /\ d = c /\ c \in redisSubs[i])
    BY <1>1, <1>4
  <1>7. /\ Awaited(f, i, d)' <=> d \in change'[f].todo \/ m \in copies'
        /\ Awaited(f, i, d) <=> d \in change[f].todo \/ m \in copies
    BY DEF Awaited
  <1> HIDE DEF m
  <1>8. QED
    BY <1>1, <1>5, <1>6, <1>7

LEMMA FailedStep ==
  ASSUME BusInv, NEW e \in Changes, NEW c \in Bus!Channels, Bus!PublishFails(e, c),
         NEW f \in Changes, NEW i \in Instances, NEW d \in Bus!Channels, change[f] # Nobody
  PROVE  /\ change'[f].kind = change[f].kind /\ change'[f].player = change[f].player
         /\ change'[f] # Nobody
         /\ Awaited(f, i, d)' => Awaited(f, i, d)
         /\ f # e => (Awaited(f, i, d) <=> Awaited(f, i, d)')
  <1> USE DEF BusInv, Bus!BusTypeOK
  <1>1. /\ change[e] \in Bus!Change /\ c \in change[e].todo
        /\ change' = [change EXCEPT ![e].todo = @ \ {c}] /\ copies' = copies
    BY DEF Bus!PublishFails
  <1>2. f # e => change'[f] = change[f]
    BY <1>1
  <1>3. /\ change'[e] \in Bus!Change /\ change'[e].todo = change[e].todo \ {c}
        /\ change'[e].kind = change[e].kind /\ change'[e].player = change[e].player
    BY <1>1 DEF Bus!Change
  <1>4. QED
    BY <1>1, <1>2, <1>3, BusConstants DEF Awaited

LEMMA DeliveredStep ==
  ASSUME BusInv, NEW m \in copies, Bus!Deliver(m),
         NEW f \in Changes, NEW i \in Instances, NEW d \in Bus!Channels
  PROVE  Awaited(f, i, d)' <=> /\ Awaited(f, i, d)
                               /\ ~(f = m.change /\ i = m.to /\ d = m.channel)
  <1> DEFINE n == [change |-> f, to |-> i, channel |-> d]
  <1>1. change' = change /\ copies' = copies \ {m}
    BY DEF Bus!Deliver
  <1>2. m \in [change : Changes, to : Instances, channel : Bus!Channels]
    BY DEF BusInv, Bus!BusTypeOK
  <1>3. n = m <=> f = m.change /\ i = m.to /\ d = m.channel
    BY <1>2
  <1>4. m.channel \notin change[m.change].todo
    BY DEF BusInv, CopiesOut
  <1>5. /\ Awaited(f, i, d)' <=> d \in change'[f].todo \/ n \in copies'
        /\ Awaited(f, i, d) <=> d \in change[f].todo \/ n \in copies
    BY DEF Awaited
  <1> HIDE DEF n
  <1>6. QED
    BY <1>1, <1>3, <1>4, <1>5

\* A delivery pushes on the instance it went to.
LEMMA DeliveredPushes ==
  ASSUME BusInv, NEW m \in copies, Bus!Deliver(m), NEW f \in Changes, NEW o \in Sockets
  PROVE  /\ \/ pushes'[f][o] = pushes[f][o]
            \/ /\ f = m.change /\ sockets[o] = m.to
               /\ pushes'[f][o] = pushes[f][o] + Cardinality(Bus!Passing(m))
         /\ f = m.change /\ sockets[o] = m.to /\ playerSocketMap[m.to][change[f].player] = o
              => pushes'[f][o] = pushes[f][o] + Cardinality(Bus!Passing(m))
  <1> USE DEF BusInv, Bus!BusTypeOK
  <1> DEFINE s == playerSocketMap[m.to][change[m.change].player]
  <1>1. /\ m.to \in Instances /\ m.change \in Changes /\ change[m.change].player \in Players
        /\ change[m.change] # Nobody
    BY DEF CopiesOut, Bus!Change
  <1>2. s \in Sockets \cup {Nobody}
    BY <1>1
  <1>3. s # Nobody => sockets[s] \in {m.to, Gone}
    BY <1>1 DEF Homes
  <1>4. pushes' = IF s = Nobody \/ sockets[s] = Gone THEN pushes
                  ELSE [pushes EXCEPT ![m.change][s] = @ + Cardinality(Bus!Passing(m))]
    BY SameFinite DEF Bus!Deliver
  <1>5. f = m.change /\ sockets[o] = m.to /\ playerSocketMap[m.to][change[f].player] = o
          => s = o /\ s # Nobody /\ sockets[s] # Gone
    BY <1>1, BusConstants
  <1> HIDE DEF s
  <1>6. CASE s = Nobody \/ sockets[s] = Gone
    BY <1>4, <1>5, <1>6
  <1>7. CASE s \in Sockets /\ sockets[s] = m.to
    <2>1. pushes' = [pushes EXCEPT ![m.change][s] = @ + Cardinality(Bus!Passing(m))]
      BY <1>1, <1>2, <1>4, <1>7, BusConstants
    <2>2. CASE f = m.change /\ o = s
      BY <1>1, <1>7, <2>1, <2>2
    <2>3. CASE ~(f = m.change /\ o = s)
      <3>1. pushes'[f][o] = pushes[f][o]
        BY <1>1, <1>7, <2>1, <2>3
      <3>2. QED
        BY <1>5, <2>3, <3>1
    <2>4. QED
      BY <2>2, <2>3
  <1>8. QED
    BY <1>2, <1>3, <1>6, <1>7

\* What is spent grows when less is awaited.
LEMMA SpentGrows ==
  ASSUME NEW f, NEW i, change'[f].player = change[f].player,
         Awaited(f, i, "global")' => Awaited(f, i, "global"),
         Awaited(f, i, change[f].player)' => Awaited(f, i, change[f].player)
  PROVE  Spent(f, i) \in Nat /\ Spent(f, i)' \in Nat /\ Spent(f, i) <= Spent(f, i)'
  <1> DEFINE N == Cardinality(Subscriptions)
             p == change[f].player
  <1>1. N \in Nat
    BY BusConstants
  <1>2. /\ Spent(f, i) = (IF Awaited(f, i, "global") THEN 0 ELSE 1)
                           + (IF Awaited(f, i, p) THEN 0 ELSE N)
        /\ Spent(f, i)' = (IF Awaited(f, i, "global")' THEN 0 ELSE 1)
                            + (IF Awaited(f, i, p)' THEN 0 ELSE N)
    BY DEF Spent
  <1> HIDE DEF N
  <1>3. QED
    BY <1>1, <1>2

\* The awaited copies stay the same where changes and copies do.
LEMMA AwaitedKept ==
  ASSUME NEW f, NEW i, NEW d, change'[f] = change[f], copies' = copies
  PROVE  Awaited(f, i, d)' <=> Awaited(f, i, d)
  BY DEF Awaited

\* A change is announced once, to the sockets that are bound then.
LEMMA AnnouncedStep ==
  ASSUME BusInv, NEW e \in Changes, NEW k \in Bus!Kinds, NEW p \in Players,
         Bus!Notify(e, k, p) \/ Bus!Emit(e, k, p)
  PROVE  /\ change[e] = Nobody /\ change'[e] \in Bus!Change /\ change'[e].player = p
         /\ change'[e].kind = "attr" => "global" \in change'[e].todo
         /\ change'[e].todo \subseteq {"global", p}
         /\ \A f \in Changes : f # e => change'[f] = change[f] /\ due'[f] = due[f]
         /\ due'[e] = Bus!Owed(p)
         /\ UNCHANGED <<redisSubs, handlers, copies, sockets, bound, playerSocketMap, pushes>>
  <1>1. ASSUME NEW todo \in SUBSET Bus!Channels, Bus!Announce(e, k, p, todo),
               k = "attr" => "global" \in todo, todo \subseteq {"global", p}
        PROVE  /\ change[e] = Nobody /\ change'[e] \in Bus!Change /\ change'[e].player = p
               /\ change'[e].kind = "attr" => "global" \in change'[e].todo
               /\ change'[e].todo \subseteq {"global", p}
               /\ \A f \in Changes : f # e => change'[f] = change[f] /\ due'[f] = due[f]
               /\ due'[e] = Bus!Owed(p)
               /\ UNCHANGED <<redisSubs, handlers, copies, sockets, bound, playerSocketMap, pushes>>
    <2>1. /\ change[e] = Nobody
          /\ change' = [change EXCEPT ![e] = [kind |-> k, player |-> p, todo |-> todo]]
          /\ due' = [due EXCEPT ![e] = Bus!Owed(p)]
          /\ UNCHANGED <<redisSubs, handlers, copies, sockets, bound, playerSocketMap, pushes>>
      BY <1>1 DEF Bus!Announce, Bus!socketVars
    <2>2. change'[e] = [kind |-> k, player |-> p, todo |-> todo]
      BY <2>1 DEF BusInv, Bus!BusTypeOK
    <2>3. change'[e] \in Bus!Change
      BY <2>2 DEF Bus!Change
    <2>4. QED
      BY <1>1, <2>1, <2>2, <2>3 DEF BusInv, Bus!BusTypeOK
  <1>2. QED
    BY <1>1 DEF Bus!Notify, Bus!Emit, Bus!ChannelsOf, Bus!Channels

\* What holds of a change and a socket it is owed to, and of any socket.
OwedTo(e, s) ==
  /\ change[e] # Nobody
  /\ sockets[s] \in Instances /\ playerSocketMap[sockets[s]][change[e].player] = s
  /\ "global" \in redisSubs[sockets[s]]
  /\ change[e].kind = "attr" => pushes[e][s] >= 1 \/ Awaited(e, sockets[s], "global")

PushedTo(e, s) ==
  /\ change[e] = Nobody \/ sockets[s] = Nobody => pushes[e][s] = 0
  /\ change[e] # Nobody /\ sockets[s] \in Instances => pushes[e][s] <= Spent(e, sockets[s])
  /\ pushes[e][s] <= 1 + Cardinality(Subscriptions)

LEMMA OwedStep ==
  ASSUME BusInv, Bus!BusNext, NEW e \in Changes, NEW s \in due'[e]
  PROVE  OwedTo(e, s)'
  <1> USE BusConstants DEF BusInv, Bus!BusTypeOK
  <1>1. \A o \in due[e] : OwedTo(e, o) /\ o \in Sockets
    BY DEF OwedNow, OwedTo
  <1>2. \A o \in due[e] : change[e].player \in Players
    BY <1>1 DEF OwedTo, Bus!Change
  <1>3. ASSUME NEW o \in Sockets, NEW i \in Instances, Bus!Connect(o, i)
        PROVE  OwedTo(e, s)'
    <2>1. s \in due[e] /\ s # o
      BY <1>1, <1>3 DEF Bus!Connect, OwedTo
    <2>2. sockets'[s] = sockets[s]
      BY <1>1, <1>3, <2>1 DEF Bus!Connect
    <2>3. UNCHANGED <<change, copies, redisSubs, playerSocketMap, pushes>>
      BY <1>3 DEF Bus!Connect, Bus!busVars
    <2>4. QED
      BY <1>1, <2>1, <2>2, <2>3, AwaitedKept DEF OwedTo
  <1>4. ASSUME NEW o \in Sockets, NEW p \in Players, Bus!BindPlayer(o, p)
        PROVE  OwedTo(e, s)'
    <2>1. UNCHANGED <<change, copies, redisSubs, sockets, pushes>>
      BY <1>4 DEF Bus!BindPlayer, Bus!busVars
    <2>2. /\ sockets[o] \in Instances
          /\ playerSocketMap' = [playerSocketMap EXCEPT ![sockets[o]][p] = o]
      BY <1>4 DEF Bus!BindPlayer, Bus!MapSocket
    <2>3. s \in due[e] /\ (change[e].player # p \/ s = o \/ sockets[s] # sockets[o])
      BY <1>1, <1>2, <1>4 DEF Bus!BindPlayer, OwedTo
    <2>4. playerSocketMap'[sockets[s]][change[e].player] = s
      BY <1>1, <1>2, <2>2, <2>3 DEF OwedTo
    <2>5. QED
      BY <1>1, <2>1, <2>3, <2>4, AwaitedKept DEF OwedTo
  <1>5. ASSUME NEW o \in Sockets, Bus!HandleDisconnect(o)
        PROVE  OwedTo(e, s)'
    <2>1. UNCHANGED <<change, copies, redisSubs, pushes>>
      BY <1>5 DEF Bus!HandleDisconnect, Bus!busVars
    <2>2. /\ s \in due[e] /\ s # o
          /\ ~(sockets[s] = sockets[o] /\ bound[o] = change[e].player)
      BY <1>1, <1>2, <1>5 DEF Bus!HandleDisconnect, OwedTo
    <2>3. sockets'[s] = sockets[s]
      BY <1>1, <1>5, <2>2 DEF Bus!HandleDisconnect
    <2>4. playerSocketMap'[sockets[s]][change[e].player] = s
      <3>1. playerSocketMap[sockets[s]][change[e].player] = s /\ change[e].player \in Players
        BY <1>1, <1>2, <2>2 DEF OwedTo
      <3>2. CASE bound[o] = Nobody
        BY <1>5, <3>1, <3>2 DEF Bus!HandleDisconnect
      <3>3. CASE bound[o] \in Players
        <4>1. playerSocketMap' = [playerSocketMap EXCEPT ![sockets[o]][bound[o]] = Nobody]
          BY <1>5, <3>3 DEF Bus!HandleDisconnect, Bus!MapSocket
        <4>2. sockets[s] # sockets[o] \/ bound[o] # change[e].player
          BY <2>2
        <4>3. QED
          BY <1>1, <2>2, <3>1, <3>3, <4>1, <4>2 DEF OwedTo
      <3>4. QED
        BY <3>2, <3>3
    <2>5. QED
      BY <1>1, <1>2, <2>1, <2>2, <2>3, <2>4, AwaitedKept DEF OwedTo
  <1>6. ASSUME UNCHANGED <<change, copies, sockets, playerSocketMap, pushes, due>>,
               \A i \in Instances : redisSubs[i] \subseteq redisSubs'[i]
        PROVE  OwedTo(e, s)'
    BY <1>1, <1>6, AwaitedKept DEF OwedTo
  <1>7. ASSUME NEW i \in Instances, NEW p \in Players, NEW n \in Subscriptions,
               NEW t \in Bus!Kinds \cup {"any"}, Bus!SubscribePlayer(i, p, n, t)
        PROVE  OwedTo(e, s)'
    BY <1>6, <1>7 DEF Bus!SubscribePlayer, Bus!socketVars
  <1>8. ASSUME NEW c \in commands, Bus!CommandArrives(c) \/ Bus!CommandFails(c)
        PROVE  OwedTo(e, s)'
    <2>1. CASE Bus!CommandArrives(c)
      BY <1>6, <2>1 DEF Bus!CommandArrives, Bus!socketVars
    <2>2. CASE Bus!CommandFails(c)
      BY <1>6, <2>2 DEF Bus!CommandFails, Bus!socketVars
    <2>3. QED
      BY <1>8, <2>1, <2>2
  <1>81. ASSUME NEW i \in Instances, Bus!SubscriberLost(i)
         PROVE  OwedTo(e, s)'
    <2>1. /\ UNCHANGED <<change, sockets, playerSocketMap, pushes>>
          /\ s \in due[e] /\ sockets[s] # i
      BY <1>81 DEF Bus!SubscriberLost, Bus!socketVars
    <2>2. /\ OwedTo(e, s) /\ sockets[s] \in Instances
      BY <1>1, <2>1 DEF OwedTo
    <2>3. redisSubs'[sockets[s]] = redisSubs[sockets[s]]
      BY <1>81, <2>1, <2>2 DEF Bus!SubscriberLost
    <2>4. Awaited(e, sockets[s], "global") => Awaited(e, sockets[s], "global")'
      BY <1>81, <2>1 DEF Bus!SubscriberLost, Awaited
    <2> HIDE DEF BusInv, Bus!BusTypeOK
    <2>5. QED
      BY <2>1, <2>2, <2>3, <2>4 DEF OwedTo
  <1>9. ASSUME NEW f \in Changes, NEW k \in Bus!Kinds, NEW p \in Players,
               Bus!Notify(f, k, p) \/ Bus!Emit(f, k, p)
        PROVE  OwedTo(e, s)'
    <2>1. CASE e = f
      <3> HIDE DEF BusInv, Bus!BusTypeOK
      <3>1. /\ change'[e] # Nobody /\ change'[e].player = p
            /\ change'[e].kind = "attr" => "global" \in change'[e].todo
            /\ s \in Bus!Owed(p)
            /\ UNCHANGED <<redisSubs, sockets, playerSocketMap>>
        BY <1>9, <2>1, AnnouncedStep
      <3>2. QED
        BY <3>1 DEF Bus!Owed, OwedTo, Awaited
    <2>2. CASE e # f
      <3> HIDE DEF BusInv, Bus!BusTypeOK
      <3>1. /\ change'[e] = change[e] /\ s \in due[e]
            /\ UNCHANGED <<redisSubs, copies, sockets, playerSocketMap, pushes>>
        BY <1>9, <2>2, AnnouncedStep
      <3>2. QED
        BY <1>1, <3>1, AwaitedKept DEF OwedTo
    <2>3. QED
      BY <2>1, <2>2
  <1>10. ASSUME NEW f \in Changes, NEW c \in Bus!Channels, Bus!Publish(f, c)
         PROVE  OwedTo(e, s)'
    <2>1. s \in due[e] /\ UNCHANGED <<redisSubs, sockets, playerSocketMap, pushes>>
      BY <1>10 DEF Bus!Publish, Bus!socketVars
    <2>2. /\ change'[e].kind = change[e].kind /\ change'[e].player = change[e].player
          /\ change'[e] # Nobody
          /\ Awaited(e, sockets[s], "global") => Awaited(e, sockets[s], "global")'
      <3>1. /\ sockets[s] \in Instances /\ "global" \in redisSubs[sockets[s]]
            /\ change[e] # Nobody /\ "global" \in Bus!Channels
        BY <1>1, <2>1 DEF OwedTo, Bus!Channels
      <3>2. /\ change'[e].kind = change[e].kind /\ change'[e].player = change[e].player
            /\ change'[e] # Nobody
        BY <1>10, <3>1, AwaitedStep
      <3>3. ASSUME NEW i \in Instances, i = sockets[s]
            PROVE  Awaited(e, i, "global") => Awaited(e, i, "global")'
        BY <1>10, <3>1, <3>3, AwaitedStep
      <3>4. QED
        BY <2>1, <3>1, <3>2, <3>3
    <2>3. QED
      BY <1>1, <2>1, <2>2 DEF OwedTo
  <1>11. ASSUME NEW f \in Changes, NEW c \in Bus!Channels, Bus!PublishFails(f, c)
         PROVE  OwedTo(e, s)'
    <2>1. /\ due' = [due EXCEPT ![f] = {}]
          /\ UNCHANGED <<redisSubs, sockets, playerSocketMap, pushes>>
      BY <1>11 DEF Bus!PublishFails, Bus!socketVars
    <2>2. s \in due[e] /\ e # f
      BY <2>1
    <2>3. sockets[s] \in Instances /\ change[e] # Nobody /\ "global" \in Bus!Channels
      BY <1>1, <2>2 DEF OwedTo, Bus!Channels
    <2>4. /\ change'[e].kind = change[e].kind /\ change'[e].player = change[e].player
          /\ change'[e] # Nobody
          /\ Awaited(e, sockets[s], "global") <=> Awaited(e, sockets[s], "global")'
      <3>1. ASSUME NEW i \in Instances, i = sockets[s]
            PROVE  /\ change'[e].kind = change[e].kind /\ change'[e].player = change[e].player
                   /\ change'[e] # Nobody
                   /\ Awaited(e, i, "global") <=> Awaited(e, i, "global")'
        BY <1>11, <2>2, <2>3, FailedStep
      <3>2. QED
        BY <2>1, <2>3, <3>1
    <2>5. QED
      BY <1>1, <2>1, <2>2, <2>4 DEF OwedTo
  <1>12. ASSUME NEW m \in copies, Bus!Deliver(m)
         PROVE  OwedTo(e, s)'
    <2>1. s \in due[e] /\ UNCHANGED <<change, redisSubs, sockets, playerSocketMap>>
      BY <1>12 DEF Bus!Deliver, Bus!socketVars
    <2>2. /\ OwedTo(e, s) /\ s \in Sockets /\ sockets[s] \in Instances
          /\ pushes[e][s] \in Nat
      BY <1>1, <2>1 DEF OwedTo
    <2> HIDE DEF BusInv, Bus!BusTypeOK
    <2>21. Cardinality(Bus!Passing(m)) \in Nat
      BY PassingBounds
    <2>3. pushes'[e][s] \in Nat /\ pushes'[e][s] >= pushes[e][s]
      <3>1. \/ pushes'[e][s] = pushes[e][s]
            \/ pushes'[e][s] = pushes[e][s] + Cardinality(Bus!Passing(m))
        BY <1>12, <2>2, DeliveredPushes
      <3>2. QED
        BY <2>2, <2>21, <3>1
    <2>4. CASE e = m.change /\ sockets[s] = m.to /\ m.channel = "global"
      <3>1. Cardinality(Bus!Passing(m)) = 1
        BY <2>4, PassingBounds
      <3>11. playerSocketMap[m.to][change[e].player] = s
        BY <2>2, <2>4 DEF OwedTo
      <3>12. pushes'[e][s] = pushes[e][s] + 1
        BY <1>12, <2>2, <2>4, <3>1, <3>11, DeliveredPushes
      <3>2. pushes'[e][s] >= 1
        BY <2>2, <3>12
      <3>3. QED
        BY <2>1, <2>2, <3>2 DEF OwedTo
    <2>5. CASE ~(e = m.change /\ sockets[s] = m.to /\ m.channel = "global")
      <3>1. ASSUME NEW i \in Instances, i = sockets[s]
            PROVE  Awaited(e, i, "global")' <=> Awaited(e, i, "global")
        <4>1. "global" \in Bus!Channels
          BY DEF Bus!Channels
        <4>2. QED
          BY <1>12, <2>5, <3>1, <4>1, DeliveredStep
      <3>2. Awaited(e, sockets[s], "global")' <=> Awaited(e, sockets[s], "global")
        BY <2>1, <2>2, <3>1
      <3>3. QED
        BY <2>1, <2>2, <2>3, <3>2 DEF OwedTo
    <2>6. QED
      BY <2>4, <2>5
  <1>13. QED
    <2> HIDE DEF BusInv, Bus!BusTypeOK
    <2>1. CASE \E o \in Sockets : \/ \E i \in Instances : Bus!Connect(o, i)
                                  \/ \E p \in Players : Bus!BindPlayer(o, p)
                                  \/ Bus!HandleDisconnect(o)
      BY <1>3, <1>4, <1>5, <2>1
    <2>2. CASE \/ \E c \in commands : Bus!CommandArrives(c) \/ Bus!CommandFails(c)
               \/ \E i \in Instances : Bus!SubscriberLost(i)
      BY <1>8, <1>81, <2>2
    <2>3. CASE \E f \in Changes :
                 \/ \E k \in Bus!Kinds, p \in Players : Bus!Notify(f, k, p) \/ Bus!Emit(f, k, p)
                 \/ \E c \in Bus!Channels : Bus!Publish(f, c) \/ Bus!PublishFails(f, c)
      BY <1>9, <1>10, <1>11, <2>3
    <2>4. QED
      BY <1>7, <1>12, <2>1, <2>2, <2>3 DEF Bus!BusNext

LEMMA PushedStep ==
  ASSUME BusInv, Bus!BusNext, NEW e \in Changes, NEW s \in Sockets
  PROVE  PushedTo(e, s)'
  <1> USE BusConstants DEF BusInv, Bus!BusTypeOK
  <1>1. PushedTo(e, s) /\ pushes[e][s] \in Nat
    BY DEF PushesBounded, PushedTo
  <1>2. \A f, i : Spent(f, i) \in Nat
    BY DEF Spent
  \* Less is awaited, and nothing is pushed.
  <1>3. ASSUME \/ change'[e] = change[e]
               \/ change'[e] # Nobody /\ change[e] # Nobody /\ change'[e].player = change[e].player,
               sockets'[s] = sockets[s], pushes'[e][s] = pushes[e][s],
               \A i \in Instances, d \in Bus!Channels :
                 change[e] # Nobody => (Awaited(e, i, d)' => Awaited(e, i, d))
        PROVE  PushedTo(e, s)'
    <2>1. CASE change[e] # Nobody /\ sockets[s] \in Instances
      <3> DEFINE i == sockets[s]
      <3>1. change[e].player \in Bus!Channels /\ "global" \in Bus!Channels
        BY <2>1 DEF Bus!Change, Bus!Channels
      <3>2. i' = i /\ change'[e].player = change[e].player
        BY <1>3
      <3>3. Spent(e, i) <= Spent(e, i)' /\ Spent(e, i)' \in Nat
        <4>1. ASSUME NEW j \in Instances
              PROVE  Spent(e, j) <= Spent(e, j)' /\ Spent(e, j)' \in Nat
          <5>1. /\ Awaited(e, j, "global")' => Awaited(e, j, "global")
                /\ Awaited(e, j, change[e].player)' => Awaited(e, j, change[e].player)
            <6>1. ASSUME NEW d \in Bus!Channels, d = change[e].player
                  PROVE  Awaited(e, j, d)' => Awaited(e, j, d)
              BY <1>3, <2>1
            <6>2. QED
              BY <1>3, <2>1, <3>1, <3>2, <6>1
          <5>2. QED
            BY <3>2, <5>1, SpentGrows
        <4>2. QED
          BY <2>1, <3>2, <4>1
      <3>4. pushes[e][s] <= Spent(e, i)
        BY <1>1, <2>1 DEF PushedTo
      <3> HIDE DEF i
      <3>5. pushes'[e][s] <= Spent(e, i)'
        BY <1>1, <1>2, <1>3, <3>3, <3>4
      <3>6. QED
        BY <1>1, <1>3, <2>1, <3>5 DEF PushedTo, i
    <2>2. CASE ~(change[e] # Nobody /\ sockets[s] \in Instances)
      BY <1>1, <1>3, <2>2 DEF PushedTo
    <2>3. QED
      BY <2>1, <2>2
  \* No change and no copy moves.
  <1>4. ASSUME UNCHANGED <<change, copies, sockets, pushes>>
        PROVE  PushedTo(e, s)'
    BY <1>3, <1>4, AwaitedKept
  <1>5. ASSUME NEW o \in Sockets, NEW i \in Instances, Bus!Connect(o, i)
        PROVE  PushedTo(e, s)'
    <2>1. /\ sockets[o] = Nobody /\ sockets' = [sockets EXCEPT ![o] = i]
          /\ UNCHANGED <<change, copies, pushes>>
      BY <1>5 DEF Bus!Connect, Bus!busVars
    <2>2. CASE s = o
      <3>1. pushes'[e][s] = 0
        BY <1>1, <2>1, <2>2 DEF PushedTo
      <3>2. Spent(e, sockets[s])' \in Nat
        BY DEF Spent
      <3>3. QED
        BY <3>1, <3>2 DEF PushedTo
    <2>3. CASE s # o
      BY <1>3, <2>1, <2>3, AwaitedKept
    <2>4. QED
      BY <2>2, <2>3
  <1>6. ASSUME NEW o \in Sockets, NEW p \in Players, Bus!BindPlayer(o, p)
        PROVE  PushedTo(e, s)'
    BY <1>4, <1>6 DEF Bus!BindPlayer, Bus!busVars
  <1>7. ASSUME NEW o \in Sockets, Bus!HandleDisconnect(o)
        PROVE  PushedTo(e, s)'
    <2>1. /\ sockets[o] \in Instances /\ sockets' = [sockets EXCEPT ![o] = Gone]
          /\ UNCHANGED <<change, copies, pushes>>
      BY <1>7 DEF Bus!HandleDisconnect, Bus!busVars
    <2>2. CASE s = o
      <3>1. sockets'[s] = Gone
        BY <2>1, <2>2
      <3>2. QED
        BY <1>1, <2>1, <2>2, <3>1 DEF PushedTo
    <2>3. CASE s # o
      BY <1>3, <2>1, <2>3, AwaitedKept
    <2>4. QED
      BY <2>2, <2>3
  <1>8. ASSUME NEW i \in Instances, NEW p \in Players, NEW n \in Subscriptions,
               NEW t \in Bus!Kinds \cup {"any"}, Bus!SubscribePlayer(i, p, n, t)
        PROVE  PushedTo(e, s)'
    BY <1>4, <1>8 DEF Bus!SubscribePlayer, Bus!socketVars
  <1>9. ASSUME NEW c \in commands, Bus!CommandArrives(c) \/ Bus!CommandFails(c)
        PROVE  PushedTo(e, s)'
    <2>1. CASE Bus!CommandArrives(c)
      BY <1>4, <2>1 DEF Bus!CommandArrives, Bus!socketVars
    <2>2. CASE Bus!CommandFails(c)
      BY <1>4, <2>2 DEF Bus!CommandFails, Bus!socketVars
    <2>3. QED
      BY <1>9, <2>1, <2>2
  <1>91. ASSUME NEW i \in Instances, Bus!SubscriberLost(i)
         PROVE  PushedTo(e, s)'
    <2>1. UNCHANGED <<change, sockets, pushes>> /\ copies' \subseteq copies
      BY <1>91 DEF Bus!SubscriberLost, Bus!socketVars
    <2>2. \A j \in Instances, d \in Bus!Channels : Awaited(e, j, d)' => Awaited(e, j, d)
      BY <2>1 DEF Awaited
    <2>3. QED
      BY <1>3, <2>1, <2>2
  <1>10. ASSUME NEW f \in Changes, NEW k \in Bus!Kinds, NEW p \in Players,
                Bus!Notify(f, k, p) \/ Bus!Emit(f, k, p)
         PROVE  PushedTo(e, s)'
    <2>1. CASE e = f
      <3>1. change[e] = Nobody /\ UNCHANGED <<sockets, pushes>>
        <4> HIDE DEF BusInv, Bus!BusTypeOK
        <4>1. QED
          BY <1>10, <2>1, AnnouncedStep
      <3>2. pushes'[e][s] = 0
        BY <1>1, <3>1 DEF PushedTo
      <3>3. Spent(e, sockets[s])' \in Nat
        BY DEF Spent
      <3>4. QED
        BY <3>2, <3>3 DEF PushedTo
    <2>2. CASE e # f
      <3> HIDE DEF BusInv, Bus!BusTypeOK
      <3>1. change'[e] = change[e] /\ UNCHANGED <<copies, sockets, pushes>>
        BY <1>10, <2>2, AnnouncedStep
      <3>2. QED
        BY <1>3, <3>1, AwaitedKept
    <2>3. QED
      BY <2>1, <2>2
  <1>11. ASSUME NEW f \in Changes, NEW c \in Bus!Channels,
                Bus!Publish(f, c) \/ Bus!PublishFails(f, c)
         PROVE  PushedTo(e, s)'
    <2>1. UNCHANGED <<sockets, pushes>>
      <3>1. CASE Bus!Publish(f, c)
        BY <3>1 DEF Bus!Publish, Bus!socketVars
      <3>2. CASE Bus!PublishFails(f, c)
        BY <3>2 DEF Bus!PublishFails, Bus!socketVars
      <3>3. QED
        BY <1>11, <3>1, <3>2
    <2>2. /\ change[e] = Nobody => change'[e] = change[e]
          /\ change[e] # Nobody =>
               change'[e] # Nobody /\ change'[e].player = change[e].player
      BY <1>11, ChangeKept
    <2>3. ASSUME NEW i \in Instances, NEW d \in Bus!Channels, change[e] # Nobody
          PROVE  Awaited(e, i, d)' => Awaited(e, i, d)
      <3>1. CASE Bus!Publish(f, c)
        BY <2>3, <3>1, AwaitedStep
      <3>2. CASE Bus!PublishFails(f, c)
        BY <2>3, <3>2, FailedStep
      <3>3. QED
        BY <1>11, <3>1, <3>2
    <2>4. QED
      BY <1>3, <2>1, <2>2, <2>3
  <1>12. ASSUME NEW m \in copies, Bus!Deliver(m)
         PROVE  PushedTo(e, s)'
    <2> DEFINE N == Cardinality(Subscriptions)
               n == Cardinality(Bus!Passing(m))
    <2>1. change' = change /\ sockets' = sockets
      BY <1>12 DEF Bus!Deliver, Bus!socketVars
    <2>2. \A i \in Instances, d \in Bus!Channels : Awaited(e, i, d)' => Awaited(e, i, d)
      BY <1>12, DeliveredStep
    <2>3. CASE pushes'[e][s] = pushes[e][s]
      BY <1>3, <2>1, <2>2, <2>3
    <2>4. CASE /\ e = m.change /\ sockets[s] = m.to
               /\ pushes'[e][s] = pushes[e][s] + n
      <3> DEFINE i == m.to
                 c == m.channel
                 p == change[e].player
      <3>1. /\ i \in Instances /\ c \in {"global", p} /\ change[e] # Nobody
            /\ p \in Players
        BY <2>4 DEF CopiesOut, Bus!Change, Bus!Channels
      <3>2. n \in Nat /\ N \in Nat /\ (c = "global" => n = 1) /\ (c = p => n <= N)
        BY <3>1, PassingBounds, BusConstants
      <3>3. Awaited(e, i, c)
        BY <2>4 DEF Awaited
      <3>4. /\ "global" \in Bus!Channels /\ p \in Bus!Channels
        BY <3>1 DEF Bus!Channels
      <3>5. /\ Awaited(e, i, "global")' <=> Awaited(e, i, "global") /\ c # "global"
            /\ Awaited(e, i, p)' <=> Awaited(e, i, p) /\ c # p
        <4>1. ASSUME NEW d \in Bus!Channels
              PROVE  Awaited(e, i, d)' <=> Awaited(e, i, d) /\ c # d
          BY <1>12, <2>4, <3>1, DeliveredStep
        <4>2. ASSUME NEW d \in Bus!Channels, d = p
              PROVE  Awaited(e, i, p)' <=> Awaited(e, i, d)'
          BY <2>1, <4>2 DEF Awaited
        <4>3. QED
          BY <3>4, <4>1, <4>2
      <3>6. /\ Spent(e, i) = (IF Awaited(e, i, "global") THEN 0 ELSE 1)
                               + (IF Awaited(e, i, p) THEN 0 ELSE N)
            /\ Spent(e, sockets[s])' = (IF Awaited(e, i, "global")' THEN 0 ELSE 1)
                               + (IF Awaited(e, i, p)' THEN 0 ELSE N)
        <4>1. ASSUME NEW j, j = i, j = sockets'[s]
              PROVE  /\ Spent(e, j) = (IF Awaited(e, j, "global") THEN 0 ELSE 1)
                               + (IF Awaited(e, j, p) THEN 0 ELSE N)
                     /\ Spent(e, j)' = (IF Awaited(e, j, "global")' THEN 0 ELSE 1)
                               + (IF Awaited(e, j, p)' THEN 0 ELSE N)
          BY <2>1, <3>1 DEF Spent
        <4>2. QED
          BY <2>1, <2>4, <4>1
      <3>7. pushes[e][s] <= Spent(e, i)
        BY <1>1, <2>4, <3>1 DEF PushedTo
      <3> HIDE DEF N, n, i, c, p
      <3>8. /\ Spent(e, sockets[s])' \in Nat /\ Spent(e, sockets[s])' <= 1 + N
            /\ pushes'[e][s] \in Nat /\ pushes'[e][s] <= Spent(e, sockets[s])'
        BY <1>1, <2>4, <3>1, <3>2, <3>3, <3>5, <3>6, <3>7
      <3>9. sockets'[s] # Nobody /\ change'[e] # Nobody
        BY <2>1, <2>4, <3>1 DEF i
      <3>10. pushes'[e][s] <= 1 + N
        BY <3>2, <3>8
      <3>11. QED
        BY <3>8, <3>9, <3>10 DEF PushedTo, N
    <2>5. QED
      <3> HIDE DEF BusInv, Bus!BusTypeOK
      <3>1. QED
        BY <1>12, <2>3, <2>4, DeliveredPushes
  <1>13. QED
    <2> HIDE DEF BusInv, Bus!BusTypeOK
    <2>1. CASE \E o \in Sockets : \/ \E i \in Instances : Bus!Connect(o, i)
                                  \/ \E p \in Players : Bus!BindPlayer(o, p)
                                  \/ Bus!HandleDisconnect(o)
      BY <1>5, <1>6, <1>7, <2>1
    <2>2. CASE \/ \E c \in commands : Bus!CommandArrives(c) \/ Bus!CommandFails(c)
               \/ \E i \in Instances : Bus!SubscriberLost(i)
      BY <1>9, <1>91, <2>2
    <2>3. CASE \E f \in Changes :
                 \/ \E k \in Bus!Kinds, p \in Players : Bus!Notify(f, k, p) \/ Bus!Emit(f, k, p)
                 \/ \E c \in Bus!Channels : Bus!Publish(f, c) \/ Bus!PublishFails(f, c)
      BY <1>10, <1>11, <2>3
    <2>4. QED
      BY <1>8, <1>12, <2>1, <2>2, <2>3 DEF Bus!BusNext

LEMMA BusStep == BusInv /\ Bus!BusNext => BusInv'
  <1> SUFFICES ASSUME BusInv, Bus!BusNext PROVE BusInv'
    OBVIOUS
  <1>1. Bus!BusTypeOK'
    BY BusTypeStep
  <1>2. OwedNow'
    <2>1. \A e \in Changes : \A s \in due'[e] : OwedTo(e, s)'
      BY OwedStep
    <2>2. QED
      BY <2>1 DEF OwedNow, OwedTo
  <1>3. PushesBounded'
    <2>1. \A e \in Changes, s \in Sockets : PushedTo(e, s)'
      BY PushedStep
    <2>2. QED
      BY <2>1 DEF PushesBounded, PushedTo
  <1>4. UNCHANGED handlers => Listening'
    BY DEF BusInv, Listening
  <1>5. UNCHANGED <<sockets, playerSocketMap>> => Homes'
    BY DEF BusInv, Homes
  <1>6. UNCHANGED <<change, copies>> => CopiesOut'
    BY DEF BusInv, CopiesOut
  <1>7. ASSUME NEW s \in Sockets,
               \/ \E i \in Instances : Bus!Connect(s, i)
               \/ \E p \in Players : Bus!BindPlayer(s, p)
               \/ Bus!HandleDisconnect(s)
        PROVE  Listening' /\ CopiesOut' /\ Homes'
    <2>1. UNCHANGED <<handlers, change, copies>>
      BY <1>7 DEF Bus!Connect, Bus!BindPlayer, Bus!HandleDisconnect, Bus!busVars
    <2>2. QED
      BY <1>4, <1>6, <1>7, <2>1, HomesStep
  <1>8. ASSUME NEW i \in Instances, NEW p \in Players, NEW n \in Subscriptions,
               NEW t \in Bus!Kinds \cup {"any"}, Bus!SubscribePlayer(i, p, n, t)
        PROVE  Listening' /\ CopiesOut' /\ Homes'
    <2>1. UNCHANGED <<change, copies, sockets, playerSocketMap>>
      BY <1>8 DEF Bus!SubscribePlayer, Bus!socketVars
    <2>2. QED
      BY <1>5, <1>6, <1>8, <2>1, ListeningStep
  <1>9. ASSUME NEW c \in commands, Bus!CommandArrives(c) \/ Bus!CommandFails(c)
        PROVE  Listening' /\ CopiesOut' /\ Homes'
    BY <1>4, <1>5, <1>6, <1>9 DEF Bus!CommandArrives, Bus!CommandFails, Bus!socketVars
  <1>91. ASSUME NEW i \in Instances, Bus!SubscriberLost(i)
         PROVE  Listening' /\ CopiesOut' /\ Homes'
    <2>1. UNCHANGED <<handlers, change, sockets, playerSocketMap>> /\ copies' \subseteq copies
      BY <1>91 DEF Bus!SubscriberLost, Bus!socketVars
    <2>2. CopiesOut'
      BY <2>1 DEF BusInv, CopiesOut
    <2>3. QED
      BY <1>4, <1>5, <2>1, <2>2
  <1>10. ASSUME NEW e \in Changes, NEW k \in Bus!Kinds, NEW p \in Players,
                Bus!Notify(e, k, p) \/ Bus!Emit(e, k, p)
         PROVE  Listening' /\ CopiesOut' /\ Homes'
    <2>1. /\ change[e] = Nobody /\ \A f \in Changes : f # e => change'[f] = change[f]
          /\ change'[e].player = p /\ change'[e].todo \subseteq {"global", p}
          /\ UNCHANGED <<handlers, copies, sockets, playerSocketMap>>
      BY <1>10, AnnouncedStep
    <2>2. CopiesOut'
      <3>1. \A m \in copies : m.change \in Changes /\ m.change # e
        BY <2>1 DEF BusInv, Bus!BusTypeOK, CopiesOut
      <3>2. QED
        BY <2>1, <3>1 DEF BusInv, CopiesOut
    <2>3. QED
      BY <1>4, <1>5, <2>1, <2>2
  <1>11. ASSUME NEW e \in Changes, NEW c \in Bus!Channels, Bus!Publish(e, c)
         PROVE  Listening' /\ CopiesOut' /\ Homes'
    <2>1. UNCHANGED <<handlers, sockets, playerSocketMap>>
      BY <1>11 DEF Bus!Publish, Bus!socketVars
    <2>2. QED
      BY <1>4, <1>5, <1>11, <2>1, CopiesStep
  <1>12. ASSUME NEW e \in Changes, NEW c \in Bus!Channels, Bus!PublishFails(e, c)
         PROVE  Listening' /\ CopiesOut' /\ Homes'
    <2>1. UNCHANGED <<handlers, copies, sockets, playerSocketMap>>
      BY <1>12 DEF Bus!PublishFails, Bus!socketVars
    <2>2. CopiesOut'
      <3>1. \A f \in Changes :
              /\ change[f] = Nobody => change'[f] = Nobody
              /\ change[f] # Nobody =>
                   /\ change'[f] # Nobody /\ change'[f].player = change[f].player
                   /\ change'[f].todo \subseteq change[f].todo
        BY <1>12, ChangeKept
      <3>2. \A m \in copies : m.change \in Changes
        BY DEF BusInv, Bus!BusTypeOK
      <3>3. QED
        BY <2>1, <3>1, <3>2 DEF BusInv, CopiesOut
    <2>3. QED
      BY <1>4, <1>5, <2>1, <2>2
  <1>13. ASSUME NEW m \in copies, Bus!Deliver(m)
         PROVE  Listening' /\ CopiesOut' /\ Homes'
    <2>1. UNCHANGED <<handlers, change, sockets, playerSocketMap>> /\ copies' \subseteq copies
      BY <1>13 DEF Bus!Deliver, Bus!socketVars
    <2>2. CopiesOut'
      BY <2>1 DEF BusInv, CopiesOut
    <2>3. QED
      BY <1>4, <1>5, <2>1, <2>2
  <1>14. Listening' /\ CopiesOut' /\ Homes'
    <2>1. CASE \E s \in Sockets : \/ \E i \in Instances : Bus!Connect(s, i)
                                  \/ \E p \in Players : Bus!BindPlayer(s, p)
                                  \/ Bus!HandleDisconnect(s)
      BY <1>7, <2>1
    <2>2. CASE \/ \E c \in commands : Bus!CommandArrives(c) \/ Bus!CommandFails(c)
               \/ \E i \in Instances : Bus!SubscriberLost(i)
      BY <1>9, <1>91, <2>2
    <2>3. CASE \E f \in Changes :
                 \/ \E k \in Bus!Kinds, p \in Players : Bus!Notify(f, k, p) \/ Bus!Emit(f, k, p)
                 \/ \E c \in Bus!Channels : Bus!Publish(f, c) \/ Bus!PublishFails(f, c)
      BY <1>10, <1>11, <1>12, <2>3
    <2>4. QED
      BY <1>8, <1>13, <2>1, <2>2, <2>3 DEF Bus!BusNext
  <1>15. QED
    BY <1>1, <1>2, <1>3, <1>14 DEF BusInv

-----------------------------------------------------------------------------
(***************************************************************************)
(* Risk control: the total of a player whose gifts come one after the      *)
(* other is the sum of his trades, and ahead of it by a gift whose trade   *)
(* is still to be created.                                                 *)
(***************************************************************************)

GiftTo(r, p) == gift[r] # Nothing /\ gift[r].to = p
TradesTo(p) == {t \in trades : t.to = p}

Tallied(p) ==
  /\ \A r, q \in Requests : GiftTo(r, p) /\ GiftTo(q, p) => r = q
  /\ \A r \in Requests : GiftTo(r, p) =>
       \/ /\ gift[r].at = "set" /\ gift[r].total = gifts[p]
          /\ gifts[p] = AmountOf(TradesTo(p))
       \/ gift[r].at = "create" /\ gifts[p] = AmountOf(TradesTo(p)) + gift[r].amount
  /\ (\A r \in Requests : ~GiftTo(r, p)) => gifts[p] = AmountOf(TradesTo(p))

RiskInv ==
  /\ Risks!RiskTypeOK
  /\ IsFiniteSet(trades) /\ \A t \in trades : t.id <= Cardinality(trades)
  /\ \A p \in GiftPlayers : steady[p] => Tallied(p)

LEMMA RiskFinite ==
  /\ \A S : Risks!Cardinality(S) = Cardinality(S)
  /\ \A p : Risks!Received(p) = AmountOf(TradesTo(p))
  <1>1. \A S : Risks!Cardinality(S) = Cardinality(S)
    BY DEF Risks!Cardinality, Cardinality
  <1>2. \A p : Risks!Received(p) = AmountOf(TradesTo(p))
    BY DEF Risks!Received, Risks!MapThenSumSet, Risks!MapThenFoldSet, AmountOf, Sums, SumNext,
           Some, TradesTo
  <1>3. QED
    BY <1>1, <1>2

LEMMA RiskConstants ==
  /\ Watched \subseteq GiftPlayers /\ Amounts \subseteq Nat \ {0} /\ DueTimes \subseteq Nat
  /\ LastDay \in Nat /\ MaxGifts \in Nat /\ MaxFlags \in Nat /\ Nothing \notin Risks!Gifts
  BY RiskAssumption DEF Risks!RiskAssumption

LEMMA TradesWhole ==
  ASSUME RiskInv, NEW p
  PROVE  /\ IsFiniteSet(TradesTo(p)) /\ Whole(TradesTo(p)) /\ AmountOf(TradesTo(p)) \in Nat
  <1>1. IsFiniteSet(TradesTo(p))
    BY FS_Subset DEF RiskInv, TradesTo
  <1>2. Whole(TradesTo(p))
    BY RiskConstants DEF RiskInv, Risks!RiskTypeOK, Risks!Trades, TradesTo, Whole
  <1>3. QED
    BY <1>1, <1>2, AmountAdded

LEMMA RiskInitial == Risks!RiskInit => RiskInv
  <1> SUFFICES ASSUME Risks!RiskInit PROVE RiskInv
    OBVIOUS
  <1> USE RiskConstants DEF Risks!RiskInit
  <1>1. Risks!RiskTypeOK
    BY DEF Risks!RiskTypeOK
  <1>2. IsFiniteSet(trades) /\ \A t \in trades : t.id <= Cardinality(trades)
    BY FS_EmptySet
  <1>3. \A p \in GiftPlayers : Tallied(p)
    <2>1. \A p : TradesTo(p) = {}
      BY DEF TradesTo
    <2>2. QED
      BY <2>1, AmountAdded DEF Tallied, GiftTo
  <1>4. QED
    BY <1>1, <1>2, <1>3 DEF RiskInv

LEMMA RiskStep == RiskInv /\ Risks!RiskNext => RiskInv'
  <1> SUFFICES ASSUME RiskInv, Risks!RiskNext PROVE RiskInv'
    OBVIOUS
  <1> USE RiskConstants
  <1>t. /\ day \in 0..LastDay /\ gifts \in [GiftPlayers -> Nat]
        /\ trades \subseteq Risks!Trades /\ loans \subseteq Risks!Loans
        /\ flags \in [GiftPlayers -> 0..MaxFlags]
        /\ gift \in [Requests -> Risks!Gifts \cup {Nothing}]
        /\ steady \in [GiftPlayers -> BOOLEAN]
    BY DEF RiskInv, Risks!RiskTypeOK
  <1>k. ASSUME UNCHANGED <<gifts, trades, gift, steady>>, Risks!RiskTypeOK'
        PROVE  RiskInv'
    BY <1>k DEF RiskInv, Tallied, GiftTo, TradesTo
  <1>1. ASSUME NEW r \in Requests, NEW from \in GiftPlayers, NEW to \in GiftPlayers,
               NEW amount \in Amounts, Risks!GiftGet(r, from, to, amount)
        PROVE  RiskInv'
    <2> DEFINE g == [from |-> from, to |-> to, amount |-> amount, at |-> "set", total |-> gifts[to]]
    <2>1. /\ gift[r] = Nothing /\ gift' = [gift EXCEPT ![r] = g]
          /\ steady' = [steady EXCEPT ![to] = @ /\ ~Risks!GiftUnderWay(to)]
          /\ UNCHANGED <<day, gifts, trades, loans, flags>>
      BY <1>1 DEF Risks!GiftGet
    <2>2. g \in Risks!Gifts /\ g.to = to /\ g.at = "set" /\ g.total = gifts[to]
      BY <1>t DEF Risks!Gifts
    <2> HIDE DEF g
    <2>3. Risks!RiskTypeOK'
      BY <1>t, <2>1, <2>2 DEF Risks!RiskTypeOK
    <2>4. /\ gift'[r] = g /\ g # Nothing
          /\ \A q \in Requests : q # r => gift'[q] = gift[q]
      BY <1>t, <2>1, <2>2
    <2>5. ASSUME NEW p \in GiftPlayers, steady'[p] PROVE Tallied(p)'
      <3>1. steady[p] /\ Tallied(p)
        BY <1>t, <2>1, <2>5 DEF RiskInv
      <3>2. TradesTo(p)' = TradesTo(p)
        BY <2>1 DEF TradesTo
      <3>3. CASE p = to
        <4>1. \A q \in Requests : ~GiftTo(q, p)
          BY <1>t, <2>1, <2>5, <3>3 DEF Risks!GiftUnderWay, GiftTo
        <4>2. \A q \in Requests : GiftTo(q, p)' <=> q = r
          BY <2>2, <2>4, <3>3, <4>1 DEF GiftTo
        <4>3. gifts[p] = AmountOf(TradesTo(p))
          BY <3>1, <4>1 DEF Tallied
        <4>4. QED
          BY <2>1, <2>2, <2>4, <3>2, <3>3, <4>2, <4>3 DEF Tallied
      <3>4. CASE p # to
        <4>1. \A q \in Requests : GiftTo(q, p)' => q # r
          BY <2>2, <2>4, <3>4 DEF GiftTo
        <4>2. \A q \in Requests : GiftTo(q, p)' <=> GiftTo(q, p)
          BY <2>1, <2>4, <4>1 DEF GiftTo
        <4>3. QED
          BY <2>1, <2>4, <3>1, <3>2, <4>1, <4>2 DEF Tallied
      <3>5. QED
        BY <3>3, <3>4
    <2>6. QED
      BY <2>1, <2>3, <2>5 DEF RiskInv
  <1>2. ASSUME NEW r \in Requests, Risks!GiftSet(r) PROVE RiskInv'
    <2> DEFINE g == gift[r]
               h == [g EXCEPT !.at = "create"]
    <2>1. /\ g # Nothing /\ g.at = "set" /\ gift' = [gift EXCEPT ![r] = h]
          /\ gifts' = [gifts EXCEPT ![g.to] = g.total + g.amount]
          /\ UNCHANGED <<day, trades, loans, flags, steady>>
      BY <1>2 DEF Risks!GiftSet, Risks!NewTotal
    <2>2. /\ g \in Risks!Gifts /\ h \in Risks!Gifts /\ h.to = g.to /\ h.at = "create"
          /\ h.amount = g.amount
      BY <1>t, <2>1 DEF Risks!Gifts
    <2>3. g.to \in GiftPlayers /\ g.total \in Nat /\ g.amount \in Nat
      BY <2>2 DEF Risks!Gifts
    <2> HIDE DEF h
    <2>4. /\ gift'[r] = h /\ h # Nothing
          /\ \A q \in Requests : q # r => gift'[q] = gift[q]
          /\ gifts'[g.to] = g.total + g.amount
          /\ \A p \in GiftPlayers : p # g.to => gifts'[p] = gifts[p]
      BY <1>t, <2>1, <2>2, <2>3
    <2>5. Risks!RiskTypeOK'
      <3>1. gifts' \in [GiftPlayers -> Nat]
        BY <1>t, <2>1, <2>3
      <3>2. gift' \in [Requests -> Risks!Gifts \cup {Nothing}]
        BY <1>t, <2>1, <2>2
      <3>3. QED
        BY <1>t, <2>1, <3>1, <3>2 DEF Risks!RiskTypeOK
    <2>6. \A p : \A q \in Requests : GiftTo(q, p)' <=> GiftTo(q, p)
      BY <2>1, <2>2, <2>4 DEF GiftTo
    <2>7. ASSUME NEW p \in GiftPlayers, steady'[p] PROVE Tallied(p)'
      <3>1. Tallied(p) /\ TradesTo(p)' = TradesTo(p)
        BY <2>1, <2>7 DEF RiskInv, TradesTo
      <3>2. CASE p = g.to
        <4>1. GiftTo(r, p) /\ \A q \in Requests : GiftTo(q, p) => q = r
          BY <2>1, <3>1, <3>2 DEF GiftTo, Tallied
        <4>2. g.total = AmountOf(TradesTo(p))
          BY <2>1, <3>1, <4>1 DEF Tallied
        <4>3. gift'[r].at = "create" /\ gifts'[p] = AmountOf(TradesTo(p)) + gift'[r].amount
          BY <2>2, <2>4, <3>2, <4>2
        <4>4. QED
          BY <2>6, <3>1, <4>1, <4>3 DEF Tallied
      <3>3. CASE p # g.to
        <4>1. \A q \in Requests : GiftTo(q, p) => q # r
          BY <3>3 DEF GiftTo
        <4>2. QED
          BY <2>4, <2>6, <3>1, <3>3, <4>1 DEF Tallied
      <3>4. QED
        BY <3>2, <3>3
    <2>8. QED
      BY <2>1, <2>5, <2>7 DEF RiskInv
  <1>3. ASSUME NEW r \in Requests, Risks!GiftCreate(r) PROVE RiskInv'
    <2> DEFINE g == gift[r]
               n == Cardinality(trades) + 1
               t == [id |-> n, from |-> g.from, to |-> g.to, amount |-> g.amount, day |-> day]
    <2>1. /\ g # Nothing /\ g.at = "create" /\ n <= MaxGifts
          /\ trades' = trades \cup {t}
          /\ gift' = [gift EXCEPT ![r] = Nothing]
          /\ UNCHANGED <<day, gifts, loans, flags, steady>>
      BY <1>3, RiskFinite DEF Risks!GiftCreate
    <2>2. n \in Nat \ {0}
      BY FS_CardinalityType DEF RiskInv
    <2>3. t.id = n /\ t.to = g.to /\ t.amount = g.amount /\ t \in Risks!Trades
      BY <1>t, <2>1, <2>2 DEF Risks!Gifts, Risks!Trades
    <2>4. g.amount \in Nat /\ g.to \in GiftPlayers
      BY <1>t, <2>1 DEF Risks!Gifts
    <2> HIDE DEF t
    <2>5. Risks!RiskTypeOK'
      BY <1>t, <2>1, <2>3 DEF Risks!RiskTypeOK
    <2>6. t \notin trades
      BY <2>2, <2>3, FS_CardinalityType DEF RiskInv
    <2>7. IsFiniteSet(trades') /\ \A s \in trades' : s.id <= Cardinality(trades')
      <3>1. IsFiniteSet(trades') /\ Cardinality(trades') = n
        BY <2>1, <2>6, FS_AddElement DEF RiskInv
      <3>2. \A s \in trades : s.id \in Nat /\ s.id <= n
        BY <1>t, <2>2, FS_CardinalityType DEF RiskInv, Risks!Trades
      <3> HIDE DEF n
      <3>3. \A s \in trades' : s \in trades \/ s = t
        BY <2>1
      <3>4. n <= n
        BY <2>2
      <3>5. QED
        BY <2>3, <3>1, <3>2, <3>3, <3>4
    <2>8. /\ gift'[r] = Nothing
          /\ \A q \in Requests : q # r => gift'[q] = gift[q]
      BY <1>t, <2>1
    <2>9. ASSUME NEW p \in GiftPlayers, steady'[p] PROVE Tallied(p)'
      <3>1. Tallied(p)
        BY <2>1, <2>9 DEF RiskInv
      <3>2. CASE p = g.to
        <4>1. GiftTo(r, p) /\ \A q \in Requests : GiftTo(q, p) => q = r
          BY <2>1, <3>1, <3>2 DEF GiftTo, Tallied
        <4>2. gifts[p] = AmountOf(TradesTo(p)) + g.amount
          BY <2>1, <3>1, <4>1 DEF Tallied
        <4>3. TradesTo(p)' = TradesTo(p) \cup {t} /\ t \notin TradesTo(p)
          BY <2>1, <2>3, <2>6, <3>2 DEF TradesTo
        <4>4. Whole(TradesTo(p) \cup {t})
          BY <2>3, <2>4, TradesWhole DEF Whole
        <4>5. AmountOf(TradesTo(p) \cup {t}) = AmountOf(TradesTo(p)) + t.amount
          BY <4>3, <4>4, TradesWhole, AmountAdded
        <4>6. \A q \in Requests : ~GiftTo(q, p)'
          BY <2>8, <4>1 DEF GiftTo
        <4>7. QED
          BY <2>1, <2>3, <4>2, <4>3, <4>5, <4>6 DEF Tallied
      <3>3. CASE p # g.to
        <4>1. TradesTo(p)' = TradesTo(p)
          BY <2>1, <2>3, <3>3 DEF TradesTo
        <4>2. \A q \in Requests : /\ GiftTo(q, p) => q # r
                                  /\ GiftTo(q, p)' <=> GiftTo(q, p)
          BY <2>8, <3>3 DEF GiftTo
        <4>3. QED
          BY <2>1, <2>8, <3>1, <4>1, <4>2 DEF Tallied
      <3>4. QED
        BY <3>2, <3>3
    <2>10. QED
      BY <2>1, <2>5, <2>7, <2>9 DEF RiskInv
  <1>4. ASSUME NEW r \in Requests, Risks!GiftFails(r) PROVE RiskInv'
    <2>1. /\ gift[r] # Nothing /\ gift' = [gift EXCEPT ![r] = Nothing]
          /\ steady' = [steady EXCEPT ![gift[r].to] = FALSE]
          /\ UNCHANGED <<day, gifts, trades, loans, flags>>
      BY <1>4 DEF Risks!GiftFails
    <2>2. gift[r].to \in GiftPlayers
      BY <1>t, <2>1 DEF Risks!Gifts
    <2>3. Risks!RiskTypeOK'
      BY <1>t, <2>1, <2>2 DEF Risks!RiskTypeOK
    <2>4. ASSUME NEW p \in GiftPlayers, steady'[p] PROVE Tallied(p)'
      <3>1. p # gift[r].to /\ Tallied(p) /\ TradesTo(p)' = TradesTo(p)
        BY <1>t, <2>1, <2>2, <2>4 DEF RiskInv, TradesTo
      <3>2. \A q \in Requests : q # r => gift'[q] = gift[q]
        BY <1>t, <2>1
      <3>3. \A q \in Requests : /\ GiftTo(q, p) => q # r
                                /\ GiftTo(q, p)' <=> GiftTo(q, p)
        BY <1>t, <2>1, <3>1, <3>2 DEF GiftTo
      <3>4. QED
        BY <2>1, <3>1, <3>2, <3>3 DEF Tallied
    <2>5. QED
      BY <2>1, <2>3, <2>4 DEF RiskInv
  <1>5. ASSUME NEW p \in GiftPlayers, Risks!GiftsExpire(p) PROVE RiskInv'
    <2>1. /\ gifts' = [gifts EXCEPT ![p] = 0] /\ steady' = [steady EXCEPT ![p] = FALSE]
          /\ UNCHANGED <<day, trades, loans, flags, gift>>
      BY <1>5 DEF Risks!GiftsExpire
    <2>2. Risks!RiskTypeOK'
      BY <1>t, <2>1 DEF Risks!RiskTypeOK
    <2>3. ASSUME NEW q \in GiftPlayers, steady'[q] PROVE Tallied(q)'
      <3>1. q # p /\ gifts'[q] = gifts[q] /\ Tallied(q)
        BY <1>t, <2>1, <2>3 DEF RiskInv
      <3>2. QED
        BY <2>1, <3>1 DEF Tallied, GiftTo, TradesTo
    <2>4. QED
      BY <2>1, <2>2, <2>3 DEF RiskInv
  <1>6. ASSUME NEW p \in GiftPlayers, Risks!FlagAccount(p) PROVE RiskInv'
    <2>1. /\ flags[p] < MaxFlags /\ flags' = [flags EXCEPT ![p] = @ + 1]
          /\ UNCHANGED <<day, gifts, trades, loans, gift, steady>>
      BY <1>6 DEF Risks!FlagAccount
    <2>2. flags' \in [GiftPlayers -> 0..MaxFlags]
      BY <1>t, <2>1
    <2>3. QED
      BY <1>k, <1>t, <2>1, <2>2 DEF Risks!RiskTypeOK
  <1>7. ASSUME NEW p \in GiftPlayers, NEW amount \in Amounts, NEW d \in DueTimes,
               Risks!RecordLoan(p, amount, d)
        PROVE  RiskInv'
    <2> DEFINE l == [borrower |-> p, amount |-> amount, dueAt |-> day + d, lives |-> d = 0]
    <2>1. /\ loans' = loans \cup {l}
          /\ UNCHANGED <<day, gifts, trades, flags, gift, steady>>
      BY <1>7 DEF Risks!RecordLoan
    <2>2. l \in Risks!Loans
      BY <1>t, <1>k DEF Risks!Loans
    <2> HIDE DEF l
    <2>21. loans' \subseteq Risks!Loans
      BY <1>t, <2>1, <2>2
    <2>3. QED
      BY <1>k, <1>t, <2>1, <2>21 DEF Risks!RiskTypeOK
  <1>8. ASSUME Risks!DayPasses PROVE RiskInv'
    BY <1>8, <1>k, <1>t DEF Risks!DayPasses, Risks!RiskTypeOK
  <1>9. QED
    <2>1. CASE \E r \in Requests :
             \/ \E from \in GiftPlayers, to \in Watched, amount \in Amounts :
                  Risks!GiftGet(r, from, to, amount)
             \/ Risks!GiftSet(r) \/ Risks!GiftCreate(r) \/ Risks!GiftFails(r)
      BY <1>1, <1>2, <1>3, <1>4, <2>1
    <2>2. CASE \E p \in Watched :
             \/ Risks!GiftsExpire(p) \/ Risks!FlagAccount(p)
             \/ \E amount \in Amounts, d \in DueTimes : Risks!RecordLoan(p, amount, d)
      BY <1>5, <1>6, <1>7, <2>2
    <2>3. QED
      BY <1>8, <2>1, <2>2 DEF Risks!RiskNext

LEMMA RiskConsequences == RiskInv => Risks!RiskTypeOK /\ Risks!GiftsCounted
  <1> SUFFICES ASSUME RiskInv PROVE Risks!RiskTypeOK /\ Risks!GiftsCounted
    OBVIOUS
  <1>1. ASSUME NEW p \in GiftPlayers, steady[p]
        PROVE  /\ ~Risks!GiftUnderWay(p) => gifts[p] = Risks!Received(p)
               /\ \A n \in Amounts : Risks!validateTrade(p, n) =>
                    Risks!Received(p) + n <= Risks!MAX_GIFT_VALUE
    <2>1. Tallied(p) /\ Risks!Received(p) = AmountOf(TradesTo(p)) /\ gifts[p] \in Nat
      BY <1>1, RiskFinite DEF RiskInv, Risks!RiskTypeOK
    <2>2. ~Risks!GiftUnderWay(p) => gifts[p] = Risks!Received(p)
      BY <2>1 DEF Risks!GiftUnderWay, Tallied, GiftTo
    <2>3. AmountOf(TradesTo(p)) \in Nat
      BY TradesWhole
    <2>4. AmountOf(TradesTo(p)) <= gifts[p]
      <3>1. ASSUME NEW r \in Requests, GiftTo(r, p)
            PROVE  gift[r].amount \in Nat
        BY <3>1, RiskConstants DEF RiskInv, Risks!RiskTypeOK, Risks!Gifts, GiftTo
      <3>2. QED
        BY <2>1, <2>3, <3>1 DEF Tallied
    <2>5. \A n \in Amounts : Risks!validateTrade(p, n) => gifts[p] + n <= 10 /\ n \in Nat
      BY RiskConstants DEF Risks!validateTrade, Risks!MAX_GIFT_VALUE
    <2>6. \A n \in Amounts : Risks!validateTrade(p, n) => AmountOf(TradesTo(p)) + n <= 10
      BY <2>1, <2>3, <2>4, <2>5
    <2>7. QED
      BY <2>1, <2>2, <2>6 DEF Risks!MAX_GIFT_VALUE
  <1>2. QED
    BY <1>1 DEF RiskInv, Risks!GiftsCounted

-----------------------------------------------------------------------------
(***************************************************************************)
(* The behaviours of the composition: a step is a step of one service and  *)
(* leaves the variables of the others alone.                               *)
(***************************************************************************)

allVars == <<active, dungeonVars, partyVars, offlineVars, riskVars, roomVars, busVars>>

LEMMA OneServiceMoves ==
  [Next]_allVars =>
    /\ Parties!PartyNext \/ UNCHANGED <<party, partyCache, call>>
    /\ Risks!RiskNext \/ UNCHANGED <<day, gifts, trades, loans, flags, gift, steady>>
    /\ RoomsOf!RoomsNext \/ UNCHANGED <<online, gone, room, known, misnamed>>
    /\ \/ Bus!BusNext
       \/ UNCHANGED <<commands, redisSubs, handlers, change, copies, sockets, bound,
                      playerSocketMap, pushes, due>>
  BY DEF Next, allVars, partyVars, riskVars, roomVars, busVars

LEMMA PartiesStay == Spec => []PartyInv
<1>1. Init => PartyInv
  BY PartyInitial DEF Init
<1>2. PartyInv /\ [Next]_allVars => PartyInv'
  <2>1. PartyInv /\ UNCHANGED <<party, partyCache, call>> => PartyInv'
    BY DEF PartyInv, StoredParties, GoodCall
  <2>2. QED
    BY <2>1, PartyStep, OneServiceMoves
<1> QED
  BY <1>1, <1>2, PTL DEF Spec, allVars

LEMMA RoomsStay == Spec => []RoomsInv
<1>1. Init => RoomsInv
  BY RoomsInitial DEF Init
<1>2. RoomsInv /\ [Next]_allVars => RoomsInv'
  <2>1. RoomsInv /\ UNCHANGED <<online, gone, room, known, misnamed>> => RoomsInv'
    BY DEF RoomsInv, Occupied, LaterKnown
  <2>2. QED
    BY <2>1, RoomsStep, OneServiceMoves
<1> QED
  BY <1>1, <1>2, PTL DEF Spec, allVars

LEMMA BusStays == Spec => []BusInv
<1>1. Init => BusInv
  BY BusInitial DEF Init
<1>2. BusInv /\ [Next]_allVars => BusInv'
  <2>1. BusInv /\ UNCHANGED <<commands, redisSubs, handlers, change, copies, sockets, bound,
                              playerSocketMap, pushes, due>> => BusInv'
    BY DEF BusInv, Bus!BusTypeOK, Listening, CopiesOut, Homes, OwedNow, PushesBounded, Awaited,
           Spent
  <2>2. QED
    BY <2>1, BusStep, OneServiceMoves
<1> QED
  BY <1>1, <1>2, PTL DEF Spec, allVars

LEMMA RiskStays == Spec => []RiskInv
<1>1. Init => RiskInv
  BY RiskInitial DEF Init
<1>2. RiskInv /\ [Next]_allVars => RiskInv'
  <2>1. RiskInv /\ UNCHANGED <<day, gifts, trades, loans, flags, gift, steady>> => RiskInv'
    BY DEF RiskInv, Risks!RiskTypeOK, Tallied, GiftTo, TradesTo
  <2>2. QED
    BY <2>1, RiskStep, OneServiceMoves
<1> QED
  BY <1>1, <1>2, PTL DEF Spec, allVars

-----------------------------------------------------------------------------
\* Floors and active arrays stay paid for, whatever the other services do.
THEOREM FloorsPaidAmongServices == Spec => []FloorPaid
<1>1. DungeonTheory!DungeonSpec => []DungeonTheory!FloorPaid
  BY DungeonAssumption, SameDungeon, DungeonTheory!FloorsPaid
<1>2. Init => DungeonTheory!DungeonInit
  BY SameDungeon DEF Init
<1>3. [Next]_<<active, dungeonVars, partyVars, offlineVars, riskVars, roomVars, busVars>>
        => [DungeonTheory!DungeonNext]_<<dungeon, visit>>
  BY SameDungeon DEF Next, dungeonVars
<1>4. DungeonTheory!FloorPaid => FloorPaid
  BY SameDungeon DEF FloorPaid
<1> QED
  BY <1>1, <1>2, <1>3, <1>4, PTL DEF Spec, DungeonTheory!DungeonSpec

\* Claims that nothing overlaps are paid for time away, whatever the others do.
THEOREM NotOverpaidAmongServices == Spec => []PaidForTimeAway
<1>1. OfflineTheory!OfflineSpec => []OfflineTheory!PaidForTimeAway
  BY OfflineAssumption, SameOffline, OfflineTheory!NotOverpaid
<1>2. Init => OfflineTheory!OfflineInit
  BY SameOffline DEF Init
<1>3. [Next]_<<active, dungeonVars, partyVars, offlineVars, riskVars, roomVars, busVars>>
        => [OfflineTheory!OfflineNext]_<<second, offlineTask, credited, claim, alone>>
  BY SameOffline DEF Next, offlineVars
<1>4. OfflineTheory!PaidForTimeAway => PaidForTimeAway
  BY SameOffline DEF PaidForTimeAway
<1> QED
  BY <1>1, <1>2, <1>3, <1>4, PTL DEF Spec, OfflineTheory!OfflineSpec

\* A stored party has between one member and the limit, each once, and its
\* leader is one of them: however the reads and writes of createParty,
\* joinParty, leaveParty and an expiry of its key interleave.
THEOREM PartiesFormed == Spec => []PartyWellFormed
<1>1. PartyInv => PartyWellFormed
  BY PartyConsequences DEF PartyWellFormed
<1> QED
  BY <1>1, PartiesStay, PTL

\* Whoever is in the room of a party was told of everyone who entered it
\* after him and is still there, across leaving, returning and lost sockets.
THEOREM LaterMembersKnown == Spec => []KnowsLaterMembers
<1>1. RoomsInv => KnowsLaterMembers
  BY RoomsConsequences DEF KnowsLaterMembers
<1> QED
  BY <1>1, RoomsStay, PTL

\* A change of attributes whose copies have all been dealt with was pushed to
\* every socket it is owed to, and to none more often than once for the
\* global channel and once for each subscription to the player's own.
THEOREM AttributesReach == Spec => []AttrReaches
<1>1. BusInv => AttrReaches
  BY BusConsequences DEF AttrReaches
<1> QED
  BY <1>1, BusStays, PTL

\* For a player whose gifts came one after the other the total that the
\* limit is checked against is the sum of his trades, so that an accepted
\* gift stays within the limit.
THEOREM GiftsTallied == Spec => []GiftsCounted
<1>1. RiskInv => GiftsCounted
  BY RiskConsequences DEF GiftsCounted
<1> QED
  BY <1>1, RiskStays, PTL

\* Every value of every service has its type.
THEOREM TypesAmongServices == Spec => []TypeOK
<1>1. Spec => []DungeonTheory!DungeonTypeOK
  <2>1. DungeonTheory!DungeonSpec => []DungeonTheory!DungeonTypeOK
    BY DungeonAssumption, SameDungeon, DungeonTheory!TypeCorrect
  <2>2. Init => DungeonTheory!DungeonInit
    BY SameDungeon DEF Init
  <2>3. [Next]_allVars => [DungeonTheory!DungeonNext]_<<dungeon, visit>>
    BY SameDungeon DEF Next, allVars, dungeonVars
  <2> QED
    BY <2>1, <2>2, <2>3, PTL DEF Spec, allVars, DungeonTheory!DungeonSpec
<1>2. Spec => []OfflineTheory!OfflineTypeOK
  <2>1. OfflineTheory!OfflineSpec => []OfflineTheory!OfflineTypeOK
    BY OfflineAssumption, SameOffline, OfflineTheory!TypeCorrect
  <2>2. Init => OfflineTheory!OfflineInit
    BY SameOffline DEF Init
  <2>3. [Next]_allVars
          => [OfflineTheory!OfflineNext]_<<second, offlineTask, credited, claim, alone>>
    BY SameOffline DEF Next, allVars, offlineVars
  <2> QED
    BY <2>1, <2>2, <2>3, PTL DEF Spec, allVars, OfflineTheory!OfflineSpec
<1>3. ASSUME DungeonTheory!DungeonTypeOK, OfflineTheory!OfflineTypeOK,
             PartyInv, RoomsInv, BusInv, RiskInv
      PROVE  TypeOK
  <2>1. Dungeons!DungeonTypeOK
    BY <1>3, SameDungeon
  <2>2. Offlines!OfflineTypeOK
    BY <1>3, SameOffline
  <2>3. Parties!PartyTypeOK
    BY <1>3, PartyConsequences
  <2>4. RoomsOf!RoomsTypeOK
    BY <1>3, RoomsConsequences
  <2>5. Bus!BusTypeOK
    BY <1>3, BusConsequences
  <2>6. Risks!RiskTypeOK
    BY <1>3, RiskConsequences
  <2> QED
    BY <2>1, <2>2, <2>3, <2>4, <2>5, <2>6 DEF TypeOK
<1> QED
  BY <1>1, <1>2, <1>3, PartiesStay, RoomsStay, BusStays, RiskStays, PTL

-----------------------------------------------------------------------------
\* The message codes.  A leaf about the number that pushes start from goes to the
\* arithmetic prover alone.

\* The messages of a section: even requests of the thousand that starts at a, all
\* different, each with its response one above it.
Numbered(S, a) ==
  \A n \in DOMAIN S :
    /\ S[n].req \in a..a + 999 /\ S[n].resp \in a..a + 999
    /\ S[n].req % 2 = 0 /\ S[n].resp = S[n].req + 1
    /\ \A k \in DOMAIN S : S[k].req = S[n].req => k = n

LEMMA SystemNumbered == Numbered(Codes!SystemCodes, 0)
  BY SMTT(30) DEF Numbered, Codes!SystemCodes, Codes!Message
LEMMA AuthNumbered == Numbered(Codes!AuthCodes, 1000)
  BY SMTT(30) DEF Numbered, Codes!AuthCodes, Codes!Message
LEMMA PlayerNumbered == Numbered(Codes!PlayerCodes, 2000)
  BY SMTT(30) DEF Numbered, Codes!PlayerCodes, Codes!Message
LEMMA BattleNumbered == Numbered(Codes!BattleCodes, 3000)
  BY SMTT(30) DEF Numbered, Codes!BattleCodes, Codes!Message
LEMMA EconomyNumbered == Numbered(Codes!EconomyCodes, 4000)
  BY SMTT(30) DEF Numbered, Codes!EconomyCodes, Codes!Message
LEMMA EstateNumbered == Numbered(Codes!EstateCodes, 5000)
  BY SMTT(30) DEF Numbered, Codes!EstateCodes, Codes!Message
LEMMA SocialNumbered == Numbered(Codes!SocialCodes, 6000)
  BY SMTT(30) DEF Numbered, Codes!SocialCodes, Codes!Message

\* The section of each module.
LEMMA SectionTable ==
  /\ Codes!Sections["SYSTEM"] = Codes!SystemCodes
  /\ Codes!Sections["AUTH"] = Codes!AuthCodes
  /\ Codes!Sections["PLAYER"] = Codes!PlayerCodes
  /\ Codes!Sections["BATTLE"] = Codes!BattleCodes
  /\ Codes!Sections["ECONOMY"] = Codes!EconomyCodes
  /\ Codes!Sections["ESTATE"] = Codes!EstateCodes
  /\ Codes!Sections["SOCIAL"] = Codes!SocialCodes
  BY DEF Codes!Sections

\* The number that pushes start from is above every section.
LEMMA PushesApart == Codes!PushBase \in Nat /\ Codes!PushBase > 6999
  BY SMT DEF Codes!PushBase

\* The thousand of a section is the one getMessageModule gives to its module.
InThousand(m, a) ==
  /\ a + 999 < Codes!PushBase /\ Numbered(Codes!Sections[m], a)
  /\ \A c \in a..a + 999 : Codes!getMessageModule(c) = m
InSomeThousand(m) == \E a \in Nat : InThousand(m, a)

LEMMA SectionThousand ==
  ASSUME NEW m \in Codes!Modules
  PROVE  InSomeThousand(m)
  <1>1. CASE m = "SYSTEM"
    <2>1. \A c \in 0..0 + 999 : Codes!getMessageModule(c) = m
      BY <1>1, SMT DEF Codes!getMessageModule
    <2>2. InThousand(m, 0)
      BY <1>1, <2>1, SectionTable, SystemNumbered, PushesApart, SMT DEF InThousand
    <2>3. QED
      BY <2>2, SMT DEF InSomeThousand
  <1>2. CASE m = "AUTH"
    <2>1. \A c \in 1000..1000 + 999 : Codes!getMessageModule(c) = m
      BY <1>2, SMT DEF Codes!getMessageModule
    <2>2. InThousand(m, 1000)
      BY <1>2, <2>1, SectionTable, AuthNumbered, PushesApart, SMT DEF InThousand
    <2>3. QED
      BY <2>2, SMT DEF InSomeThousand
  <1>3. CASE m = "PLAYER"
    <2>1. \A c \in 2000..2000 + 999 : Codes!getMessageModule(c) = m
      BY <1>3, SMT DEF Codes!getMessageModule
    <2>2. InThousand(m, 2000)
      BY <1>3, <2>1, SectionTable, PlayerNumbered, PushesApart, SMT DEF InThousand
    <2>3. QED
      BY <2>2, SMT DEF InSomeThousand
  <1>4. CASE m = "BATTLE"
    <2>1. \A c \in 3000..3000 + 999 : Codes!getMessageModule(c) = m
      BY <1>4, SMT DEF Codes!getMessageModule
    <2>2. InThousand(m, 3000)
      BY <1>4, <2>1, SectionTable, BattleNumbered, PushesApart, SMT DEF InThousand
    <2>3. QED
      BY <2>2, SMT DEF InSomeThousand
  <1>5. CASE m = "ECONOMY"
    <2>1. \A c \in 4000..4000 + 999 : Codes!getMessageModule(c) = m
      BY <1>5, SMT DEF Codes!getMessageModule
    <2>2. InThousand(m, 4000)
      BY <1>5, <2>1, SectionTable, EconomyNumbered, PushesApart, SMT DEF InThousand
    <2>3. QED
      BY <2>2, SMT DEF InSomeThousand
  <1>6. CASE m = "ESTATE"
    <2>1. \A c \in 5000..5000 + 999 : Codes!getMessageModule(c) = m
      BY <1>6, SMT DEF Codes!getMessageModule
    <2>2. InThousand(m, 5000)
      BY <1>6, <2>1, SectionTable, EstateNumbered, PushesApart, SMT DEF InThousand
    <2>3. QED
      BY <2>2, SMT DEF InSomeThousand
  <1>7. CASE m = "SOCIAL"
    <2>1. \A c \in 6000..6000 + 999 : Codes!getMessageModule(c) = m
      BY <1>7, SMT DEF Codes!getMessageModule
    <2>2. InThousand(m, 6000)
      BY <1>7, <2>1, SectionTable, SocialNumbered, PushesApart, SMT DEF InThousand
    <2>3. QED
      BY <2>2, SMT DEF InSomeThousand
  <1>8. m \in {"SYSTEM", "AUTH", "PLAYER", "BATTLE", "ECONOMY", "ESTATE", "SOCIAL"}
    BY Zenon DEF Codes!Modules
  <1>9. QED
    BY <1>1, <1>2, <1>3, <1>4, <1>5, <1>6, <1>7, <1>8, Zenon

\* What the code functions make of a request and of a response.
LEMMA CodeOfRequest ==
  ASSUME NEW c \in Nat, c % 2 = 0, c < Codes!PushBase
  PROVE  /\ Codes!isRequest(c) /\ Codes!getResponseCode(c) = c + 1
         /\ Codes!getRequestCode(c + 1) = c
  <1>1. c + 1 # Codes!PushBase
    BY SMT DEF Codes!PushBase
  <1>2. QED
    BY PushesApart, <1>1, SMT
       DEF Codes!isRequest, Codes!isResponse, Codes!getResponseCode, Codes!getRequestCode

\* A message: an even request in the range of its module and the response after it.
LEMMA MessagePaired ==
  ASSUME NEW m \in Codes!Modules, NEW n \in DOMAIN Codes!Sections[m]
  PROVE  LET x == Codes!Sections[m][n]
         IN  /\ x.req \in Nat /\ x.req + 1 < Codes!PushBase /\ x.req % 2 = 0 /\ x.resp = x.req + 1
             /\ Codes!getMessageModule(x.req) = m /\ Codes!getMessageModule(x.resp) = m
             /\ \A k \in DOMAIN Codes!Sections[m] : Codes!Sections[m][k].req = x.req => k = n
  <1> DEFINE x == Codes!Sections[m][n]
  <1>1. PICK a \in Nat : InThousand(m, a)
    BY SectionThousand DEF InSomeThousand
  <1>2. /\ x.req \in a..a + 999 /\ x.resp \in a..a + 999
        /\ x.req % 2 = 0 /\ x.resp = x.req + 1
        /\ \A k \in DOMAIN Codes!Sections[m] : Codes!Sections[m][k].req = x.req => k = n
    BY <1>1 DEF InThousand, Numbered
  <1>3. x.req \in Nat /\ x.req + 1 < Codes!PushBase
    <2>1. a + 999 < Codes!PushBase
      BY <1>1 DEF InThousand
    <2> HIDE DEF x
    <2>2. QED
      BY <1>2, <2>1, PushesApart, SMT
  <1>4. Codes!getMessageModule(x.req) = m /\ Codes!getMessageModule(x.resp) = m
    BY <1>1, <1>2 DEF InThousand
  <1>5. QED
    BY <1>2, <1>3, <1>4

\* A request is an even number below the pushes and not 2, which is ERROR_RESP.
LEMMA RequestRange ==
  ASSUME NEW c \in Codes!AllRequests
  PROVE  c \in Nat /\ c + 1 < Codes!PushBase /\ c % 2 = 0 /\ c # 2
  <1>0. PICK m \in Codes!Modules : c \in Codes!RequestsOf(Codes!Sections[m])
    BY DEF Codes!AllRequests
  <1>1. PICK n \in DOMAIN Codes!Sections[m] : c = Codes!Sections[m][n].req
    BY <1>0 DEF Codes!RequestsOf
  <1>2. c \in Nat /\ c + 1 < Codes!PushBase /\ c % 2 = 0 /\ Codes!getMessageModule(c) = m
    BY <1>1, MessagePaired
  <1>3. ASSUME c = 2 PROVE FALSE
    <2>1. Codes!getMessageModule(2) = "SYSTEM"
      BY SMT DEF Codes!getMessageModule
    <2>2. m = "SYSTEM"
      BY <1>2, <1>3, <2>1
    <2>3. n \in DOMAIN Codes!SystemCodes /\ Codes!SystemCodes[n].req = 2
      BY <1>1, <1>3, <2>2, SectionTable
    <2>4. QED
      BY <2>3, SMT DEF Codes!SystemCodes, Codes!Message
  <1>4. QED
    BY <1>2, <1>3, PushesApart, SMT

\* Every response but ERROR_RESP is one above some request.
LEMMA ResponseAbove ==
  ASSUME NEW d \in Codes!AllResponses, d # 2
  PROVE  \E c \in Codes!AllRequests : d = c + 1
  <1>0. PICK m \in Codes!Modules : d \in Codes!ResponsesOf(Codes!Sections[m])
    BY DEF Codes!AllResponses, Codes!ERROR_RESP
  <1>1. PICK n \in DOMAIN Codes!Sections[m] : d = Codes!Sections[m][n].resp
    BY <1>0 DEF Codes!ResponsesOf
  <1>2. d = Codes!Sections[m][n].req + 1
    BY <1>1, MessagePaired
  <1>3. Codes!Sections[m][n].req \in Codes!AllRequests
    BY DEF Codes!AllRequests, Codes!RequestsOf
  <1>4. QED
    BY <1>2, <1>3

\* The pushes of the server lie where pushes start or above.
LEMMA PushRange ==
  ASSUME NEW c \in Codes!Pushes
  PROVE  c \in Nat /\ c >= Codes!PushBase
  <1>1. \A n \in DOMAIN Codes!ServerPushCodes : Codes!ServerPushCodes[n] \in 900000..900999
    BY SMT DEF Codes!ServerPushCodes
  <1>2. c \in 900000..900999
    BY <1>1, SMT DEF Codes!Pushes
  <1>3. QED
    BY <1>2, SMT DEF Codes!PushBase

\* Every message is paired in the section of its module, and no push is a request
\* or a response.
LEMMA TablesPaired == Codes!CodesPaired
  <1>1. ASSUME NEW m \in Codes!Modules, NEW n \in DOMAIN Codes!Sections[m]
        PROVE  LET x == Codes!Sections[m][n]
               IN  /\ Codes!isRequest(x.req) /\ Codes!getResponseCode(x.req) = x.resp
                   /\ Codes!getRequestCode(x.resp) = x.req
                   /\ Codes!getMessageModule(x.req) = m /\ Codes!getMessageModule(x.resp) = m
                   /\ \A k \in DOMAIN Codes!Sections[m] :
                        Codes!Sections[m][k].req = x.req => k = n
    <2> DEFINE x == Codes!Sections[m][n]
    <2>1. /\ x.req \in Nat /\ x.req + 1 < Codes!PushBase /\ x.req % 2 = 0 /\ x.resp = x.req + 1
          /\ Codes!getMessageModule(x.req) = m /\ Codes!getMessageModule(x.resp) = m
          /\ \A k \in DOMAIN Codes!Sections[m] : Codes!Sections[m][k].req = x.req => k = n
      BY MessagePaired
    <2> HIDE DEF x
    <2>2. x.req < Codes!PushBase
      BY <2>1, PushesApart, SMT
    <2>3. /\ Codes!isRequest(x.req) /\ Codes!getResponseCode(x.req) = x.resp
          /\ Codes!getRequestCode(x.resp) = x.req
      BY <2>1, <2>2, CodeOfRequest
    <2>4. QED
      BY <2>1, <2>3 DEF x
  <1>2. ASSUME NEW c \in Codes!Pushes
        PROVE  /\ Codes!isServerPush(c) /\ Codes!getMessageModule(c) = "PUSH"
               /\ Codes!getResponseCode(c) = NoCode
    <2>1. c \in Nat /\ c >= Codes!PushBase
      BY PushRange
    <2>2. Codes!getMessageModule(c) = "PUSH"
      BY <2>1, SMT DEF Codes!getMessageModule, Codes!PushBase
    <2>3. QED
      BY <2>1, <2>2, PushesApart
         DEF Codes!isServerPush, Codes!getResponseCode, Codes!isRequest
  <1>3. ASSUME NEW c \in Codes!AllRequests, NEW d \in Codes!AllResponses PROVE c # d
    <2>1. CASE d = 2
      BY <2>1, RequestRange
    <2>2. CASE d # 2
      <3>1. PICK b \in Codes!AllRequests : d = b + 1
        BY <2>2, ResponseAbove
      <3>2. b \in Nat /\ b % 2 = 0 /\ c \in Nat /\ c % 2 = 0
        BY RequestRange
      <3>3. QED
        BY <3>1, <3>2, SMT
    <2>3. QED
      BY <2>1, <2>2
  <1>4. ASSUME NEW c \in Codes!AllPushes
        PROVE  c \notin Codes!AllRequests /\ c \notin Codes!AllResponses
    <2>1. CASE c = 3
      <3>1. 3 \notin Codes!AllRequests
        <4>1. 3 % 2 # 0
          BY SMT
        <4>2. QED
          BY <4>1, RequestRange
      <3>2. ASSUME 3 \in Codes!AllResponses PROVE FALSE
        <4>1. PICK b \in Codes!AllRequests : 3 = b + 1
          BY <3>2, ResponseAbove
        <4>2. b \in Nat /\ b # 2
          BY RequestRange
        <4>3. QED
          BY <4>1, <4>2
      <3>3. QED
        BY <2>1, <3>1, <3>2
    <2>2. CASE c \in Codes!Pushes
      <3>1. c \in Nat /\ c >= Codes!PushBase
        BY <2>2, PushRange
      <3>2. ASSUME c \in Codes!AllRequests PROVE FALSE
        <4>1. c + 1 < Codes!PushBase
          BY <3>2, RequestRange
        <4>2. QED
          BY <3>1, <4>1, PushesApart, SMT
      <3>3. ASSUME c \in Codes!AllResponses PROVE FALSE
        <4>1. c # 2
          BY <3>1, PushesApart, SMT
        <4>2. PICK b \in Codes!AllRequests : c = b + 1
          BY <3>3, <4>1, ResponseAbove
        <4>3. b + 1 < Codes!PushBase
          BY RequestRange
        <4>4. QED
          BY <3>1, <4>2, <4>3, PushesApart, SMT
      <3>4. QED
        BY <3>2, <3>3
    <2>3. QED
      BY <2>1, <2>2 DEF Codes!AllPushes, Codes!SystemPushes
  <1>5. QED
    BY <1>1, <1>2, <1>3, <1>4 DEF Codes!CodesPaired


\* The names to which the client and the generator give other numbers, module by
\* module.
LEMMA ClientModules ==
  /\ DOMAIN Codes!ClientCodes = {"SYSTEM", "AUTH", "PLAYER"}
  /\ Codes!Changed(Codes!ClientCodes["SYSTEM"], Codes!Sections["SYSTEM"]) = {}
  /\ Codes!Changed(Codes!ClientCodes["AUTH"], Codes!Sections["AUTH"]) = {}
  /\ Codes!Changed(Codes!ClientCodes["PLAYER"], Codes!Sections["PLAYER"]) = {"USE_ITEM"}
  <1>1. DOMAIN Codes!ClientCodes = {"SYSTEM", "AUTH", "PLAYER"}
    BY SMT DEF Codes!ClientCodes
  <1>2. Codes!Changed(Codes!ClientCodes["SYSTEM"], Codes!Sections["SYSTEM"]) = {}
    BY SectionTable, SMT
       DEF Codes!Changed, Codes!ClientCodes, Codes!SystemCodes, Codes!Message
  <1>3. Codes!Changed(Codes!ClientCodes["AUTH"], Codes!Sections["AUTH"]) = {}
    BY SectionTable, SMT
       DEF Codes!Changed, Codes!ClientCodes, Codes!AuthCodes, Codes!Message
  <1>4. Codes!Changed(Codes!ClientCodes["PLAYER"], Codes!Sections["PLAYER"]) = {"USE_ITEM"}
    BY SectionTable, SMT
       DEF Codes!Changed, Codes!ClientCodes, Codes!PlayerCodes, Codes!Message
  <1>5. QED
    BY <1>1, <1>2, <1>3, <1>4

LEMMA DefaultModules ==
  /\ DOMAIN Codes!DefaultCodes = {"SYSTEM", "AUTH", "PLAYER"}
  /\ Codes!Changed(Codes!DefaultCodes["SYSTEM"], Codes!Sections["SYSTEM"]) = {"TIME_SYNC"}
  /\ Codes!Changed(Codes!DefaultCodes["AUTH"], Codes!Sections["AUTH"]) = {}
  /\ Codes!Changed(Codes!DefaultCodes["PLAYER"], Codes!Sections["PLAYER"]) = {"USE_ITEM"}
  <1>1. DOMAIN Codes!DefaultCodes = {"SYSTEM", "AUTH", "PLAYER"}
    BY SMT DEF Codes!DefaultCodes
  <1>2. Codes!Changed(Codes!DefaultCodes["SYSTEM"], Codes!Sections["SYSTEM"]) = {"TIME_SYNC"}
    BY SectionTable, SMT
       DEF Codes!Changed, Codes!DefaultCodes, Codes!SystemCodes, Codes!Message
  <1>3. Codes!Changed(Codes!DefaultCodes["AUTH"], Codes!Sections["AUTH"]) = {}
    BY SectionTable, SMT
       DEF Codes!Changed, Codes!DefaultCodes, Codes!AuthCodes, Codes!Message
  <1>4. Codes!Changed(Codes!DefaultCodes["PLAYER"], Codes!Sections["PLAYER"]) = {"USE_ITEM"}
    BY SectionTable, SMT
       DEF Codes!Changed, Codes!DefaultCodes, Codes!PlayerCodes, Codes!Message
  <1>5. QED
    BY <1>1, <1>2, <1>3, <1>4

LEMMA StaleNames ==
  /\ Codes!Stale(Codes!ClientCodes) = {"USE_ITEM"}
  /\ Codes!Stale(Codes!DefaultCodes) = {"TIME_SYNC", "USE_ITEM"}
  <1>1. ASSUME NEW copy, DOMAIN copy = {"SYSTEM", "AUTH", "PLAYER"}
        PROVE  Codes!Stale(copy) = Codes!Changed(copy["SYSTEM"], Codes!Sections["SYSTEM"])
                 \cup Codes!Changed(copy["AUTH"], Codes!Sections["AUTH"])
                 \cup Codes!Changed(copy["PLAYER"], Codes!Sections["PLAYER"])
    BY <1>1 DEF Codes!Stale
  <1>2. QED
    BY <1>1, ClientModules, DefaultModules

\* The tables without requests.
LEMMA StalePushes ==
  /\ Codes!Changed(Codes!ClientPushes, Codes!ServerPushCodes) = {}
  /\ Codes!Changed(Codes!DefaultPushes, Codes!ServerPushCodes) = {"LEVEL_UP_PUSH"}
  /\ Codes!Changed(Codes!DefaultErrors, Codes!ErrorCodes) = {}
  /\ Codes!DefaultErrorResp = Codes!ERROR_RESP
  /\ Codes!DefaultPushes.LEVEL_UP_PUSH = Codes!ServerPushCodes.EQUIPMENT_CHANGED
  <1>1. Codes!Changed(Codes!ClientPushes, Codes!ServerPushCodes) = {}
    BY SMT DEF Codes!Changed, Codes!ClientPushes, Codes!ServerPushCodes
  <1>2. Codes!Changed(Codes!DefaultPushes, Codes!ServerPushCodes) = {"LEVEL_UP_PUSH"}
    BY SMT DEF Codes!Changed, Codes!DefaultPushes, Codes!ServerPushCodes
  <1>3. Codes!Changed(Codes!DefaultErrors, Codes!ErrorCodes) = {}
    BY SMT DEF Codes!Changed, Codes!DefaultErrors, Codes!ErrorCodes
  <1>4. /\ Codes!DefaultErrorResp = Codes!ERROR_RESP
        /\ Codes!DefaultPushes.LEVEL_UP_PUSH = Codes!ServerPushCodes.EQUIPMENT_CHANGED
    BY SMT DEF Codes!DefaultErrorResp, Codes!ERROR_RESP, Codes!DefaultPushes,
               Codes!ServerPushCodes
  <1>5. QED
    BY <1>1, <1>2, <1>3, <1>4

\* Each stale request is another message of the server.
LEMMA StaleMistaken ==
  /\ Codes!Mistaken(Codes!ClientCodes, "PLAYER", "USE_ITEM")
  /\ Codes!Mistaken(Codes!DefaultCodes, "PLAYER", "USE_ITEM")
  /\ Codes!Mistaken(Codes!DefaultCodes, "SYSTEM", "TIME_SYNC")
  <1>1. /\ "GET_EQUIPMENT" \in DOMAIN Codes!Sections["PLAYER"]
        /\ Codes!Sections["PLAYER"]["GET_EQUIPMENT"] = Codes!Message(2004, 2005)
    BY SectionTable DEF Codes!PlayerCodes
  <1>2. /\ "VERSION_CHECK" \in DOMAIN Codes!Sections["SYSTEM"]
        /\ Codes!Sections["SYSTEM"]["VERSION_CHECK"] = Codes!Message(4, 5)
    BY SectionTable DEF Codes!SystemCodes
  <1>3. /\ Codes!ClientCodes["PLAYER"]["USE_ITEM"] = Codes!Message(2004, 2005)
        /\ Codes!DefaultCodes["PLAYER"]["USE_ITEM"] = Codes!Message(2004, 2005)
        /\ Codes!DefaultCodes["SYSTEM"]["TIME_SYNC"] = Codes!Message(4, 5)
    BY DEF Codes!ClientCodes, Codes!DefaultCodes
  <1>4. QED
    BY <1>1, <1>2, <1>3 DEF Codes!Mistaken

\* The thousands that the default configuration lists numbers of.
Within(S, R) == \A n \in DOMAIN S : S[n].req \in R /\ S[n].resp \in R
Lists(S, c) == \E n \in DOMAIN S : c = S[n].req \/ c = S[n].resp

LEMMA GeneratedFrom ==
  ASSUME NEW c \in Codes!Generated
  PROVE  c \in 0..999 \/ c \in 1000..1999 \/ c \in 2000..2999 \/ c \in 900000..900999
  <1>1. Within(Codes!DefaultCodes["SYSTEM"], 0..999)
    <2>1. Within([HEARTBEAT |-> Codes!Message(0, 1), TIME_SYNC |-> Codes!Message(4, 5)], 0..999)
      BY SMTT(30) DEF Within, Codes!Message
    <2>2. QED
      BY <2>1 DEF Codes!DefaultCodes
  <1>2. Within(Codes!DefaultCodes["AUTH"], 1000..1999)
    <2>1. Within([WECHAT_LOGIN |-> Codes!Message(1000, 1001),
                  REFRESH_TOKEN |-> Codes!Message(1002, 1003),
                  LOGOUT |-> Codes!Message(1004, 1005)], 1000..1999)
      BY SMTT(30) DEF Within, Codes!Message
    <2>2. QED
      BY <2>1 DEF Codes!DefaultCodes
  <1>3. Within(Codes!DefaultCodes["PLAYER"], 2000..2999)
    <2>1. Within([GET_PLAYER_DATA |-> Codes!Message(2000, 2001),
                  GET_INVENTORY |-> Codes!Message(2002, 2003),
                  USE_ITEM |-> Codes!Message(2004, 2005)], 2000..2999)
      BY SMTT(30) DEF Within, Codes!Message
    <2>2. QED
      BY <2>1 DEF Codes!DefaultCodes
  <1>4. \A n \in DOMAIN Codes!DefaultPushes : Codes!DefaultPushes[n] \in 900000..900999
    BY SMT DEF Codes!DefaultPushes
  <1>5. Codes!DefaultErrorResp \in 0..999
    BY SMT DEF Codes!DefaultErrorResp
  <1>6. \/ c = Codes!DefaultErrorResp \/ \E n \in DOMAIN Codes!DefaultPushes : c = Codes!DefaultPushes[n]
        \/ Lists(Codes!DefaultCodes["SYSTEM"], c) \/ Lists(Codes!DefaultCodes["AUTH"], c)
        \/ Lists(Codes!DefaultCodes["PLAYER"], c)
    BY DefaultModules DEF Lists, Codes!Generated, Codes!RequestsOf, Codes!ResponsesOf
  <1>7. ASSUME NEW S, NEW R, Within(S, R), Lists(S, c) PROVE c \in R
    BY <1>7, Zenon DEF Within, Lists
  <1>8. CASE Lists(Codes!DefaultCodes["SYSTEM"], c)
    BY <1>1, <1>7, <1>8, SMT
  <1>9. CASE Lists(Codes!DefaultCodes["AUTH"], c)
    BY <1>2, <1>7, <1>9, SMT
  <1>10. CASE Lists(Codes!DefaultCodes["PLAYER"], c)
    BY <1>3, <1>7, <1>10, SMT
  <1>11. CASE c = Codes!DefaultErrorResp
    BY <1>5, <1>11, SMT
  <1>12. CASE \E n \in DOMAIN Codes!DefaultPushes : c = Codes!DefaultPushes[n]
    BY <1>4, <1>12, SMT
  <1>13. QED
    BY <1>6, <1>8, <1>9, <1>10, <1>11, <1>12, SMTT(30)

\* The generated functions classify a code of these as the server's do.
LEMMA GeneratedAgrees ==
  ASSUME NEW c \in Codes!Generated
  PROVE  /\ Codes!GeneratedModule(c) = Codes!getMessageModule(c)
         /\ Codes!GeneratedIsRequest(c) = Codes!isRequest(c)
         /\ Codes!GeneratedIsResponse(c) = Codes!isResponse(c)
  <1> DEFINE Holds(m) == Codes!DefaultBase[m] <= c /\ c < Codes!DefaultBase[m] + 1000
  <1>1. Codes!DefaultPushBase = Codes!PushBase
    BY SMT DEF Codes!DefaultPushBase, Codes!PushBase
  <1>2. /\ DOMAIN Codes!DefaultBase = {"SYSTEM", "AUTH", "PLAYER"}
        /\ Codes!DefaultBase["SYSTEM"] = 0 /\ Codes!DefaultBase["AUTH"] = 1000
        /\ Codes!DefaultBase["PLAYER"] = 2000
    BY SMT DEF Codes!DefaultBase
  <1>3. /\ Codes!GeneratedIsRequest(c) = Codes!isRequest(c)
        /\ Codes!GeneratedIsResponse(c) = Codes!isResponse(c)
    BY <1>1 DEF Codes!GeneratedIsRequest, Codes!GeneratedIsResponse, Codes!isRequest,
                Codes!isResponse
  <1>4. Codes!GeneratedModule(c) =
          IF \E m \in DOMAIN Codes!DefaultBase : Holds(m)
          THEN CHOOSE m \in DOMAIN Codes!DefaultBase : Holds(m)
          ELSE IF c >= Codes!DefaultPushBase THEN "PUSH" ELSE "UNKNOWN"
    BY DEF Codes!GeneratedModule
  <1>5. /\ Holds("SYSTEM") <=> 0 <= c /\ c < 1000
        /\ Holds("AUTH") <=> 1000 <= c /\ c < 2000
        /\ Holds("PLAYER") <=> 2000 <= c /\ c < 3000
    BY <1>2, SMT
  <1> HIDE DEF Holds
  <1>6. ASSUME NEW n \in {"SYSTEM", "AUTH", "PLAYER"}, Holds(n),
               \A m \in {"SYSTEM", "AUTH", "PLAYER"} : Holds(m) => m = n
        PROVE  Codes!GeneratedModule(c) = n
    BY <1>2, <1>4, <1>6
  <1>7. CASE c \in 0..999
    <2>1. Holds("SYSTEM") /\ ~Holds("AUTH") /\ ~Holds("PLAYER")
      BY <1>5, <1>7, SMT
    <2>2. Codes!getMessageModule(c) = "SYSTEM"
      BY <1>7, SMT DEF Codes!getMessageModule
    <2>3. QED
      BY <1>3, <1>6, <2>1, <2>2
  <1>8. CASE c \in 1000..1999
    <2>1. Holds("AUTH") /\ ~Holds("SYSTEM") /\ ~Holds("PLAYER")
      BY <1>5, <1>8, SMT
    <2>2. Codes!getMessageModule(c) = "AUTH"
      BY <1>8, SMT DEF Codes!getMessageModule
    <2>3. QED
      BY <1>3, <1>6, <2>1, <2>2
  <1>9. CASE c \in 2000..2999
    <2>1. Holds("PLAYER") /\ ~Holds("SYSTEM") /\ ~Holds("AUTH")
      BY <1>5, <1>9, SMT
    <2>2. Codes!getMessageModule(c) = "PLAYER"
      BY <1>9, SMT DEF Codes!getMessageModule
    <2>3. QED
      BY <1>3, <1>6, <2>1, <2>2
  <1>10. CASE c \in 900000..900999
    <2>1. ~Holds("PLAYER") /\ ~Holds("SYSTEM") /\ ~Holds("AUTH")
      BY <1>5, <1>10, SMT
    <2>2. Codes!getMessageModule(c) = "PUSH"
      BY <1>10, SMT DEF Codes!getMessageModule
    <2>3. c >= Codes!PushBase
      BY <1>10, SMT DEF Codes!PushBase
    <2>4. Codes!GeneratedModule(c) = "PUSH"
      BY <1>1, <1>2, <1>4, <2>1, <2>3, SMT
    <2>5. QED
      BY <1>3, <2>2, <2>4
  <1>11. QED
    BY <1>7, <1>8, <1>9, <1>10, GeneratedFrom, SMT

\* So the copies differ from the server's table in these names alone.
LEMMA TablesDifferAsKnown == Codes!OnlyKnownNamesDiffer
  BY StaleNames, StalePushes, StaleMistaken, GeneratedAgrees DEF Codes!OnlyKnownNamesDiffer

-----------------------------------------------------------------------------
\* The folds of Rules.  A fold is a function of the set of elements it has still
\* to take; it exists because every set has fewer elements than the one before.

\* A fold that takes the elements of a finite set off in the order of c exists.
Takes(c, S) == \A s \in SUBSET S : s # {} => c[s] \in s
Carries(g, S, V) == \A i \in S, v \in V : g[i][v] \in V
FoldOf(f, S, V, base, c, g) ==
  /\ f \in [SUBSET S -> V]
  /\ \A s \in SUBSET S : f[s] = IF s = {} THEN base ELSE g[c[s]][f[s \ {c[s]}]]

\* A fold over a finite set is some function: by induction on the number of
\* elements there is one for the sets of at most that many.
LEMMA FoldExists ==
  ASSUME NEW S, IsFiniteSet(S), NEW V, NEW base \in V,
         NEW c, Takes(c, S), NEW g, Carries(g, S, V)
  PROVE  \E f : FoldOf(f, S, V, base, c, g)
<1> DEFINE FoldNext(f, s) == IF s = {} THEN base ELSE g[c[s]][f[s \ {c[s]}]]
           Small(n) == {s \in SUBSET S : Cardinality(s) <= n}
           T == {n \in Nat : \E f : /\ f = [s \in Small(n) |-> FoldNext(f, s)]
                                    /\ \A s \in Small(n) : f[s] \in V}
<1>1. \A s \in SUBSET S : IsFiniteSet(s) /\ Cardinality(s) \in Nat /\ Cardinality(s) <= Cardinality(S)
  BY FS_Subset, FS_CardinalityType
<1>2. 0 \in T
  <2>1. \A s \in Small(0) : s = {}
    BY <1>1, FS_EmptySet
  <2> DEFINE f == [s \in Small(0) |-> base]
  <2>2. f = [s \in Small(0) |-> FoldNext(f, s)] /\ \A s \in Small(0) : f[s] \in V
    BY <2>1
  <2> HIDE DEF FoldNext, Small, f
  <2>3. QED
    BY <2>2
<1>3. ASSUME NEW n \in Nat, n \in T PROVE n + 1 \in T
  <2> HIDE DEF FoldNext
  <2>1. PICK f : f = [s \in Small(n) |-> FoldNext(f, s)] /\ \A s \in Small(n) : f[s] \in V
    BY <1>3
  <2> DEFINE h == [s \in Small(n + 1) |-> FoldNext(f, s)]
  <2>2. \A s \in Small(n) : s \in Small(n + 1) /\ f[s] = FoldNext(f, s)
    BY <1>1, <2>1
  <2>3. \A s \in Small(n) : h[s] = f[s]
    BY <2>2
  <2>4. ASSUME NEW s \in Small(n + 1)
        PROVE  FoldNext(h, s) = FoldNext(f, s) /\ FoldNext(f, s) \in V
    <3>1. CASE s = {}
      BY <3>1 DEF FoldNext
    <3>2. CASE s # {}
      <4>1. c[s] \in s /\ IsFiniteSet(s)
        BY <1>1, <3>2 DEF Takes
      <4>2. Cardinality(s \ {c[s]}) = Cardinality(s) - 1 /\ Cardinality(s) \in Nat
        BY <4>1, FewerLeft
      <4>3. s \ {c[s]} \in Small(n)
        BY <4>2
      <4>4. h[s \ {c[s]}] = f[s \ {c[s]}] /\ f[s \ {c[s]}] \in V
        BY <2>1, <2>3, <4>3
      <4>5. c[s] \in S
        BY <4>1
      <4> HIDE DEF h, Small
      <4>6. QED
        BY <3>2, <4>4, <4>5 DEF FoldNext, Carries
    <3>3. QED
      BY <3>1, <3>2
  <2>5. h = [s \in Small(n + 1) |-> FoldNext(h, s)] /\ \A s \in Small(n + 1) : h[s] \in V
    BY <2>4
  <2> HIDE DEF h, Small
  <2>6. \E k : /\ k = [s \in Small(n + 1) |-> FoldNext(k, s)]
               /\ \A s \in Small(n + 1) : k[s] \in V
    BY <2>5
  <2>7. QED
    BY <2>6
<1> HIDE DEF T
<1>4. Cardinality(S) \in T
  BY <1>1, <1>2, <1>3, NumberInduction, FS_CardinalityType
<1>5. Small(Cardinality(S)) = SUBSET S
  BY <1>1
<1> HIDE DEF Small, FoldNext
<1>6. PICK f : /\ f = [s \in SUBSET S |-> FoldNext(f, s)]
               /\ \A s \in SUBSET S : f[s] \in V
  BY <1>4, <1>5 DEF T
<1>7. f \in [SUBSET S -> V] /\ \A s \in SUBSET S : f[s] = FoldNext(f, s)
  BY <1>6
<1>8. QED
  BY <1>7 DEF FoldNext, FoldOf

\* The last element of a list's indices.
LEMMA LastIndex ==
  ASSUME NEW n \in Nat
  PROVE  /\ \A s \in SUBSET (1..n) : s # {} => Calculations!Max(s) \in s
         /\ n # 0 => Calculations!Max(1..n) = n
<1> DEFINE HasLast(s) == \E x \in s : \A y \in s : x >= y
           T == {m \in Nat : \A s \in SUBSET (1..m) : s # {} => HasLast(s)}
<1>1. 0 \in T
  <2>1. 1..0 = {}
    OBVIOUS
  <2> HIDE DEF HasLast
  <2>2. \A s \in SUBSET (1..0) : s = {}
    BY <2>1
  <2>3. QED
    BY <2>2
<1>2. ASSUME NEW m \in Nat, m \in T PROVE m + 1 \in T
  <2> SUFFICES ASSUME NEW s \in SUBSET (1..(m + 1)), s # {} PROVE HasLast(s)
    OBVIOUS
  <2>1. CASE m + 1 \in s
    BY <2>1
  <2>2. CASE m + 1 \notin s
    <3>1. s \in SUBSET (1..m)
      BY <2>2
    <3>2. QED
      BY <1>2, <3>1
  <2>3. QED
    BY <2>1, <2>2
<1> HIDE DEF T
<1>3. n \in T
  BY <1>1, <1>2, NumberInduction
<1>4. ASSUME NEW s \in SUBSET (1..n), s # {} PROVE Calculations!Max(s) \in s
  BY <1>3, <1>4 DEF T, Calculations!Max
<1>5. ASSUME n # 0 PROVE Calculations!Max(1..n) = n
  <2>1. n \in 1..n /\ \A y \in 1..n : n >= y
    BY <1>5
  <2>2. \A x \in 1..n : x >= n => x = n
    OBVIOUS
  <2>3. QED
    BY <2>1, <2>2 DEF Calculations!Max
<1>6. QED
  BY <1>4, <1>5

\* The item map of a list, place by place: an id and the sum of its counts.
ItemsOf(Ids) == [itemId : Ids, count : Nat]
Place(list, i) == [at |-> i, amount |-> list[i].count]
Placed(list, T, id) == {Place(list, i) : i \in {j \in T : list[j].itemId = id}}
IdsAt(list, T) == {list[i].itemId : i \in T}
CountMap(list, T) == [id \in IdsAt(list, T) |-> AmountOf(Placed(list, T, id))]

\* The counts at finitely many places are natural numbers, and so is their sum.
LEMMA PlacedWhole ==
  ASSUME NEW Ids, NEW list, NEW T, IsFiniteSet(T), \A j \in T : list[j] \in ItemsOf(Ids), NEW id
  PROVE  /\ IsFiniteSet(Placed(list, T, id)) /\ Whole(Placed(list, T, id))
         /\ AmountOf(Placed(list, T, id)) \in Nat
  <1> DEFINE R == {j \in T : list[j].itemId = id}
  <1>1. IsFiniteSet(R)
    BY FS_Subset
  <1> HIDE DEF R
  <1>2. IsFiniteSet({Place(list, i) : i \in R})
    <2> DEFINE f == [i \in R |-> Place(list, i)]
    <2>1. f \in Surjection(R, {Place(list, i) : i \in R})
      BY DEF Surjection
    <2> HIDE DEF f
    <2>2. QED
      BY <1>1, <2>1, FS_Surjection
  <1>3. Placed(list, T, id) = {Place(list, i) : i \in R}
    BY DEF Placed, R
  <1>4. \A i \in R : list[i].count \in Nat
    BY DEF R, ItemsOf
  <1>5. Whole(Placed(list, T, id))
    BY <1>3, <1>4 DEF Whole, Place
  <1>6. QED
    BY <1>2, <1>3, <1>5, AmountAdded

\* One more place adds its item to the map.
LEMMA PlaceAdded ==
  ASSUME NEW Ids, NEW list, NEW T, IsFiniteSet(T), NEW i, i \notin T,
         \A j \in T \cup {i} : list[j] \in ItemsOf(Ids)
  PROVE  CountMap(list, T \cup {i}) = Calculations!AddItem(list[i], CountMap(list, T))
  <1> DEFINE U == T \cup {i}
             item == list[i]
             map == CountMap(list, T)
             Old(id) == IF id \in DOMAIN map THEN map[id] ELSE 0
             New(id) == IF id = item.itemId THEN item.count ELSE 0
  <1>1. DOMAIN map = IdsAt(list, T)
    BY DEF CountMap
  <1>2. IdsAt(list, U) = DOMAIN map \cup {item.itemId}
    BY <1>1 DEF IdsAt
  <1>3. item.count \in Nat
    BY DEF ItemsOf
  <1>4. ASSUME NEW id PROVE Old(id) = AmountOf(Placed(list, T, id)) /\ Old(id) \in Nat
    <2>1. CASE id \in IdsAt(list, T)
      BY <1>1, <2>1, PlacedWhole DEF CountMap
    <2>2. CASE id \notin IdsAt(list, T)
      <3>1. Placed(list, T, id) = {}
        BY <2>2 DEF Placed, IdsAt
      <3>2. QED
        BY <1>1, <2>2, <3>1, AmountAdded
    <2>3. QED
      BY <2>1, <2>2
  <1>5. ASSUME NEW id PROVE AmountOf(Placed(list, U, id)) = Old(id) + New(id)
    <2>1. CASE id = item.itemId
      <3> DEFINE P == Placed(list, T, id)
                 x == Place(list, i)
      <3>1. Placed(list, U, id) = P \cup {x}
        BY <2>1 DEF Placed
      <3>2. x \notin P
        BY DEF Placed, Place
      <3>3. IsFiniteSet(U) /\ IsFiniteSet(P)
        BY PlacedWhole, FS_AddElement
      <3>4. Whole(P \cup {x})
        <4>1. Whole(Placed(list, U, id))
          BY <3>3, PlacedWhole
        <4>2. QED
          BY <3>1, <4>1
      <3>5. x.amount = item.count
        BY DEF Place
      <3> HIDE DEF x, P
      <3>6. AmountOf(P \cup {x}) = AmountOf(P) + item.count
        BY <3>2, <3>3, <3>4, <3>5, AmountAdded
      <3> HIDE DEF U, item, Old
      <3>7. QED
        BY <1>4, <2>1, <3>1, <3>6 DEF P
    <2>2. CASE id # item.itemId
      <3>1. Placed(list, U, id) = Placed(list, T, id)
        BY <2>2 DEF Placed
      <3> HIDE DEF Old
      <3>2. QED
        BY <1>4, <2>2, <3>1
    <2>3. QED
      BY <2>1, <2>2
  <1> HIDE DEF Old, New
  <1>6. CountMap(list, U) = [id \in DOMAIN map \cup {item.itemId} |-> Old(id) + New(id)]
    BY <1>2, <1>5 DEF CountMap
  <1> HIDE DEF U, item, map
  <1>7. QED
    BY <1>6 DEF Calculations!AddItem, Old, New, U, item, map

\* Only the items at the places of T matter.
LEMMA SamePlaces ==
  ASSUME NEW list, NEW other, NEW T, \A j \in T : list[j] = other[j]
  PROVE  CountMap(list, T) = CountMap(other, T)
  <1>1. IdsAt(list, T) = IdsAt(other, T)
    BY DEF IdsAt
  <1>2. ASSUME NEW id PROVE Placed(list, T, id) = Placed(other, T, id)
    BY DEF Placed, Place
  <1>3. QED
    BY <1>1, <1>2 DEF CountMap

\* No place gives the empty map.
LEMMA NothingPlaced == ASSUME NEW list PROVE CountMap(list, {}) = Calculations!EmptyMap
  <1>1. IdsAt(list, {}) = {}
    BY DEF IdsAt
  <1>2. QED
    BY <1>1 DEF CountMap, Calculations!EmptyMap

\* The map of a list gives an amount to every id of the list and to no other.
LEMMA CountMapType ==
  ASSUME NEW Ids, NEW list, NEW T, IsFiniteSet(T), \A j \in T : list[j] \in ItemsOf(Ids)
  PROVE  /\ IdsAt(list, T) \subseteq Ids
         /\ CountMap(list, T) \in [IdsAt(list, T) -> Nat]
  BY PlacedWhole DEF CountMap, IdsAt, ItemsOf

\* The map that createItemMap folds, in whatever order it takes the places.
LEMMA MapOf ==
  ASSUME NEW Ids, NEW items \in Seq(ItemsOf(Ids))
  PROVE  Calculations!createItemMap(items) = CountMap(items, DOMAIN items)
  <1> DEFINE D == DOMAIN items
             V == UNION {[I -> Nat] : I \in SUBSET Ids}
             one == [s \in SUBSET D |-> CHOOSE x \in s : TRUE]
             g == [i \in D |-> [v \in V |-> Calculations!AddItem(items[i], v)]]
             FoldsMap(f) == f = [s \in SUBSET D |->
                IF s = {} THEN Calculations!EmptyMap
                ELSE Calculations!AddItem(items[CHOOSE x \in s : TRUE], f[s \ {CHOOSE x \in s : TRUE}])]
  <1>1. IsFiniteSet(D) /\ \A i \in D : items[i] \in ItemsOf(Ids)
    <2>1. D = 1..Len(items) /\ Len(items) \in Nat
      OBVIOUS
    <2>2. QED
      BY <2>1, FS_Interval
  <1>2. Calculations!EmptyMap \in V
    <2>1. Calculations!EmptyMap \in [{} -> Nat]
      BY DEF Calculations!EmptyMap
    <2>2. QED
      BY <2>1
  <1>3. \A s \in SUBSET D : s # {} => one[s] \in s
    OBVIOUS
  <1>4. ASSUME NEW i \in D, NEW v \in V PROVE Calculations!AddItem(items[i], v) \in V
    <2>1. PICK I \in SUBSET Ids : v \in [I -> Nat]
      OBVIOUS
    <2>2. items[i].itemId \in Ids /\ items[i].count \in Nat
      BY <1>1 DEF ItemsOf
    <2>3. Calculations!AddItem(items[i], v) \in [I \cup {items[i].itemId} -> Nat]
      BY <2>1, <2>2 DEF Calculations!AddItem
    <2>4. QED
      BY <2>2, <2>3
  <1>5. \A i \in D, v \in V : g[i][v] = Calculations!AddItem(items[i], v)
    <2> HIDE DEF D, V
    <2>1. QED
      OBVIOUS
  <1>6. \E f : FoldsMap(f)
    <2> HIDE DEF D, V, g, one
    <2>0. Carries(g, D, V) /\ Takes(one, D)
      BY <1>3, <1>4, <1>5 DEF Carries, Takes
    <2>1. PICK f : FoldOf(f, D, V, Calculations!EmptyMap, one, g)
      BY <1>1, <1>2, <2>0, FoldExists
    <2>2. ASSUME NEW s \in SUBSET D, s # {}
          PROVE  f[s] = Calculations!AddItem(items[one[s]], f[s \ {one[s]}])
      <3>1. one[s] \in D /\ f[s \ {one[s]}] \in V
        BY <1>3, <2>1, <2>2 DEF FoldOf
      <3>2. QED
        BY <1>5, <2>1, <2>2, <3>1 DEF FoldOf
    <2>3. \A s \in SUBSET D : one[s] = CHOOSE x \in s : TRUE
      BY DEF one
    <2>4. f = [s \in SUBSET D |->
                IF s = {} THEN Calculations!EmptyMap
                ELSE Calculations!AddItem(items[CHOOSE x \in s : TRUE], f[s \ {CHOOSE x \in s : TRUE}])]
      BY <2>1, <2>2, <2>3 DEF FoldOf
    <2>5. QED
      BY <2>4 DEF FoldsMap
  <1> DEFINE F == CHOOSE f : FoldsMap(f)
  <1>7. FoldsMap(F)
    BY <1>6
  <1>8. Calculations!createItemMap(items) = F[D]
    BY DEF Calculations!createItemMap, Calculations!FoldSeq, Calculations!FoldFunction,
           Calculations!FoldFunctionOnSet, Calculations!MapThenFoldSet
  <1> HIDE DEF F
  <1>9. \A s \in SUBSET D : F[s] = IF s = {} THEN Calculations!EmptyMap
            ELSE Calculations!AddItem(items[CHOOSE x \in s : TRUE], F[s \ {CHOOSE x \in s : TRUE}])
    BY <1>7
  <1> HIDE DEF FoldsMap, V, g, one, D
  <1> DEFINE T == {n \in Nat : \A s \in SUBSET D : Cardinality(s) = n => F[s] = CountMap(items, s)}
  <1>10. \A s \in SUBSET D : IsFiniteSet(s) /\ Cardinality(s) \in Nat
    BY <1>1, FS_Subset, FS_CardinalityType
  <1>11. 0 \in T
    <2>1. \A s \in SUBSET D : Cardinality(s) = 0 => s = {}
      BY <1>10, FS_EmptySet
    <2>2. F[{}] = CountMap(items, {})
      BY <1>9, NothingPlaced
    <2>3. QED
      BY <2>1, <2>2
  <1>12. ASSUME NEW n \in Nat, n \in T PROVE n + 1 \in T
    <2> SUFFICES ASSUME NEW s \in SUBSET D, Cardinality(s) = n + 1 PROVE F[s] = CountMap(items, s)
      OBVIOUS
    <2> DEFINE x == CHOOSE x \in s : TRUE
    <2>1. s # {} /\ IsFiniteSet(s)
      BY <1>10, FS_EmptySet
    <2>2. x \in s
      BY <2>1
    <2>3. F[s] = Calculations!AddItem(items[x], F[s \ {x}])
      BY <1>9, <2>1
    <2> HIDE DEF x
    <2> DEFINE t == s \ {x}
    <2>4. IsFiniteSet(t) /\ Cardinality(t) = n /\ t \in SUBSET D
      <3>1. IsFiniteSet(t) /\ Cardinality(t) = Cardinality(s) - 1
        BY <2>1, <2>2, FewerLeft
      <3>2. QED
        BY <3>1
    <2>5. t \cup {x} = s /\ x \notin t
      BY <2>2
    <2> HIDE DEF t
    <2>6. F[t] = CountMap(items, t)
      BY <1>12, <2>4
    <2>7. \A j \in t \cup {x} : items[j] \in ItemsOf(Ids)
      BY <1>1, <2>5
    <2>8. CountMap(items, t \cup {x}) = Calculations!AddItem(items[x], CountMap(items, t))
      BY <2>4, <2>5, <2>7, PlaceAdded
    <2>9. QED
      BY <2>3, <2>5, <2>6, <2>8 DEF t
  <1> HIDE DEF T
  <1>13. Cardinality(D) \in T
    BY <1>10, <1>11, <1>12, NumberInduction
  <1>14. F[D] = CountMap(items, D)
    BY <1>13 DEF T
  <1>15. QED
    BY <1>8, <1>14 DEF D

Distinct(list) == \A i, j \in DOMAIN list : list[i].itemId = list[j].itemId => i = j
CountsOf(list) == CountMap(list, DOMAIN list)

\* An item appended to a list is added to its map.
LEMMA AppendCounts ==
  ASSUME NEW Ids, NEW list \in Seq(ItemsOf(Ids)), NEW item \in ItemsOf(Ids)
  PROVE  /\ Append(list, item) \in Seq(ItemsOf(Ids))
         /\ CountsOf(Append(list, item)) = Calculations!AddItem(item, CountsOf(list))
  <1> DEFINE m == Append(list, item)
             n == Len(list)
             D == 1..n
  <1>1. n \in Nat /\ DOMAIN list = D /\ \A j \in D : list[j] \in ItemsOf(Ids)
    OBVIOUS
  <1>2. /\ m \in Seq(ItemsOf(Ids)) /\ m[n + 1] = item /\ \A j \in D : m[j] = list[j]
        /\ DOMAIN m = 1..(n + 1)
    OBVIOUS
  <1>3. 1..(n + 1) = D \cup {n + 1} /\ n + 1 \notin D /\ IsFiniteSet(D)
    <2>1. n \in Nat /\ IsFiniteSet(1..n)
      BY <1>1, FS_Interval
    <2> HIDE DEF n
    <2>2. 1..(n + 1) = 1..n \cup {n + 1} /\ n + 1 \notin 1..n
      BY <2>1
    <2>3. QED
      BY <2>1, <2>2
  <1> HIDE DEF D, n, m
  <1>4. \A j \in D \cup {n + 1} : m[j] \in ItemsOf(Ids)
    BY <1>1, <1>2
  <1>5. CountMap(m, D \cup {n + 1}) = Calculations!AddItem(m[n + 1], CountMap(m, D))
    BY <1>3, <1>4, PlaceAdded
  <1>6. CountMap(m, D) = CountMap(list, D)
    BY <1>2, SamePlaces
  <1>7. CountsOf(m) = Calculations!AddItem(item, CountsOf(list))
    BY <1>1, <1>2, <1>3, <1>5, <1>6 DEF CountsOf
  <1>8. QED
    BY <1>2, <1>7 DEF m

\* CountsOf added one after the other or at once.
LEMMA AddedTwice ==
  ASSUME NEW Ids, NEW a \in ItemsOf(Ids), NEW b \in ItemsOf(Ids), NEW c \in ItemsOf(Ids),
         a.itemId = b.itemId, c.itemId = b.itemId, c.count = a.count + b.count,
         NEW I, NEW map \in [I -> Nat]
  PROVE  Calculations!AddItem(c, map) = Calculations!AddItem(b, Calculations!AddItem(a, map))
  <1> DEFINE first == Calculations!AddItem(a, map)
             k == b.itemId
             Old(id) == IF id \in I THEN map[id] ELSE 0
  <1>1. /\ DOMAIN map = I /\ a.count \in Nat /\ b.count \in Nat
        /\ \A id : Old(id) \in Nat
    BY DEF ItemsOf
  <1>2. first = [id \in I \cup {k} |-> Old(id) + (IF id = k THEN a.count ELSE 0)]
    BY DEF Calculations!AddItem
  <1>3. Calculations!AddItem(c, map)
          = [id \in I \cup {k} |-> Old(id) + (IF id = k THEN a.count + b.count ELSE 0)]
    BY DEF Calculations!AddItem
  <1> HIDE DEF first, k, Old
  <1>4. Calculations!AddItem(b, first)
          = [id \in I \cup {k} |-> first[id] + (IF id = k THEN b.count ELSE 0)]
    BY <1>2 DEF Calculations!AddItem, k
  <1>5. ASSUME NEW id \in I \cup {k}
        PROVE  first[id] + (IF id = k THEN b.count ELSE 0)
                 = Old(id) + (IF id = k THEN a.count + b.count ELSE 0)
    BY <1>1, <1>2
  <1>6. QED
    BY <1>3, <1>4, <1>5 DEF first

\* An item merged into a list is added to its map, whether or not the list held it,
\* and a list that held each item once still does.
LEMMA MergeCounts ==
  ASSUME NEW Ids, NEW list \in Seq(ItemsOf(Ids)), NEW item \in ItemsOf(Ids)
  PROVE  LET m == Calculations!Merge(list, item)
         IN  /\ m \in Seq(ItemsOf(Ids))
             /\ Distinct(list) => Distinct(m) /\ CountsOf(m) = Calculations!AddItem(item, CountsOf(list))
  <1> DEFINE m == Calculations!Merge(list, item)
             kept == {i \in DOMAIN list : list[i].itemId = item.itemId}
             k == CHOOSE i \in kept : TRUE
             D == DOMAIN list
  <1>1. D = 1..Len(list) /\ Len(list) \in Nat /\ \A j \in D : list[j] \in ItemsOf(Ids)
    OBVIOUS
  <1>2. CASE kept = {}
    <2>1. m = Append(list, item)
      BY <1>2 DEF Calculations!Merge
    <2>2. m \in Seq(ItemsOf(Ids)) /\ CountsOf(m) = Calculations!AddItem(item, CountsOf(list))
      BY <2>1, AppendCounts
    <2>3. ASSUME Distinct(list) PROVE Distinct(m)
      <3>1. /\ DOMAIN m = D \cup {Len(list) + 1} /\ Len(list) + 1 \notin D
            /\ m[Len(list) + 1] = item /\ \A j \in D : m[j] = list[j]
        BY <1>1, <2>1
      <3>2. \A j \in D : list[j].itemId # item.itemId
        BY <1>2
      <3> HIDE DEF m, D
      <3>3. QED
        BY <2>3, <3>1, <3>2 DEF Distinct, D
    <2>4. QED
      BY <2>2, <2>3
  <1>3. CASE kept # {}
    <2> DEFINE c == [list[k] EXCEPT !.count = @ + item.count]
               n == list[k].count + item.count
    <2>1. k \in D /\ list[k].itemId = item.itemId
      BY <1>3
    <2>2. m = [list EXCEPT ![k].count = @ + item.count]
      BY <1>3 DEF Calculations!Merge
    <2> HIDE DEF k, kept, m
    <2>3. list[k] \in ItemsOf(Ids) /\ n \in Nat
      BY <1>1, <2>1 DEF ItemsOf
    <2>4. /\ c \in ItemsOf(Ids) /\ c.itemId = item.itemId
          /\ c.count = list[k].count + item.count
      BY <2>1, <2>3 DEF ItemsOf
    <2>5. m = [list EXCEPT ![k] = c]
      BY <2>2
    <2> HIDE DEF c, n
    <2>6. m \in Seq(ItemsOf(Ids)) /\ DOMAIN m = D /\ m[k] = c /\ \A j \in D \ {k} : m[j] = list[j]
      BY <2>1, <2>4, <2>5
    <2>7. ASSUME Distinct(list) PROVE Distinct(m)
      <3>1. \A j \in D : m[j].itemId = list[j].itemId
        BY <2>1, <2>4, <2>6
      <3>2. QED
        BY <2>6, <2>7, <3>1 DEF Distinct
    <2>8. CountsOf(m) = Calculations!AddItem(item, CountsOf(list))
      <3> DEFINE R == D \ {k}
      <3>1. IsFiniteSet(R) /\ R \cup {k} = D /\ k \notin R
        <4>1. IsFiniteSet(D)
          BY <1>1, FS_Interval
        <4>2. QED
          BY <2>1, <4>1, FS_RemoveElement
      <3>2. CountMap(m, R) = CountMap(list, R)
        BY <2>6, SamePlaces
      <3> HIDE DEF D, R
      <3>3. CountMap(m, R \cup {k}) = Calculations!AddItem(m[k], CountMap(m, R))
        <4>1. \A j \in R \cup {k} : m[j] \in ItemsOf(Ids)
          BY <2>6, <3>1
        <4>2. QED
          BY <3>1, <4>1, PlaceAdded
      <3>4. \A j \in R \cup {k} : list[j] \in ItemsOf(Ids)
        BY <1>1, <3>1
      <3>5. CountMap(list, R \cup {k}) = Calculations!AddItem(list[k], CountMap(list, R))
        BY <3>1, <3>4, PlaceAdded
      <3> DEFINE map == CountMap(list, R)
                 I == IdsAt(list, R)
      <3>6. map \in [I -> Nat]
        BY <3>1, <3>4, CountMapType
      <3> HIDE DEF map, I
      <3>7. Calculations!AddItem(c, map) = Calculations!AddItem(item, Calculations!AddItem(list[k], map))
        BY <2>1, <2>3, <2>4, <3>6, AddedTwice
      <3>8. QED
        BY <2>6, <3>1, <3>2, <3>3, <3>5, <3>7 DEF CountsOf, D, map
    <2>9. QED
      BY <2>6, <2>7, <2>8 DEF m
  <1>4. QED
    BY <1>2, <1>3

FoldsList(f, e, list) ==
  f = [s \in SUBSET DOMAIN list |->
         IF s = {} THEN e
         ELSE Calculations!Merge(f[s \ {Calculations!Max(s)}], list[Calculations!Max(s)])]

\* The fold that merges the items of one list into another is some function.
LEMMA ListFolds ==
  ASSUME NEW Ids, NEW e \in Seq(ItemsOf(Ids)), NEW list \in Seq(ItemsOf(Ids))
  PROVE  \E f : /\ FoldsList(f, e, list)
                /\ Calculations!FoldLeft(Calculations!Merge, e, list) = f[DOMAIN list]
  <1> DEFINE D == DOMAIN list
             V == Seq(ItemsOf(Ids))
             last == [s \in SUBSET D |-> Calculations!Max(s)]
             g == [i \in D |-> [v \in V |-> Calculations!Merge(v, list[i])]]
  <1>1. IsFiniteSet(D) /\ \A i \in D : list[i] \in ItemsOf(Ids)
    <2>1. D = 1..Len(list) /\ Len(list) \in Nat
      OBVIOUS
    <2>2. QED
      BY <2>1, FS_Interval
  <1>2. \A s \in SUBSET D : s # {} => Calculations!Max(s) \in s
    <2>1. D = 1..Len(list) /\ Len(list) \in Nat
      OBVIOUS
    <2>2. QED
      BY <2>1, LastIndex
  <1>3. ASSUME NEW i \in D, NEW v \in V PROVE Calculations!Merge(v, list[i]) \in V
    BY <1>1, MergeCounts
  <1>4. \A i \in D, v \in V : g[i][v] = Calculations!Merge(v, list[i])
    <2> HIDE DEF D, V
    <2>1. QED
      OBVIOUS
  <1> HIDE DEF D, V, g
  <1>5. Carries(g, D, V) /\ Takes(last, D)
    BY <1>2, <1>3, <1>4 DEF Carries, Takes
  <1> HIDE DEF last
  <1>6. PICK f : FoldOf(f, D, V, e, last, g)
    <2>1. e \in V
      BY DEF V
    <2>2. QED
      BY <1>1, <1>5, <2>1, FoldExists
  <1>7. \A s \in SUBSET D : last[s] = Calculations!Max(s)
    BY DEF last
  <1>8. ASSUME NEW s \in SUBSET D, s # {}
        PROVE  f[s] = Calculations!Merge(f[s \ {last[s]}], list[last[s]])
    <2>1. last[s] \in D /\ f[s \ {last[s]}] \in V
      BY <1>2, <1>6, <1>7, <1>8 DEF FoldOf
    <2>2. QED
      BY <1>4, <1>6, <1>8, <2>1 DEF FoldOf
  <1>9. f = [s \in SUBSET D |->
               IF s = {} THEN e
               ELSE Calculations!Merge(f[s \ {Calculations!Max(s)}], list[Calculations!Max(s)])]
    BY <1>6, <1>7, <1>8 DEF FoldOf
  <1>10. \E h : FoldsList(h, e, list)
    BY <1>9 DEF FoldsList, D
  <1> DEFINE F == CHOOSE h : FoldsList(h, e, list)
  <1>11. FoldsList(F, e, list)
    BY <1>10
  <1>12. Calculations!FoldLeft(Calculations!Merge, e, list) = F[DOMAIN list]
    BY DEF Calculations!FoldLeft, Calculations!MapThenFoldSet, FoldsList
  <1> HIDE DEF F
  <1>13. QED
    BY <1>11, <1>12

\* The list up to its n-th element, after the elements of z.
LEMMA UpTo ==
  ASSUME NEW E, NEW z \in Seq(E), NEW list \in Seq(E), NEW n \in Nat, n < Len(list)
  PROVE  /\ z \o SubSeq(list, 1, 0) = z
         /\ z \o SubSeq(list, 1, n) \in Seq(E) /\ list[n + 1] \in E
         /\ z \o SubSeq(list, 1, n + 1) = Append(z \o SubSeq(list, 1, n), list[n + 1])
  <1> DEFINE a == SubSeq(list, 1, n)
             x == list[n + 1]
  <1>1. a \in Seq(E) /\ x \in E /\ SubSeq(list, 1, 0) = <<>> /\ n + 1 - 1 = n
    OBVIOUS
  <1>2. z \o SubSeq(list, 1, 0) = z
    BY <1>1, ConcatEmptySeq
  <1>3. SubSeq(list, 1, n + 1) = a \o <<x>>
    <2>1. 1 \in 1..Len(list) /\ n + 1 \in 1..Len(list)
      OBVIOUS
    <2>2. SubSeq(list, 1, n + 1) = SubSeq(list, 1, n + 1 - 1) \o <<list[n + 1]>>
      BY <2>1, SubSeqRecursiveSecond
    <2>3. QED
      BY <1>1, <2>2
  <1>4. <<x>> \in Seq(E)
    BY <1>1
  <1> HIDE DEF a, x
  <1>5. z \o (a \o <<x>>) = (z \o a) \o <<x>> /\ z \o a \in Seq(E)
    BY <1>1, <1>4, ConcatAssociative
  <1>6. (z \o a) \o <<x>> = Append(z \o a, x)
    BY <1>1, <1>5, AppendIsConcat
  <1>7. QED
    BY <1>1, <1>2, <1>3, <1>5, <1>6 DEF a, x

\* Folding a list into distinct entries keeps them distinct, with the counts
\* that the list adds.
LEMMA ListMerged ==
  ASSUME NEW Ids, NEW e \in Seq(ItemsOf(Ids)), NEW list \in Seq(ItemsOf(Ids)),
         NEW z \in Seq(ItemsOf(Ids))
  PROVE  LET m == Calculations!FoldLeft(Calculations!Merge, e, list)
         IN  /\ m \in Seq(ItemsOf(Ids))
             /\ Distinct(e) /\ CountsOf(e) = CountsOf(z) => Distinct(m) /\ CountsOf(m) = CountsOf(z \o list)
  <1> DEFINE Good == Distinct(e) /\ CountsOf(e) = CountsOf(z)
             upTo == [n \in Nat |-> z \o SubSeq(list, 1, n)]
  <1>0. \A n \in Nat : upTo[n] = z \o SubSeq(list, 1, n)
    OBVIOUS
  <1>1. Len(list) \in Nat /\ DOMAIN list = 1..Len(list) /\ 1..0 = {}
    OBVIOUS
  <1>2. PICK f : /\ FoldsList(f, e, list)
                /\ Calculations!FoldLeft(Calculations!Merge, e, list) = f[DOMAIN list]
    BY ListFolds
  <1> DEFINE T == {n \in Nat : n <= Len(list) =>
                     /\ f[1..n] \in Seq(ItemsOf(Ids))
                     /\ Good => Distinct(f[1..n]) /\ CountsOf(f[1..n]) = CountsOf(upTo[n])}
  <1>3. f[{}] = e
    BY <1>2 DEF FoldsList
  <1>4. upTo[0] = z
    <2>1. SubSeq(list, 1, 0) = <<>>
      OBVIOUS
    <2>2. QED
      BY <2>1, ConcatEmptySeq
  <1>5. upTo[Len(list)] = z \o list
    BY <1>1, SubSeqFull
  <1> HIDE DEF upTo, Good
  <1>6. 0 \in T
    BY <1>1, <1>3, <1>4 DEF Good
  <1>7. ASSUME NEW n \in Nat, n \in T PROVE n + 1 \in T
    <2> SUFFICES ASSUME n + 1 <= Len(list)
                 PROVE  /\ f[1..(n + 1)] \in Seq(ItemsOf(Ids))
                        /\ Good => /\ Distinct(f[1..(n + 1)])
                                   /\ CountsOf(f[1..(n + 1)]) = CountsOf(upTo[n + 1])
      OBVIOUS
    <2> DEFINE l == f[1..n]
               x == list[n + 1]
    <2>1. l \in Seq(ItemsOf(Ids)) /\ (Good => Distinct(l) /\ CountsOf(l) = CountsOf(upTo[n]))
      BY <1>1, <1>7
    <2>2. /\ 1..(n + 1) \in SUBSET DOMAIN list /\ 1..(n + 1) # {}
          /\ (1..(n + 1)) \ {n + 1} = 1..n
      <3>1. n + 1 \in 1..(n + 1)
        OBVIOUS
      <3>2. \A i : i \in 1..(n + 1) /\ i # n + 1 <=> i \in 1..n
        OBVIOUS
      <3>3. \A i \in 1..(n + 1) : i \in 1..Len(list)
        BY <1>1
      <3>4. QED
        BY <1>1, <3>1, <3>2, <3>3
    <2>3. Calculations!Max(1..(n + 1)) = n + 1
      BY LastIndex
    <2>4. f[1..(n + 1)] = Calculations!Merge(l, x)
      <3> DEFINE s == 1..(n + 1)
      <3>1. f[s] = Calculations!Merge(f[s \ {Calculations!Max(s)}], list[Calculations!Max(s)])
        BY <1>2, <2>2 DEF FoldsList
      <3> HIDE DEF s
      <3>2. Calculations!Max(s) = n + 1 /\ s \ {n + 1} = 1..n
        BY <2>2, <2>3 DEF s
      <3>3. QED
        BY <3>1, <3>2 DEF s
    <2>5. /\ upTo[n] \in Seq(ItemsOf(Ids)) /\ x \in ItemsOf(Ids)
          /\ upTo[n + 1] = Append(upTo[n], x)
      <3>1. /\ z \o SubSeq(list, 1, n) \in Seq(ItemsOf(Ids)) /\ list[n + 1] \in ItemsOf(Ids)
            /\ z \o SubSeq(list, 1, n + 1) = Append(z \o SubSeq(list, 1, n), list[n + 1])
        <4>1. n < Len(list)
          BY <1>1
        <4>2. QED
          BY <4>1, UpTo
      <3>2. upTo[n] = z \o SubSeq(list, 1, n) /\ upTo[n + 1] = z \o SubSeq(list, 1, n + 1)
        <4>1. n + 1 \in Nat
          OBVIOUS
        <4>2. QED
          BY <1>0, <4>1, Zenon
      <3>3. QED
        BY <3>1, <3>2
    <2> HIDE DEF T, l, x
    <2>6. /\ Calculations!Merge(l, x) \in Seq(ItemsOf(Ids))
          /\ Distinct(l) => /\ Distinct(Calculations!Merge(l, x))
                            /\ CountsOf(Calculations!Merge(l, x)) = Calculations!AddItem(x, CountsOf(l))
      BY <2>1, <2>5, MergeCounts
    <2>7. CountsOf(upTo[n + 1]) = Calculations!AddItem(x, CountsOf(upTo[n]))
      BY <2>5, AppendCounts
    <2>8. QED
      BY <2>1, <2>4, <2>6, <2>7
  <1> HIDE DEF T
  <1>8. Len(list) \in T
    BY <1>1, <1>6, <1>7, NumberInduction
  <1>9. QED
    <2>1. /\ f[1..Len(list)] \in Seq(ItemsOf(Ids))
          /\ Good => /\ Distinct(f[1..Len(list)])
                     /\ CountsOf(f[1..Len(list)]) = CountsOf(upTo[Len(list)])
      BY <1>1, <1>8 DEF T
    <2>2. QED
      BY <1>1, <1>2, <1>5, <2>1 DEF Good

\* What mergeItemLists makes of two lists holds each item once, with the counts
\* that createItemMap gives their concatenation.
MergedOnce(x, y) ==
  LET merged == Calculations!mergeItemLists(<<x, y>>)
  IN  /\ \A i, j \in DOMAIN merged : merged[i].itemId = merged[j].itemId => i = j
      /\ Calculations!createItemMap(merged) = Calculations!createItemMap(x \o y)

\* Any two lists of counted items are merged so, and not only the short ones of
\* RulesAgree.
THEOREM MergedForAllLists ==
  ASSUME NEW Ids, NEW x \in Seq(ItemsOf(Ids)), NEW y \in Seq(ItemsOf(Ids))
  PROVE  MergedOnce(x, y)
  <1> DEFINE lists == <<x, y>>
             Into(e, list) == Calculations!FoldLeft(Calculations!Merge, e, list)
             none == <<>>
             FoldsLists(f) == f = [s \in SUBSET DOMAIN lists |->
                IF s = {} THEN none
                ELSE Into(f[s \ {Calculations!Max(s)}], lists[Calculations!Max(s)])]
             first == Into(none, x)
             merged == Into(first, y)
             f == [s \in SUBSET {1, 2} |->
                     IF s = {} THEN none ELSE IF s = {1} THEN first
                     ELSE IF s = {2} THEN Into(none, y) ELSE merged]
             F == CHOOSE h : FoldsLists(h)
  <1>0. \A e, list, z \in Seq(ItemsOf(Ids)) :
          /\ Into(e, list) \in Seq(ItemsOf(Ids))
          /\ Distinct(e) /\ CountsOf(e) = CountsOf(z)
             => Distinct(Into(e, list)) /\ CountsOf(Into(e, list)) = CountsOf(z \o list)
    BY ListMerged
  <1>1. DOMAIN lists = {1, 2} /\ lists[1] = x /\ lists[2] = y
    OBVIOUS
  <1>2. \A s \in SUBSET {1, 2} : s = {} \/ s = {1} \/ s = {2} \/ s = {1, 2}
    OBVIOUS
  <1>3. Calculations!Max({1}) = 1 /\ Calculations!Max({2}) = 2 /\ Calculations!Max({1, 2}) = 2
    <2>1. Calculations!Max({1}) = 1
      BY DEF Calculations!Max
    <2>2. Calculations!Max({2}) = 2
      BY DEF Calculations!Max
    <2>3. \A m \in {1, 2} : (\A k \in {1, 2} : m >= k) <=> m = 2
      OBVIOUS
    <2>4. Calculations!Max({1, 2}) = 2
      BY <2>3 DEF Calculations!Max
    <2>5. QED
      BY <2>1, <2>2, <2>4
  <1> HIDE DEF lists, Into, none
  <1>4. f[{}] = none /\ f[{1}] = first /\ f[{2}] = Into(none, y) /\ f[{1, 2}] = merged
    <2> HIDE DEF first, merged
    <2>1. {1} # {2} /\ {1, 2} # {1} /\ {1, 2} # {2}
      <3>1. 1 \in {1} /\ 1 \notin {2} /\ 2 \notin {1} /\ 1 \in {1, 2} /\ 2 \in {1, 2}
        OBVIOUS
      <3>2. QED
        BY <3>1, Zenon
    <2>2. QED
      BY <2>1
  <1>5. {1} \ {1} = {} /\ {2} \ {2} = {} /\ {1, 2} \ {2} = {1}
    OBVIOUS
  <1> HIDE DEF f
  <1>6. FoldsLists(f)
    <2>1. ASSUME NEW s \in SUBSET {1, 2}
          PROVE  f[s] = IF s = {} THEN none
                        ELSE Into(f[s \ {Calculations!Max(s)}], lists[Calculations!Max(s)])
      <3>1. CASE s = {}
        BY <3>1, <1>4
      <3>2. CASE s = {1}
        BY <3>2, <1>1, <1>3, <1>4, <1>5
      <3>3. CASE s = {2}
        BY <3>3, <1>1, <1>3, <1>4, <1>5
      <3>4. CASE s = {1, 2}
        BY <3>4, <1>1, <1>3, <1>4, <1>5
      <3>5. QED
        BY <1>2, <3>1, <3>2, <3>3, <3>4
    <2>2. f = [s \in SUBSET {1, 2} |-> f[s]]
      BY DEF f
    <2>3. QED
      BY <1>1, <2>1, <2>2
  <1>7. FoldsLists(F)
    BY <1>6
  <1>8. Calculations!mergeItemLists(lists) = F[{1, 2}]
    BY <1>1 DEF Calculations!mergeItemLists, Calculations!FoldLeft, Calculations!MapThenFoldSet, Into, none
  <1> HIDE DEF F
  <1>9. \A s \in SUBSET {1, 2} :
          F[s] = IF s = {} THEN none
                 ELSE Into(F[s \ {Calculations!Max(s)}], lists[Calculations!Max(s)])
    BY <1>1, <1>7
  <1> HIDE DEF FoldsLists
  <1>10. F[{}] = none
    BY <1>9
  <1>11. F[{1}] = first
    <2>1. {1} \in SUBSET {1, 2} /\ {1} # {}
      OBVIOUS
    <2>2. F[{1}] = Into(F[{1} \ {Calculations!Max({1})}], lists[Calculations!Max({1})])
      BY <1>9, <2>1, Zenon
    <2>3. F[{1}] = Into(F[{}], x)
      BY <1>1, <1>3, <1>5, <2>2, Zenon
    <2>4. QED
      BY <1>10, <2>3
  <1>12. F[{1, 2}] = merged
    <2>1. {1, 2} \in SUBSET {1, 2} /\ {1, 2} # {}
      OBVIOUS
    <2>2. F[{1, 2}] = Into(F[{1, 2} \ {Calculations!Max({1, 2})}], lists[Calculations!Max({1, 2})])
      BY <1>9, <2>1, Zenon
    <2>3. F[{1, 2}] = Into(F[{1}], y)
      BY <1>1, <1>3, <1>5, <2>2, Zenon
    <2>4. QED
      BY <1>11, <2>3
  <1>13. Calculations!mergeItemLists(lists) = merged
    BY <1>8, <1>12
  <1>14. /\ none \in Seq(ItemsOf(Ids)) /\ Distinct(none) /\ none \o x = x
    <2>1. none \in Seq(ItemsOf(Ids)) /\ DOMAIN none = {}
      BY DEF none
    <2>2. none \o x = x
      BY ConcatEmptySeq DEF none
    <2>3. QED
      BY <2>1, <2>2 DEF Distinct
  <1>15. first \in Seq(ItemsOf(Ids)) /\ Distinct(first) /\ CountsOf(first) = CountsOf(x)
    <2>1. CountsOf(none \o x) = CountsOf(x)
      BY <1>14
    <2>2. QED
      BY <1>0, <1>14, <2>1
  <1> HIDE DEF first
  <1>16. merged \in Seq(ItemsOf(Ids)) /\ Distinct(merged) /\ CountsOf(merged) = CountsOf(x \o y)
    BY <1>0, <1>15
  <1> HIDE DEF merged
  <1>17. x \o y \in Seq(ItemsOf(Ids))
    OBVIOUS
  <1>18. Calculations!createItemMap(merged) = Calculations!createItemMap(x \o y)
    BY <1>16, <1>17, MapOf DEF CountsOf
  <1>19. QED
    BY <1>13, <1>16, <1>18 DEF Distinct, lists, MergedOnce

-----------------------------------------------------------------------------

\* The rules that are written twice, for all levels and amounts and not only
\* those of RulesAgree: a party is suppressed exactly when the reward of its
\* lowest member is halved, the slots open at the levels of the constants, and
\* selling in parts never raises the tax.
THEOREM RulesForAllNumbers ==
  /\ \A a, b \in Nat, base \in Nat \ {0} :
       Calculations!hasSuppression({a, b}) <=>
         Calculations!calculateSuppressedReward(base, Calculations!Highest({a, b}),
                                                Calculations!Lowest({a, b})) = base \div 2
  /\ \A l \in Nat :
       LET levels == Calculations!MERIDIAN_SLOT_UNLOCK_LEVELS
           n == Calculations!maxSlots(l)
       IN  /\ n >= 3 <=> l >= levels.SLOT_3
           /\ n >= 4 <=> l >= levels.SLOT_4
           /\ n >= 5 <=> l >= levels.SLOT_5
  /\ \A a, b \in Nat :
       Calculations!calculateTradeTax(a) + Calculations!calculateTradeTax(b)
         <= Calculations!calculateTradeTax(a + b)
<1>1. ASSUME NEW a \in Nat, NEW b \in Nat, NEW base \in Nat \ {0}
      PROVE  Calculations!hasSuppression({a, b}) <=>
               Calculations!calculateSuppressedReward(base, Calculations!Highest({a, b}),
                                                      Calculations!Lowest({a, b})) = base \div 2
  <2> DEFINE h == Calculations!Highest({a, b})
             l == Calculations!Lowest({a, b})
  <2>1. h \in Nat /\ l \in Nat
    <3>1. \E n \in {a, b} : \A m \in {a, b} : n >= m
      <4>1. CASE a >= b
        BY <4>1
      <4>2. CASE b >= a
        BY <4>2
      <4>3. QED
        BY <4>1, <4>2
    <3>2. \E n \in {a, b} : \A m \in {a, b} : n <= m
      <4>1. CASE a <= b
        BY <4>1
      <4>2. CASE b <= a
        BY <4>2
      <4>3. QED
        BY <4>1, <4>2
    <3>3. h \in {a, b} /\ l \in {a, b}
      BY <3>1, <3>2 DEF Calculations!Highest, Calculations!Lowest
    <3>4. QED
      BY <3>3
  <2>2. base \div 2 # base
    OBVIOUS
  <2> HIDE DEF h, l
  <2>3. Calculations!hasSuppression({a, b}) <=> (h - l) * 5 > l
    BY DEF Calculations!hasSuppression, h, l
  <2>4. Calculations!calculateSuppressedReward(base, h, l)
          = IF (h - l) * 5 > l THEN base \div 2 ELSE base
    BY DEF Calculations!calculateSuppressedReward
  <2>5. QED
    BY <2>2, <2>3, <2>4 DEF h, l
<1>2. ASSUME NEW l \in Nat
      PROVE  LET levels == Calculations!MERIDIAN_SLOT_UNLOCK_LEVELS
                 n == Calculations!maxSlots(l)
             IN  /\ n >= 3 <=> l >= levels.SLOT_3
                 /\ n >= 4 <=> l >= levels.SLOT_4
                 /\ n >= 5 <=> l >= levels.SLOT_5
  <2>1. /\ Calculations!validateMeridianSlot(l, 2) <=> l >= 20
        /\ Calculations!validateMeridianSlot(l, 3) <=> l >= 50
        /\ Calculations!validateMeridianSlot(l, 4) <=> l >= 90
    BY DEF Calculations!validateMeridianSlot
  <2>2. QED
    BY <2>1 DEF Calculations!maxSlots, Calculations!MERIDIAN_SLOT_UNLOCK_LEVELS
<1>3. ASSUME NEW a \in Nat, NEW b \in Nat
      PROVE  Calculations!calculateTradeTax(a) + Calculations!calculateTradeTax(b)
               <= Calculations!calculateTradeTax(a + b)
  BY <1>3 DEF Calculations!calculateTradeTax
<1>4. QED
  BY <1>1, <1>2, <1>3

\* The rules that are written twice agree on the levels, lists and amounts that
\* the runs choose from.
THEOREM RulesAlwaysAgree == Spec => []RulesAgree
<1>1. \A a, b \in Calculations!SomeLevels :
        Calculations!hasSuppression({a, b}) <=>
          Calculations!calculateSuppressedReward(10, Calculations!Highest({a, b}),
                                                 Calculations!Lowest({a, b})) = 5
  <2>1. Calculations!SomeLevels \subseteq Nat
    BY DEF Calculations!SomeLevels, Calculations!getRealmLevel
  <2>2. 10 \in Nat \ {0} /\ 10 \div 2 = 5
    OBVIOUS
  <2>3. \A a, b \in Nat, base \in Nat \ {0} :
          Calculations!hasSuppression({a, b}) <=>
            Calculations!calculateSuppressedReward(base, Calculations!Highest({a, b}),
                                                   Calculations!Lowest({a, b})) = base \div 2
    BY RulesForAllNumbers
  <2>4. \A a, b \in Nat :
          Calculations!hasSuppression({a, b}) <=>
            Calculations!calculateSuppressedReward(10, Calculations!Highest({a, b}),
                                                   Calculations!Lowest({a, b})) = 10 \div 2
    BY <2>2, <2>3
  <2>5. QED
    BY <2>1, <2>2, <2>4
<1>2. \A x, y \in Calculations!SomeLists : MergedOnce(x, y)
  <2> DEFINE Ids == {"herb", "stone"}
  <2>1. Calculations!SomeItems \subseteq ItemsOf(Ids)
    BY DEF Calculations!SomeItems, ItemsOf
  <2>2. Calculations!SomeLists \subseteq Seq(ItemsOf(Ids))
    <3>1. ASSUME NEW n \in 0..2, NEW x \in [1..n -> Calculations!SomeItems]
          PROVE  x \in Seq(ItemsOf(Ids))
      <4>1. n \in Nat /\ x \in [1..n -> ItemsOf(Ids)]
        BY <2>1
      <4>2. QED
        BY <4>1, IsASeq
    <3>2. QED
      BY <3>1 DEF Calculations!SomeLists
  <2> HIDE DEF Ids
  <2>3. QED
    BY <2>2, MergedForAllLists
<1>3. \A l \in 0..100 :
        /\ Calculations!maxSlots(l) >= 3 <=> l >= Calculations!MERIDIAN_SLOT_UNLOCK_LEVELS.SLOT_3
        /\ Calculations!maxSlots(l) >= 4 <=> l >= Calculations!MERIDIAN_SLOT_UNLOCK_LEVELS.SLOT_4
        /\ Calculations!maxSlots(l) >= 5 <=> l >= Calculations!MERIDIAN_SLOT_UNLOCK_LEVELS.SLOT_5
  <2>1. ASSUME NEW l \in 0..100
        PROVE  /\ Calculations!maxSlots(l) >= 3 <=> l >= Calculations!MERIDIAN_SLOT_UNLOCK_LEVELS.SLOT_3
               /\ Calculations!maxSlots(l) >= 4 <=> l >= Calculations!MERIDIAN_SLOT_UNLOCK_LEVELS.SLOT_4
               /\ Calculations!maxSlots(l) >= 5 <=> l >= Calculations!MERIDIAN_SLOT_UNLOCK_LEVELS.SLOT_5
    <3>1. l \in Nat
      OBVIOUS
    <3>2. QED
      BY <3>1, RulesForAllNumbers, Zenon
  <2>2. QED
    BY <2>1, Zenon
<1>4. \A a, b \in 0..60 :
        Calculations!calculateTradeTax(a) + Calculations!calculateTradeTax(b)
          <= Calculations!calculateTradeTax(a + b)
  <2>1. ASSUME NEW a \in 0..60, NEW b \in 0..60
        PROVE  Calculations!calculateTradeTax(a) + Calculations!calculateTradeTax(b)
                 <= Calculations!calculateTradeTax(a + b)
    <3>1. a \in Nat /\ b \in Nat
      OBVIOUS
    <3>2. QED
      BY <3>1, RulesForAllNumbers, Zenon
  <2>2. QED
    BY <2>1, Zenon
<1>5. Calculations!RulesAgree
  BY <1>1, <1>2, <1>3, <1>4, Zenon DEF Calculations!RulesAgree, MergedOnce
<1>6. RulesAgree
  BY <1>5 DEF RulesAgree
<1>7. QED
  BY <1>6, PTL

\* X_RESP is what getResponseCode makes of X_REQ and getRequestCode turns it back,
\* in the section that getMessageModule gives them; no number is two messages',
\* and pushes answer nothing.
THEOREM CodesStayPaired == Spec => []CodesPaired
<1>1. CodesPaired
  BY TablesPaired DEF CodesPaired
<1>2. QED
  BY <1>1, PTL

\* TIME_SYNC, USE_ITEM and LEVEL_UP_PUSH are the only names to which the client's
\* constants or the generator's default configuration give another number than
\* the server, that of another message; the generated functions classify the
\* numbers listed as the server's do.
THEOREM OnlyKnownNamesEverDiffer == Spec => []OnlyKnownNamesDiffer
<1>1. OnlyKnownNamesDiffer
  BY TablesDifferAsKnown DEF OnlyKnownNamesDiffer
<1>2. QED
  BY <1>1, PTL
=============================================================================
