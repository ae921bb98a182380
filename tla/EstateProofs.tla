---------------------------- MODULE EstateProofs ----------------------------
(***************************************************************************)
(* Proofs about Estate for any number of owners, visitors, requests and    *)
(* processes: its types, the exclusion of its two kinds of locks, the      *)
(* timer behind every construction, and the level that each one brings.    *)
(***************************************************************************)
EXTENDS Estate, FiniteSetTheorems, TLAPS

Entry == [level : Nat, isConstructing : BOOLEAN]

\* Which operation can be where.
Placed ==
  \A r \in Requests :
    /\ pc[r] # "idle" => task[r] \in Tasks
    /\ pc[r] \in {"lock", "expire", "getLock", "delLock"} =>
         task[r].op \in {"build", "steal"}
    /\ pc[r] = "update" => task[r].op = "build"
    /\ pc[r] \in {"find", "cool"} => task[r].op = "steal"
    /\ pc[r] = "log" => task[r].op \in {"steal", "assist"}

\* A request that passed getEstate works on a document that is there.
Reached ==
  \A r \in Requests :
    /\ pc[r] \in {"lock", "expire", "update"} /\ task[r].op = "build" =>
         task[r].owner \in exists
    /\ pc[r] \in {"create", "lock", "expire", "update"} /\ task[r].op = "build"
         /\ found[r] => buildings[task[r].owner] # <<>>
    /\ pc[r] = "create" /\ task[r].op = "build" => ~found[r]

\* A timer belongs to a construction of an entry that is there.
Timed ==
  \A r \in Requests :
    timer[r] # "none" =>
      /\ pc[r] # "idle" /\ task[r].op = "build"
      /\ buildings[task[r].owner] # <<>>

TypeInv == TypeOK /\ Placed /\ Reached /\ Timed

-----------------------------------------------------------------------------
\* The entries of a building

LEMMA StartedEntries ==
  ASSUME NEW b \in Seq(Entry), NEW f \in BOOLEAN, f => b # <<>>
  PROVE  LET c == IF f THEN [b EXCEPT ![1].isConstructing = TRUE]
                  ELSE Append(b, [level |-> 0, isConstructing |-> TRUE])
         IN  c \in Seq(Entry) /\ c # <<>>
  <1>1. CASE f
    <2>1. 1 \in 1..Len(b) /\ b[1] \in Entry
      BY <1>1
    <2>2. [b[1] EXCEPT !.isConstructing = TRUE] \in Entry
      BY <2>1 DEF Entry
    <2>3. [b EXCEPT ![1].isConstructing = TRUE]
            = [b EXCEPT ![1] = [b[1] EXCEPT !.isConstructing = TRUE]]
      OBVIOUS
    <2>4. QED
      BY <1>1, <2>1, <2>2, <2>3
  <1>2. CASE ~f
    <2>1. [level |-> 0, isConstructing |-> TRUE] \in Entry
      BY DEF Entry
    <2>2. QED
      BY <1>2, <2>1
  <1>3. QED
    BY <1>1, <1>2

LEMMA CompletedEntries ==
  ASSUME NEW o \in Owners, buildings[o] \in Seq(Entry), buildings[o] # <<>>
  PROVE  /\ Complete(o) \in Seq(Entry) /\ Complete(o) # <<>>
         /\ ~Complete(o)[1].isConstructing
  <1>1. 1 \in 1..Len(buildings[o]) /\ buildings[o][1] \in Entry
    OBVIOUS
  <1>2. [level |-> buildings[o][1].level + 1, isConstructing |-> FALSE] \in Entry
    BY <1>1 DEF Entry
  <1>3. QED
    BY <1>1, <1>2 DEF Complete

-----------------------------------------------------------------------------
\* Types

LEMMA TypeInit == Init => TypeInv
  BY DEF Init, Labels, Replies, TypeInv, TypeOK, Placed, Reached, Timed, Lock!LockInit, Lock!Absent

\* Where a request may go, and what it may decide, one label at a time.
LEMMA MoveTypes ==
  ASSUME TypeOK, NEW r \in Requests, NEW l \in Labels, Goto(r, l),
         UNCHANGED reply \/ \E a \in Replies : Decide(r, a)
  PROVE  /\ pc' \in [Requests -> Labels] /\ reply' \in [Requests -> Replies]
         /\ pc'[r] = l /\ \A q \in Requests : q # r => pc'[q] = pc[q]
  BY DEF TypeOK, Goto, Decide

\* An arrival records what was asked.
LEMMA ArrivalTypes ==
  ASSUME TypeOK, NEW r \in Requests, NEW op, NEW p, NEW o, Arrive(r, op, p, o),
         [op |-> op, by |-> p, owner |-> o] \in Tasks
  PROVE  /\ task' \in [Requests -> Tasks \cup {NoTask}]
         /\ task'[r] = [op |-> op, by |-> p, owner |-> o] /\ task'[r] \in Tasks
         /\ \A q \in Requests : q # r => task'[q] = task[q]
         /\ pc[r] = "idle"
  BY DEF TypeOK, Arrive

\* An error ends a request or sends it to the release of its lock.
LEMMA ThrowTypes ==
  ASSUME TypeInv, NEW r \in Requests, InFlight(r), Throw(r),
         UNCHANGED <<docs, timer, task, found>>
  PROVE  /\ pc' \in [Requests -> Labels] /\ reply' \in [Requests -> Replies]
         /\ Placed' /\ Reached' /\ Timed'
  BY DEF TypeInv, TypeOK, Placed, Reached, Timed, InFlight, Throw, Goto,
     Decide, docs, Labels, Replies

LEMMA TypeStep == TypeInv /\ [Next]_vars => TypeInv'
  <1> SUFFICES ASSUME TypeInv, [Next]_vars PROVE TypeInv'
    OBVIOUS
  <1> USE DEF TypeInv, TypeOK, docs, lockVars, Owner, Key
  <1>1. ASSUME NEW r \in Requests, NEW o \in Owners, BuildFind(r, o) PROVE TypeInv'
    <2> DEFINE t == [op |-> "build", by |-> o, owner |-> o]
    <2>1. t \in Tasks /\ Arrive(r, "build", o, o)
      BY <1>1 DEF BuildFind, Tasks
    <2>2. PICK l \in {"create", "lock", "done"} :
            /\ Goto(r, l) /\ (UNCHANGED reply \/ \E a \in Replies : Decide(r, a))
            /\ IF l = "create" THEN o \notin exists ELSE l = "lock" => o \in exists
      BY <1>1 DEF BuildFind, Replies
    <2>3. l \in Labels
      BY DEF Labels
    <2>4. found' = [found EXCEPT ![r] = buildings[o] # <<>>]
      BY <1>1 DEF BuildFind
    <2> HIDE DEF t
    <2>5. TypeOK'
      BY <1>1, <2>1, <2>2, <2>3, <2>4, MoveTypes, ArrivalTypes DEF BuildFind, t
    <2>6. /\ pc'[r] = l /\ task'[r] \in Tasks
          /\ task'[r].op = "build" /\ task'[r].owner = o
      BY <2>1, <2>2, <2>3, MoveTypes, ArrivalTypes DEF t
    <2>7. \A q \in Requests : q # r =>
            pc'[q] = pc[q] /\ task'[q] = task[q] /\ found'[q] = found[q]
      <3>1. \A q \in Requests : q # r => found'[q] = found[q]
        BY <2>4
      <3>2. \A q \in Requests : q # r => task'[q] = task[q]
        BY <2>1, ArrivalTypes DEF t
      <3>3. \A q \in Requests : q # r => pc'[q] = pc[q]
        BY <2>2, <2>3, MoveTypes
      <3>4. QED
        BY <3>1, <3>2, <3>3
    <2>8. Placed'
      BY <2>2, <2>6, <2>7 DEF Placed
    <2>9. UNCHANGED <<exists, buildings, timer>> /\ pc[r] = "idle"
      BY <1>1 DEF BuildFind, Arrive
    <2> DEFINE ReachedBy(q) ==
          /\ pc[q] \in {"lock", "expire", "update"} /\ task[q].op = "build" =>
               task[q].owner \in exists
          /\ pc[q] \in {"create", "lock", "expire", "update"} /\ task[q].op = "build"
               /\ found[q] => buildings[task[q].owner] # <<>>
          /\ pc[q] = "create" /\ task[q].op = "build" => ~found[q]
    <2>10. Reached'
      <3>1. ReachedBy(r)'
        <4>1. found'[r] = (buildings[o] # <<>>)
          BY <2>4
        <4>2. l = "create" => buildings[o] = <<>>
          BY <2>2
        <4>3. QED
          BY <2>2, <2>6, <2>9, <4>1, <4>2
      <3>2. \A q \in Requests : q # r => (ReachedBy(q) => ReachedBy(q)')
        BY <2>7, <2>9
      <3>3. \A q \in Requests : ReachedBy(q)
        BY DEF Reached
      <3> HIDE DEF ReachedBy
      <3>4. \A q \in Requests : ReachedBy(q)'
        BY <3>1, <3>2, <3>3
      <3>5. QED
        BY <3>4 DEF Reached, ReachedBy
    <2>11. Timed'
      <3>1. timer[r] = "none"
        BY <2>9 DEF Timed
      <3>2. ASSUME NEW q \in Requests, timer[q] # "none"
            PROVE  /\ pc'[q] # "idle" /\ task'[q].op = "build"
                   /\ buildings[task'[q].owner] # <<>>
        <4>1. pc'[q] = pc[q] /\ task'[q] = task[q]
          BY <2>7, <3>1, <3>2
        <4>2. QED
          BY <3>2, <4>1 DEF Timed
      <3>3. QED
        BY <2>9, <3>2 DEF Timed
    <2>12. QED
      BY <2>5, <2>8, <2>10, <2>11
  <1>2. ASSUME NEW r \in Requests, NEW v \in Visitors, NEW o \in Owners,
               NEW op \in {"assist", "visit", "steal"}, Arrive(r, op, v, o),
               NEW l \in {"create", "log", "lock", "done"}, Goto(r, l),
               l = "lock" => op = "steal", l = "log" => op = "assist",
               UNCHANGED reply \/ \E a \in Replies : Decide(r, a),
               UNCHANGED <<docs, cooldown, lockVars, timer, found>>
        PROVE  TypeInv'
    <2> DEFINE t == [op |-> op, by |-> v, owner |-> o]
    <2>1. t \in Tasks /\ l \in Labels
      BY DEF Tasks, Labels
    <2> HIDE DEF t
    <2>2. TypeOK'
      BY <1>2, <2>1, MoveTypes, ArrivalTypes DEF t
    <2>3. pc'[r] = l /\ task'[r] \in Tasks /\ task'[r].op = op
      BY <1>2, <2>1, MoveTypes, ArrivalTypes DEF t
    <2>4. \A q \in Requests : q # r => pc'[q] = pc[q] /\ task'[q] = task[q]
      <3>1. \A q \in Requests : q # r => task'[q] = task[q]
        BY <1>2, <2>1, ArrivalTypes DEF t
      <3>2. \A q \in Requests : q # r => pc'[q] = pc[q]
        BY <1>2, <2>1, MoveTypes
      <3>3. QED
        BY <3>1, <3>2
    <2>5. Placed'
      BY <1>2, <2>3, <2>4 DEF Placed
    <2>6. UNCHANGED <<exists, buildings, timer, found>> /\ pc[r] = "idle"
      BY <1>2 DEF Arrive, docs
    <2>7. op # "build"
      OBVIOUS
    <2>8. Reached'
      BY <2>3, <2>4, <2>6, <2>7 DEF Reached
    <2>9. Timed'
      <3>1. timer[r] = "none"
        BY <2>6 DEF Timed
      <3>2. ASSUME NEW q \in Requests, timer[q] # "none"
            PROVE  /\ pc'[q] # "idle" /\ task'[q].op = "build"
                   /\ buildings[task'[q].owner] # <<>>
        <4>1. pc'[q] = pc[q] /\ task'[q] = task[q]
          BY <2>4, <3>1, <3>2
        <4>2. QED
          BY <3>2, <4>1 DEF Timed
      <3>3. QED
        BY <2>6, <3>2 DEF Timed
    <2>10. QED
      BY <2>2, <2>5, <2>8, <2>9
  <1>21. ASSUME NEW r \in Requests, NEW v \in Visitors, NEW o \in Owners,
                AssistFind(r, v, o) \/ VisitFind(r, v, o) \/ StealCooldown(r, v, o)
         PROVE  TypeInv'
    <2>1. CASE AssistFind(r, v, o)
      BY <1>2, <2>1 DEF AssistFind, Replies
    <2>2. CASE VisitFind(r, v, o)
      BY <1>2, <2>2 DEF VisitFind, Replies
    <2>3. CASE StealCooldown(r, v, o)
      BY <1>2, <2>3 DEF StealCooldown, Replies
    <2>4. QED
      BY <1>21, <2>1, <2>2, <2>3
  <1>3. ASSUME NEW r \in Requests, StealFind(r) PROVE TypeInv'
    BY <1>3 DEF StealFind, Goto, Labels, Placed, Reached, Timed
  <1>4. ASSUME NEW r \in Requests, CreateNew(r) PROVE TypeInv'
    <2>1. task[r] \in Tasks /\ task[r].owner \in Owners
      BY <1>4 DEF CreateNew, Placed, Tasks
    <2>2. PICK l \in {"lock", "log", "done"} :
            /\ Goto(r, l) /\ (UNCHANGED reply \/ \E a \in Replies : Decide(r, a))
            /\ l = "lock" => task[r].op = "build"
            /\ l = "log" => task[r].op = "steal"
      BY <1>4, <2>1 DEF CreateNew, Tasks, Replies
    <2>3. l \in Labels
      BY DEF Labels
    <2>4. TypeOK'
      BY <1>4, <2>1, <2>2, <2>3, MoveTypes DEF CreateNew
    <2>5. Placed' /\ Reached' /\ Timed'
      BY <1>4, <2>1, <2>2, <2>3, MoveTypes DEF CreateNew, Placed, Reached, Timed
    <2>6. QED
      BY <2>4, <2>5
  <1>5. ASSUME NEW r \in Requests, CreateClash(r) \/ CallFails(r) PROVE TypeInv'
    <2>1. Throw(r) /\ InFlight(r) /\ UNCHANGED <<docs, timer, task, found>>
      BY <1>5 DEF CreateClash, CallFails, InFlight
    <2>2. QED
      BY <1>5, <2>1, ThrowTypes DEF CreateClash, CallFails
  <1>6. ASSUME NEW r \in Requests, Acquire(r) PROVE TypeInv'
    <2>1. task[r] \in Tasks /\ Key(r) \in LockKeys /\ StampOf[r] \in Nat
      BY <1>6, StampAssumption DEF Acquire, Placed, Tasks, LockKeys
    <2>2. PICK l \in {"expire", "done"} :
            Goto(r, l) /\ (UNCHANGED reply \/ \E a \in Replies : Decide(r, a))
      BY <1>6 DEF Acquire, Replies
    <2>3. l \in Labels
      BY DEF Labels
    <2>4. lockVal' \in [LockKeys -> Nat] /\ UNCHANGED lockTtl
      BY <1>6, <2>1 DEF Acquire, Lock!SetNx
    <2>5. TypeOK'
      BY <1>6, <2>2, <2>3, <2>4, MoveTypes DEF Acquire
    <2>6. Placed' /\ Reached' /\ Timed'
      BY <1>6, <2>2, <2>3, MoveTypes DEF Acquire, Placed, Reached, Timed
    <2>7. QED
      BY <2>5, <2>6
  <1>7. ASSUME NEW r \in Requests, Expire(r) PROVE TypeInv'
    <2>1. TypeOK'
      BY <1>7 DEF Expire, Goto, Labels, Lock!SetExpiry
    <2>2. Placed' /\ Reached' /\ Timed'
      BY <1>7 DEF Expire, Goto, Labels, Placed, Reached, Timed
    <2>3. QED
      BY <2>1, <2>2
  <1>8. ASSUME NEW r \in Requests, GetLock(r) \/ DelLock(r) PROVE TypeInv'
    <2>1. PICK l \in {"delLock", "done"} : Goto(r, l) /\ UNCHANGED reply
      BY <1>8 DEF GetLock, DelLock
    <2>2. l \in Labels
      BY DEF Labels
    <2>3. lockVal' \in [LockKeys -> Nat] /\ lockTtl' \in [LockKeys -> BOOLEAN]
      <3>1. CASE UNCHANGED lockVars
        BY <3>1
      <3>2. CASE DelLock(r)
        BY <3>2 DEF DelLock, Lock!Del, Lock!Absent
      <3>3. QED
        BY <1>8, <3>1, <3>2 DEF GetLock
    <2>4. TypeOK'
      BY <1>8, <2>1, <2>2, <2>3, MoveTypes DEF GetLock, DelLock
    <2>5. Placed' /\ Reached' /\ Timed'
      BY <1>8, <2>1, <2>2, MoveTypes DEF GetLock, DelLock, Placed, Reached, Timed
    <2>6. QED
      BY <2>4, <2>5
  <1>9. ASSUME NEW r \in Requests, pc[r] = "update", StartEntry(r)
        PROVE  /\ buildings' \in [Owners -> Seq(Entry)]
               /\ \A o \in Owners : buildings[o] # <<>> => buildings'[o] # <<>>
               /\ \A o \in Owners : buildings'[o] # <<>> => o \in exists
               /\ task[r].op = "build" /\ buildings'[task[r].owner] # <<>>
    <2>1. /\ task[r] \in Tasks /\ task[r].op = "build" /\ task[r].owner \in Owners
          /\ task[r].owner \in exists
          /\ found[r] => buildings[task[r].owner] # <<>>
      BY <1>9 DEF Placed, Reached, Tasks
    <2>2. buildings \in [Owners -> Seq(Entry)]
      BY DEF Entry
    <2>3. PICK c \in Seq(Entry) :
            c # <<>> /\ buildings' = [buildings EXCEPT ![task[r].owner] = c]
      BY <1>9, <2>1, <2>2, StartedEntries DEF StartEntry
    <2>4. QED
      BY <2>1, <2>2, <2>3
  <1>10. ASSUME NEW r \in Requests, Update(r) PROVE TypeInv'
    <2>1. TypeOK'
      BY <1>9, <1>10 DEF Update, Goto, Decide, Labels, Replies, StartTimer, Entry
    <2>2. Placed' /\ Reached' /\ Timed'
      BY <1>9, <1>10 DEF Update, Goto, Decide, Labels, Replies, StartTimer, Placed, Reached, Timed, Tasks
    <2>3. QED
      BY <2>1, <2>2
  <1>11. ASSUME NEW r \in Requests, UpdateReplyLost(r) PROVE TypeInv'
    <2>1. TypeOK'
      BY <1>9, <1>11 DEF UpdateReplyLost, Throw, Goto, Decide, Labels,
         Replies, Entry
    <2>2. Placed' /\ Reached' /\ Timed'
      BY <1>9, <1>11 DEF UpdateReplyLost, Throw, Goto, Decide, Labels,
         Replies, Placed, Reached, Timed, Tasks
    <2>3. QED
      BY <2>1, <2>2
  <1>12. ASSUME NEW r \in Requests, TimerFires(r) PROVE TypeInv'
    <2>1. /\ task[r].owner \in Owners /\ buildings[task[r].owner] # <<>>
          /\ buildings \in [Owners -> Seq(Entry)]
      BY <1>12 DEF TimerFires, Timed, Placed, Tasks, Entry
    <2>2. PICK c \in Seq(Entry) :
            c # <<>> /\ buildings' = [buildings EXCEPT ![task[r].owner] = c]
      BY <1>12, <2>1, CompletedEntries DEF TimerFires
    <2>3. TypeOK'
      BY <1>12, <2>1, <2>2 DEF TimerFires, Entry
    <2>4. Placed' /\ Reached' /\ Timed'
      BY <1>12, <2>1, <2>2 DEF TimerFires, Placed, Reached, Timed, Tasks
    <2>5. QED
      BY <2>3, <2>4
  <1>13. ASSUME NEW r \in Requests, TimerFails(r) PROVE TypeInv'
    BY <1>13 DEF TimerFails, Placed, Reached, Timed
  <1>14. ASSUME NEW r \in Requests, StealLog(r) \/ AssistLog(r) PROVE TypeInv'
    <2>1. PICK l \in {"cool", "done"} :
            /\ Goto(r, l) /\ (UNCHANGED reply \/ \E a \in Replies : Decide(r, a))
            /\ l = "cool" => task[r].op = "steal"
      BY <1>14 DEF StealLog, AssistLog, LogVisit, Replies
    <2>2. l \in Labels
      BY DEF Labels
    <2>3. visits' \in [Owners -> SUBSET Requests]
      <3>1. visits' = [visits EXCEPT ![task[r].owner] = @ \cup {r}]
        BY <1>14 DEF StealLog, AssistLog, LogVisit
      <3>2. \A o \in Owners : visits[o] \cup {r} \in SUBSET Requests
        OBVIOUS
      <3>3. QED
        BY <3>1, <3>2
    <2>4. TypeOK'
      BY <1>14, <2>1, <2>2, <2>3, MoveTypes DEF StealLog, AssistLog, LogVisit
    <2>5. Placed' /\ Reached' /\ Timed'
      BY <1>14, <2>1, <2>2, MoveTypes
         DEF StealLog, AssistLog, LogVisit, Placed, Reached, Timed
    <2>6. QED
      BY <2>4, <2>5
  <1>15. ASSUME NEW r \in Requests, SetCooldown(r) PROVE TypeInv'
    <2>1. <<task[r].by, task[r].owner>> \in Visitors \X Owners
      BY <1>15 DEF SetCooldown, Placed, Tasks
    <2>2. QED
      BY <1>15, <2>1 DEF SetCooldown, Goto, Decide, Labels, Replies, Placed, Reached, Timed
  <1>16. ASSUME NEW s \in Servers, Crash(s) PROVE TypeInv'
    BY <1>16 DEF Crash, Labels, InFlight, Placed, Reached, Timed
  <1>17. ASSUME NEW k \in LockKeys, LockLapses(k) PROVE TypeInv'
    <2>1. TypeOK'
      BY <1>17 DEF LockLapses, Lock!Lapse, Lock!Del, Lock!Absent
    <2>2. QED
      BY <1>17, <2>1 DEF LockLapses, Placed, Reached, Timed
  <1>18. ASSUME NEW c \in cooldown, CooldownEnds(c) PROVE TypeInv'
    BY <1>18 DEF CooldownEnds, Placed, Reached, Timed
  <1>19. CASE Rest \/ UNCHANGED vars
    BY <1>19 DEF Rest, vars, Placed, Reached, Timed
  <1>20. QED
    BY <1>1, <1>21, <1>3, <1>4, <1>5, <1>6, <1>7, <1>8, <1>10, <1>11, <1>12, <1>13,
       <1>14, <1>15, <1>16, <1>17, <1>18, <1>19 DEF Next

\* Documents, locks, timers and requests keep their types, and a building has
\* entries only in a document that is there.
THEOREM TypeCorrect == Spec => []TypeOK
  <1>1. TypeInv => TypeOK
    BY DEF TypeInv
  <1>2. QED
    BY <1>1, TypeInit, TypeStep, PTL DEF Spec

-----------------------------------------------------------------------------
\* Exclusion, while leases outlive their holders

LEMMA SectionInit == Init => SectionOwnsLock
  BY DEF Init, SectionOwnsLock, InSection

LEMMA SectionStep ==
  ASSUME ~MayLapse
  PROVE  TypeInv /\ SectionOwnsLock /\ [Next]_vars => SectionOwnsLock'
  <1> SUFFICES ASSUME TypeInv, SectionOwnsLock, [Next]_vars PROVE SectionOwnsLock'
    OBVIOUS
  <1> USE DEF TypeInv, TypeOK, docs, lockVars, Owner, Key
  <1>1. ASSUME UNCHANGED lockVal,
               \A r \in Requests : InSection(r)' => InSection(r) /\ task'[r] = task[r]
        PROVE  SectionOwnsLock'
    BY <1>1 DEF SectionOwnsLock
  <1>2. ASSUME NEW r \in Requests, NEW o \in Owners, BuildFind(r, o)
        PROVE  SectionOwnsLock'
    BY <1>1, <1>2 DEF BuildFind, Arrive, Goto, InSection
  <1>3. ASSUME NEW r \in Requests, NEW v \in Visitors, NEW o \in Owners,
               AssistFind(r, v, o) \/ VisitFind(r, v, o) \/ StealCooldown(r, v, o)
        PROVE  SectionOwnsLock'
    BY <1>1, <1>3 DEF AssistFind, VisitFind, StealCooldown, Arrive, Goto, InSection
  <1>4. ASSUME NEW r \in Requests, StealFind(r) PROVE SectionOwnsLock'
    BY <1>1, <1>4 DEF StealFind, Goto, InSection
  <1>5. ASSUME NEW r \in Requests, CreateNew(r) PROVE SectionOwnsLock'
    <2>1. /\ UNCHANGED <<lockVal, task>> /\ pc[r] = "create"
          /\ \E l \in {"lock", "log", "done"} :
               Goto(r, l) /\ (l = "log" => task[r].op = "steal")
      BY <1>5 DEF CreateNew, Placed, Tasks
    <2>2. QED
      BY <1>1, <2>1 DEF Goto, InSection
  <1>6. ASSUME NEW r \in Requests, CreateClash(r) \/ CallFails(r) PROVE SectionOwnsLock'
    BY <1>1, <1>6 DEF CreateClash, CallFails, Throw, Goto, InSection
  <1>7. ASSUME NEW r \in Requests, Acquire(r) PROVE SectionOwnsLock'
    <2>1. CASE lockVal[Key(r)] # Lock!Absent
      BY <1>1, <1>7, <2>1 DEF Acquire, Lock!SetNx, Goto, InSection
    <2>2. CASE lockVal[Key(r)] = Lock!Absent
      <3>1. /\ lockVal' = [lockVal EXCEPT ![Key(r)] = StampOf[r]]
            /\ pc' = [pc EXCEPT ![r] = "expire"] /\ UNCHANGED task
        BY <1>7, <2>2 DEF Acquire, Lock!SetNx, Goto
      <3>2. \A q \in Requests : InSection(q) => Key(q) # Key(r)
        BY <2>2, StampAssumption DEF SectionOwnsLock, Lock!Absent
      <3>3. Key(r) \in LockKeys
        BY <1>7 DEF Acquire, Placed, Tasks, LockKeys
      <3>4. \A q \in Requests : q # r /\ InSection(q)' => InSection(q)
        BY <3>1 DEF InSection
      <3>5. /\ lockVal'[Key(r)] = StampOf[r] /\ ~InSection(r)
            /\ \A q \in Requests : Key(q)' = Key(q)
        BY <1>7, <3>1, <3>3 DEF Acquire, InSection
      <3> HIDE DEF Key
      <3>6. \A q \in Requests : q # r /\ InSection(q)' =>
              Key(q) # Key(r) /\ lockVal'[Key(q)] = lockVal[Key(q)]
        BY <3>1, <3>2, <3>4
      <3>7. QED
        BY <3>4, <3>5, <3>6 DEF SectionOwnsLock
    <2>3. QED
      BY <2>1, <2>2
  <1>8. ASSUME NEW r \in Requests, Expire(r) PROVE SectionOwnsLock'
    BY <1>1, <1>8 DEF Expire, Lock!SetExpiry, Goto, InSection
  <1>9. ASSUME NEW r \in Requests, GetLock(r) PROVE SectionOwnsLock'
    BY <1>1, <1>9 DEF GetLock, Goto, InSection
  <1>10. ASSUME NEW r \in Requests, DelLock(r) PROVE SectionOwnsLock'
    <2>1. /\ lockVal' = [lockVal EXCEPT ![Key(r)] = Lock!Absent]
          /\ pc' = [pc EXCEPT ![r] = "done"] /\ UNCHANGED task
      BY <1>10 DEF DelLock, Lock!Del, Goto
    <2>2. InSection(r) /\ ~InSection(r)'
      BY <1>10, <2>1 DEF DelLock, InSection
    <2>3. \A q \in Requests : InSection(q)' => q # r /\ InSection(q)
      BY <2>1, <2>2 DEF InSection
    <2>4. \A q \in Requests : InSection(q)' => Key(q) # Key(r)
      BY <2>2, <2>3 DEF SectionOwnsLock
    <2>5. QED
      BY <2>1, <2>3, <2>4 DEF SectionOwnsLock
  <1>11. ASSUME NEW r \in Requests, Update(r) \/ UpdateReplyLost(r) PROVE SectionOwnsLock'
    BY <1>1, <1>11 DEF Update, UpdateReplyLost, Throw, Goto, InSection
  <1>12. ASSUME NEW r \in Requests, TimerFires(r) \/ TimerFails(r) PROVE SectionOwnsLock'
    BY <1>1, <1>12 DEF TimerFires, TimerFails, InSection
  <1>13. ASSUME NEW r \in Requests, StealLog(r) \/ AssistLog(r) \/ SetCooldown(r)
         PROVE  SectionOwnsLock'
    BY <1>1, <1>13 DEF StealLog, AssistLog, LogVisit, SetCooldown, Goto, InSection
  <1>14. ASSUME NEW s \in Servers, Crash(s) PROVE SectionOwnsLock'
    BY <1>1, <1>14 DEF Crash, InSection
  <1>15. ASSUME NEW k \in LockKeys, LockLapses(k) PROVE SectionOwnsLock'
    <2>1. /\ lockVal' = [lockVal EXCEPT ![k] = Lock!Absent] /\ UNCHANGED <<pc, task>>
          /\ \A r \in Requests : InSection(r) => Key(r) # k
      BY <1>15 DEF LockLapses, Lock!Lapse, Lock!Del
    <2>2. QED
      BY <2>1 DEF SectionOwnsLock, InSection
  <1>16. CASE Rest \/ UNCHANGED vars \/ \E c \in cooldown : CooldownEnds(c)
    BY <1>1, <1>16 DEF Rest, vars, CooldownEnds, InSection
  <1>17. QED
    BY <1>2, <1>3, <1>4, <1>5, <1>6, <1>7, <1>8, <1>9, <1>10, <1>11, <1>12, <1>13,
       <1>14, <1>15, <1>16 DEF Next

\* A build or theft owns its lock from SETNX to DEL and is alone there, for any
\* number of requests, equal lock values and crashes.
THEOREM LockOwned == ASSUME ~MayLapse PROVE Spec => []SectionOwnsLock
  <1>1. TypeInv /\ SectionOwnsLock /\ [Next]_vars => SectionOwnsLock'
    BY SectionStep
  <1>2. QED
    BY <1>1, TypeInit, TypeStep, SectionInit, PTL DEF Spec

-----------------------------------------------------------------------------
\* Timers

\* A request that failed only has its lock to release.
ErrorPlaces ==
  \A r \in Requests :
    reply[r] = "error" => pc[r] \in {"getLock", "delLock", "done", "dead"}

LEMMA TimerStep ==
  TypeInv /\ ErrorPlaces /\ ConstructionHasTimer /\ [Next]_vars
    => ErrorPlaces' /\ ConstructionHasTimer'
  <1> SUFFICES ASSUME TypeInv, ErrorPlaces, ConstructionHasTimer, [Next]_vars
               PROVE  ErrorPlaces' /\ ConstructionHasTimer'
    OBVIOUS
  <1> DEFINE Goal == ErrorPlaces' /\ ConstructionHasTimer'
  <1> USE DEF TypeInv, TypeOK, docs, lockVars, Owner
  <1>1. ASSUME UNCHANGED <<buildings, timer>>,
               \A r \in Requests : pc[r] # "idle" =>
                 /\ pc'[r] # "idle" /\ task'[r] = task[r]
                 /\ reply[r] = "error" => reply'[r] = "error"
        PROVE  ConstructionHasTimer'
    <2>1. \A o \in Owners : Disturbed(o) => Disturbed(o)'
      BY <1>1 DEF Disturbed
    <2>2. \A r \in Requests :
            timer[r] = "armed" => timer'[r] = "armed" /\ task'[r].owner = task[r].owner
      BY <1>1 DEF Timed
    <2>3. \A o \in Owners : UnderConstruction(o)' => UnderConstruction(o)
      BY <1>1 DEF UnderConstruction
    <2>4. QED
      BY <2>1, <2>2, <2>3 DEF ConstructionHasTimer
  <1>2. ASSUME NEW r \in Requests, NEW o \in Owners, BuildFind(r, o) PROVE Goal
    BY <1>1, <1>2 DEF BuildFind, Arrive, Goto, Decide, ErrorPlaces
  <1>3. ASSUME NEW r \in Requests, NEW v \in Visitors, NEW o \in Owners,
               AssistFind(r, v, o) \/ VisitFind(r, v, o) \/ StealCooldown(r, v, o)
        PROVE  Goal
    BY <1>1, <1>3 DEF AssistFind, VisitFind, StealCooldown, Arrive, Goto, Decide,
       ErrorPlaces
  <1>4. ASSUME NEW r \in Requests, StealFind(r) PROVE Goal
    BY <1>1, <1>4 DEF StealFind, Goto, ErrorPlaces
  <1>5. ASSUME NEW r \in Requests, CreateNew(r) PROVE Goal
    <2>1. /\ UNCHANGED <<buildings, timer, task>> /\ pc[r] = "create"
          /\ \E l \in {"lock", "log", "done"} : Goto(r, l)
          /\ UNCHANGED reply \/ Decide(r, "refused") \/ Decide(r, "seen")
      BY <1>5 DEF CreateNew, Placed, Tasks
    <2>2. reply[r] # "error"
      BY <2>1 DEF ErrorPlaces
    <2>3. QED
      BY <1>1, <2>1, <2>2 DEF Goto, Decide, ErrorPlaces
  <1>6. ASSUME NEW r \in Requests, CreateClash(r) \/ CallFails(r) PROVE Goal
    BY <1>1, <1>6 DEF CreateClash, CallFails, Throw, Goto, Decide, ErrorPlaces
  <1>7. ASSUME NEW r \in Requests, Acquire(r) PROVE Goal
    BY <1>1, <1>7 DEF Acquire, Goto, Decide, ErrorPlaces
  <1>8. ASSUME NEW r \in Requests, Expire(r) \/ GetLock(r) \/ DelLock(r) PROVE Goal
    BY <1>1, <1>8 DEF Expire, GetLock, DelLock, Goto, ErrorPlaces
  <1>9. ASSUME NEW r \in Requests, Update(r) PROVE Goal
    <2>1. ErrorPlaces'
      BY <1>9 DEF Update, Goto, Decide, ErrorPlaces
    <2>2. /\ timer' = [timer EXCEPT ![r] = "armed"] /\ UNCHANGED task
          /\ \A o \in Owners : o # task[r].owner => buildings'[o] = buildings[o]
      BY <1>9 DEF Update, StartTimer, StartEntry
    <2>3. ASSUME NEW o \in Owners, o # task[r].owner, Disturbed(o) PROVE Disturbed(o)'
      BY <1>9, <2>2, <2>3 DEF Update, Goto, Decide, Disturbed
    <2>4. QED
      BY <2>1, <2>2, <2>3 DEF ConstructionHasTimer, UnderConstruction
  <1>10. ASSUME NEW r \in Requests, UpdateReplyLost(r) PROVE Goal
    <2>1. ErrorPlaces'
      BY <1>10 DEF UpdateReplyLost, Throw, Goto, Decide, ErrorPlaces
    <2>2. /\ UNCHANGED <<timer, task>> /\ reply'[r] = "error" /\ pc'[r] # "idle"
          /\ \A q \in Requests : reply[q] = "error" => reply'[q] = "error"
          /\ \A q \in Requests : pc[q] # "idle" => pc'[q] # "idle"
          /\ \A o \in Owners : o # task[r].owner => buildings'[o] = buildings[o]
      BY <1>10 DEF UpdateReplyLost, Throw, Goto, Decide, StartEntry
    <2>3. task[r].op = "build"
      BY <1>10 DEF UpdateReplyLost, Placed
    <2>4. Disturbed(task[r].owner)'
      BY <2>2, <2>3 DEF Disturbed
    <2>5. \A o \in Owners : Disturbed(o) => Disturbed(o)'
      BY <2>2 DEF Disturbed
    <2>6. QED
      BY <2>1, <2>2, <2>4, <2>5 DEF ConstructionHasTimer, UnderConstruction
  <1>11. ASSUME NEW r \in Requests, TimerFires(r) PROVE Goal
    <2>1. ErrorPlaces'
      BY <1>11 DEF TimerFires, ErrorPlaces
    <2>2. /\ task[r].owner \in Owners /\ buildings[task[r].owner] # <<>>
          /\ buildings[task[r].owner] \in Seq(Entry)
      BY <1>11 DEF TimerFires, Timed, Placed, Tasks, Entry
    <2>3. /\ timer' = [timer EXCEPT ![r] = "fired"] /\ UNCHANGED <<pc, task, reply>>
          /\ buildings' = [buildings EXCEPT ![task[r].owner] = Complete(task[r].owner)]
      BY <1>11 DEF TimerFires
    <2>4. ~UnderConstruction(task[r].owner)'
      BY <2>2, <2>3, CompletedEntries DEF UnderConstruction
    <2>5. \A o \in Owners : Disturbed(o) => Disturbed(o)'
      BY <1>11, <2>3 DEF TimerFires, Disturbed
    <2>6. QED
      BY <2>1, <2>3, <2>4, <2>5 DEF ConstructionHasTimer, UnderConstruction
  <1>12. ASSUME NEW r \in Requests, TimerFails(r) PROVE Goal
    <2>1. ErrorPlaces'
      BY <1>12 DEF TimerFails, ErrorPlaces
    <2>2. /\ timer' = [timer EXCEPT ![r] = "lost"] /\ UNCHANGED <<pc, task, reply, buildings>>
          /\ pc[r] # "idle" /\ task[r].op = "build"
      BY <1>12 DEF TimerFails, Timed
    <2>3. \A o \in Owners : Disturbed(o) \/ o = task[r].owner => Disturbed(o)'
      BY <2>2 DEF Disturbed
    <2>4. QED
      BY <2>1, <2>2, <2>3 DEF ConstructionHasTimer, UnderConstruction
  <1>13. ASSUME NEW r \in Requests, StealLog(r) \/ AssistLog(r) \/ SetCooldown(r)
         PROVE  Goal
    <2>1. CASE StealLog(r)
      BY <1>1, <2>1 DEF StealLog, LogVisit, Goto, ErrorPlaces
    <2>2. CASE AssistLog(r)
      BY <1>1, <2>2 DEF AssistLog, LogVisit, Goto, Decide, ErrorPlaces
    <2>3. CASE SetCooldown(r)
      BY <1>1, <2>3 DEF SetCooldown, Goto, Decide, ErrorPlaces
    <2>4. QED
      BY <1>13, <2>1, <2>2, <2>3
  <1>14. ASSUME NEW s \in Servers, Crash(s) PROVE Goal
    <2>1. /\ UNCHANGED <<task, reply, buildings>>
          /\ \A r \in Requests : pc[r] # "idle" => pc'[r] # "idle"
          /\ \A r \in Requests : timer'[r] = timer[r] \/ (timer[r] = "armed" /\ timer'[r] = "lost")
      BY <1>14 DEF Crash, InFlight
    <2>2. ErrorPlaces'
      BY <1>14 DEF Crash, InFlight, ErrorPlaces
    <2>3. \A o \in Owners : Disturbed(o) => Disturbed(o)'
      BY <2>1 DEF Disturbed
    <2>4. ASSUME NEW r \in Requests, timer[r] = "armed"
          PROVE  timer'[r] = "armed" \/ Disturbed(task[r].owner)'
      BY <2>1, <2>4 DEF Disturbed, Timed
    <2>5. ASSUME NEW o \in Owners, UnderConstruction(o)'
          PROVE  \/ Disturbed(o)'
                 \/ \E r \in Requests : timer'[r] = "armed" /\ Owner(r)' = o
      <3>1. \/ Disturbed(o)
            \/ \E r \in Requests : timer[r] = "armed" /\ Owner(r) = o
        BY <2>1, <2>5 DEF ConstructionHasTimer, UnderConstruction
      <3>2. CASE Disturbed(o)
        BY <2>3, <3>2
      <3>3. ASSUME NEW r \in Requests, timer[r] = "armed", Owner(r) = o
            PROVE  Disturbed(o)' \/ (timer'[r] = "armed" /\ Owner(r)' = o)
        BY <2>1, <2>4, <3>3 DEF Owner
      <3>4. QED
        BY <3>1, <3>2, <3>3
    <2>6. QED
      BY <2>2, <2>5 DEF ConstructionHasTimer
  <1>15. CASE \/ Rest \/ UNCHANGED vars
              \/ \E k \in LockKeys : LockLapses(k)
              \/ \E c \in cooldown : CooldownEnds(c)
    BY <1>1, <1>15 DEF Rest, vars, LockLapses, CooldownEnds, ErrorPlaces
  <1>16. QED
    BY <1>2, <1>3, <1>4, <1>5, <1>6, <1>7, <1>8, <1>9, <1>10, <1>11, <1>12, <1>13,
       <1>14, <1>15 DEF Next

\* However starts, completions, refusals and crashes interleave, a building
\* under construction has a timer or its construction was disturbed.
THEOREM TimerHeld == Spec => []ConstructionHasTimer
  <1>1. Init => ErrorPlaces /\ ConstructionHasTimer
    BY DEF Init, ErrorPlaces, ConstructionHasTimer, UnderConstruction
  <1>2. QED
    BY <1>1, TypeInit, TypeStep, TimerStep, PTL DEF Spec

-----------------------------------------------------------------------------
\* Levels

\* The level of a building, and that no second entry has one.
Level(b) == IF b = <<>> THEN 0 ELSE b[1].level
OthersUnleveled(b) == \A i \in 2..Len(b) : b[i].level = 0

\* A timer is set once, when its request leaves the update.
TimerUnset ==
  \A r \in Requests : pc[r] \in {"create", "lock", "expire", "update"} => timer[r] = "none"

LevelInv ==
  /\ TimerUnset
  /\ \A o \in Owners : IsFiniteSet(FiredFor(o))
  /\ LevelsEarned

\* Starting a construction gives no level.
LEMMA StartedLevel ==
  ASSUME NEW b \in Seq(Entry), NEW f \in BOOLEAN, f => b # <<>>, OthersUnleveled(b)
  PROVE  LET c == IF f THEN [b EXCEPT ![1].isConstructing = TRUE]
                  ELSE Append(b, [level |-> 0, isConstructing |-> TRUE])
         IN  Level(c) = Level(b) /\ OthersUnleveled(c)
  <1>1. CASE f
    <2> DEFINE e == [b[1] EXCEPT !.isConstructing = TRUE]
    <2>1. 1 \in 1..Len(b) /\ b[1] \in Entry
      BY <1>1
    <2>2. e \in Entry /\ e.level = b[1].level
      BY <2>1 DEF Entry
    <2> DEFINE c == [b EXCEPT ![1] = e]
    <2>3. [b EXCEPT ![1].isConstructing = TRUE] = c
      OBVIOUS
    <2> HIDE DEF e
    <2>4. Len(c) = Len(b) /\ c # <<>> /\ c[1] = e /\ \A i \in 2..Len(b) : c[i] = b[i]
      BY <1>1, <2>1
    <2>5. Level(c) = Level(b) /\ OthersUnleveled(c)
      BY <1>1, <2>2, <2>4 DEF Level, OthersUnleveled
    <2>6. QED
      BY <1>1, <2>3, <2>5
  <1>2. CASE ~f
    <2> DEFINE e == [level |-> 0, isConstructing |-> TRUE]
               c == Append(b, e)
    <2>1. e \in Entry /\ e.level = 0
      BY DEF Entry
    <2> HIDE DEF e
    <2>2. /\ Len(c) = Len(b) + 1 /\ c # <<>> /\ c[Len(b) + 1] = e
          /\ \A i \in 1..Len(b) : c[i] = b[i]
      BY <2>1
    <2>3. Level(c) = Level(b)
      BY <2>1, <2>2 DEF Level
    <2>4. OthersUnleveled(c)
      BY <2>1, <2>2 DEF OthersUnleveled
    <2>5. QED
      BY <1>2, <2>3, <2>4 DEF e
  <1>3. QED
    BY <1>1, <1>2

\* Completing one gives one level, to the first entry.
LEMMA CompletedLevel ==
  ASSUME NEW o \in Owners, buildings[o] \in Seq(Entry), buildings[o] # <<>>,
         OthersUnleveled(buildings[o])
  PROVE  Level(Complete(o)) = Level(buildings[o]) + 1 /\ OthersUnleveled(Complete(o))
  <1> DEFINE b == buildings[o]
             e == [level |-> b[1].level + 1, isConstructing |-> FALSE]
             c == [b EXCEPT ![1] = e]
  <1>1. 1 \in 1..Len(b) /\ b[1] \in Entry
    OBVIOUS
  <1>2. e.level = b[1].level + 1 /\ Complete(o) = c
    BY DEF Complete
  <1>3. e \in Entry
    BY <1>1 DEF Entry
  <1> HIDE DEF e
  <1>4. Len(c) = Len(b) /\ c # <<>> /\ c[1] = e /\ \A i \in 2..Len(b) : c[i] = b[i]
    BY <1>1, <1>3
  <1>5. QED
    BY <1>2, <1>4 DEF Level, OthersUnleveled

LEMMA LevelStep == TypeInv /\ LevelInv /\ [Next]_vars => LevelInv'
  <1> SUFFICES ASSUME TypeInv, LevelInv, [Next]_vars PROVE LevelInv'
    OBVIOUS
  <1> USE DEF TypeInv, TypeOK, docs, lockVars, Owner
  <1>a. \A o \in Owners :
          /\ IsFiniteSet(FiredFor(o)) /\ OthersUnleveled(buildings[o])
          /\ Cardinality(FiredFor(o)) = Level(buildings[o])
    BY DEF LevelInv, LevelsEarned, Level, OthersUnleveled
  <1>b. ASSUME TimerUnset',
               \A o \in Owners :
                 /\ IsFiniteSet(FiredFor(o))' /\ OthersUnleveled(buildings'[o])
                 /\ Cardinality(FiredFor(o))' = Level(buildings'[o])
        PROVE  LevelInv'
    BY <1>b DEF LevelInv, LevelsEarned, Level, OthersUnleveled
  <1>c. ASSUME TimerUnset',
               \A r \in Requests :
                 /\ timer'[r] = "fired" <=> timer[r] = "fired"
                 /\ pc[r] # "idle" => task'[r] = task[r],
               \A o \in Owners : /\ OthersUnleveled(buildings'[o])
                                 /\ Level(buildings'[o]) = Level(buildings[o])
        PROVE  LevelInv'
    <2>1. \A r \in Requests : timer[r] = "fired" => task'[r] = task[r]
      BY <1>c DEF Timed
    <2>2. ASSUME NEW o \in Owners PROVE FiredFor(o)' = FiredFor(o)
      <3>1. FiredFor(o)' = {r \in Requests : timer'[r] = "fired" /\ task'[r].owner = o}
        BY DEF FiredFor
      <3>2. FiredFor(o) = {r \in Requests : timer[r] = "fired" /\ task[r].owner = o}
        BY DEF FiredFor
      <3>3. \A r \in Requests : /\ timer'[r] = "fired" <=> timer[r] = "fired"
                                /\ timer[r] = "fired" => task'[r].owner = task[r].owner
        BY <1>c, <2>1
      <3>4. QED
        BY <3>1, <3>2, <3>3
    <2>3. QED
      BY <1>a, <1>b, <1>c, <2>2
  <1>1. ASSUME UNCHANGED <<buildings, timer>>,
               \A r \in Requests :
                 /\ pc[r] # "idle" => task'[r] = task[r]
                 /\ pc'[r] \in {"create", "lock", "expire", "update"} =>
                      \/ pc[r] \in {"idle", "create", "lock", "expire", "update"}
                      \/ task[r].op = "steal"
        PROVE  LevelInv'
    <2>1. TimerUnset'
      BY <1>1 DEF LevelInv, TimerUnset, Timed
    <2>2. QED
      BY <1>a, <1>c, <1>1, <2>1
  <1>2. ASSUME NEW r \in Requests, NEW o \in Owners,
               \/ BuildFind(r, o)
               \/ \E v \in Visitors :
                    AssistFind(r, v, o) \/ VisitFind(r, v, o) \/ StealCooldown(r, v, o)
        PROVE  LevelInv'
    <2>1. UNCHANGED <<buildings, timer>> /\ pc[r] = "idle"
      BY <1>2 DEF BuildFind, AssistFind, VisitFind, StealCooldown, Arrive
    <2>2. \A q \in Requests : q # r => task'[q] = task[q] /\ pc'[q] = pc[q]
      BY <1>2 DEF BuildFind, AssistFind, VisitFind, StealCooldown, Arrive, Goto
    <2>3. QED
      BY <1>1, <2>1, <2>2
  <1>3. ASSUME NEW r \in Requests,
               \/ StealFind(r) \/ CreateNew(r) \/ CreateClash(r) \/ CallFails(r)
               \/ Acquire(r) \/ Expire(r) \/ GetLock(r) \/ DelLock(r)
               \/ StealLog(r) \/ AssistLog(r) \/ SetCooldown(r)
        PROVE  LevelInv'
    <2>1. UNCHANGED <<buildings, timer, task>>
      BY <1>3 DEF StealFind, CreateNew, CreateClash, CallFails, Acquire, Expire,
         GetLock, DelLock, StealLog, AssistLog, LogVisit, SetCooldown
    <2>2. \E l : Goto(r, l)
      <3>1. CASE CreateNew(r)
        BY <3>1 DEF CreateNew, Placed, Tasks
      <3>2. CASE CreateClash(r) \/ CallFails(r)
        BY <3>2 DEF CreateClash, CallFails, Throw
      <3>3. CASE StealFind(r) \/ Acquire(r) \/ Expire(r) \/ GetLock(r) \/ DelLock(r)
        BY <3>3 DEF StealFind, Acquire, Expire, GetLock, DelLock
      <3>4. CASE StealLog(r) \/ AssistLog(r) \/ SetCooldown(r)
        BY <3>4 DEF StealLog, AssistLog, SetCooldown
      <3>5. QED
        BY <1>3, <3>1, <3>2, <3>3, <3>4
    <2>3. \A q \in Requests : q # r => pc'[q] = pc[q]
      BY <2>2 DEF Goto
    <2>4. pc'[r] \in {"create", "lock", "expire", "update"} =>
            pc[r] \in {"create", "lock", "expire"} \/ task[r].op = "steal"
      <3>1. CASE StealFind(r)
        BY <3>1 DEF StealFind, Placed
      <3>2. CASE CreateNew(r) \/ Acquire(r) \/ Expire(r)
        BY <3>2 DEF CreateNew, Acquire, Expire
      <3>3. CASE CreateClash(r) \/ CallFails(r)
        BY <3>3 DEF CreateClash, CallFails, Throw, Goto
      <3>4. CASE GetLock(r) \/ DelLock(r) \/ StealLog(r) \/ AssistLog(r) \/ SetCooldown(r)
        BY <3>4 DEF GetLock, DelLock, StealLog, AssistLog, LogVisit, SetCooldown, Goto
      <3>5. QED
        BY <1>3, <3>1, <3>2, <3>3, <3>4
    <2>5. QED
      BY <1>1, <2>1, <2>3, <2>4
  <1>4. ASSUME NEW r \in Requests, Update(r) \/ UpdateReplyLost(r) PROVE LevelInv'
    <2>1. /\ task[r] \in Tasks /\ task[r].owner \in Owners /\ timer[r] = "none"
          /\ found[r] => buildings[task[r].owner] # <<>>
          /\ buildings[task[r].owner] \in Seq(Entry)
      BY <1>4 DEF Update, UpdateReplyLost, Placed, Reached, Tasks, LevelInv, TimerUnset, Entry
    <2>2. PICK c : /\ buildings' = [buildings EXCEPT ![task[r].owner] = c]
                   /\ OthersUnleveled(c) /\ Level(c) = Level(buildings[task[r].owner])
      BY <1>a, <1>4, <2>1, StartedLevel DEF Update, UpdateReplyLost, StartEntry
    <2>3. \A o \in Owners : /\ OthersUnleveled(buildings'[o])
                            /\ Level(buildings'[o]) = Level(buildings[o])
      BY <1>a, <2>1, <2>2
    <2>4. /\ UNCHANGED task
          /\ \A q \in Requests : q # r => pc'[q] = pc[q] /\ timer'[q] = timer[q]
          /\ timer'[r] \in {"none", "armed"} /\ pc'[r] \in {"getLock", "done"}
      BY <1>4, <2>1 DEF Update, UpdateReplyLost, StartTimer, Throw, Goto
    <2>5. TimerUnset'
      BY <2>4 DEF LevelInv, TimerUnset
    <2>6. QED
      BY <1>c, <2>1, <2>3, <2>4, <2>5
  <1>5. ASSUME NEW r \in Requests, TimerFires(r) PROVE LevelInv'
    <2>1. /\ task[r].owner \in Owners /\ buildings[task[r].owner] # <<>>
          /\ buildings[task[r].owner] \in Seq(Entry)
      BY <1>5 DEF TimerFires, Timed, Placed, Tasks, Entry
    <2>2. /\ timer' = [timer EXCEPT ![r] = "fired"] /\ UNCHANGED <<pc, task>>
          /\ timer[r] = "armed"
          /\ buildings' = [buildings EXCEPT ![task[r].owner] = Complete(task[r].owner)]
      BY <1>5 DEF TimerFires
    <2>3. TimerUnset'
      BY <2>2 DEF LevelInv, TimerUnset
    <2>4. ASSUME NEW o \in Owners
          PROVE  /\ IsFiniteSet(FiredFor(o))' /\ OthersUnleveled(buildings'[o])
                 /\ Cardinality(FiredFor(o))' = Level(buildings'[o])
      <3>1. CASE o # task[r].owner
        <4>1. FiredFor(o)' = FiredFor(o) /\ buildings'[o] = buildings[o]
          BY <2>1, <2>2, <3>1 DEF FiredFor
        <4>2. QED
          BY <1>a, <4>1
      <3>2. CASE o = task[r].owner
        <4>1. FiredFor(o)' = FiredFor(o) \cup {r} /\ r \notin FiredFor(o)
          BY <2>2, <3>2 DEF FiredFor
        <4>2. buildings'[o] = Complete(o)
          BY <2>2, <3>2
        <4>3. /\ IsFiniteSet(FiredFor(o) \cup {r})
              /\ Cardinality(FiredFor(o) \cup {r}) = Cardinality(FiredFor(o)) + 1
          BY <1>a, <4>1, FS_AddElement
        <4>4. OthersUnleveled(Complete(o)) /\ Level(Complete(o)) = Level(buildings[o]) + 1
          BY <1>a, <2>1, <3>2, CompletedLevel
        <4>5. QED
          BY <1>a, <4>1, <4>2, <4>3, <4>4
      <3>3. QED
        BY <3>1, <3>2
    <2>5. QED
      BY <1>b, <2>3, <2>4
  <1>6. ASSUME \/ \E r \in Requests : TimerFails(r)
               \/ \E s \in Servers : Crash(s)
        PROVE  LevelInv'
    <2>1. /\ UNCHANGED <<buildings, task>>
          /\ \A q \in Requests :
               /\ timer'[q] = timer[q] \/ (timer[q] = "armed" /\ timer'[q] = "lost")
               /\ pc'[q] \in {pc[q], "dead"}
      <3>1. CASE \E r \in Requests : TimerFails(r)
        BY <3>1 DEF TimerFails
      <3>2. CASE \E s \in Servers : Crash(s)
        BY <3>2 DEF Crash
      <3>3. QED
        BY <1>6, <3>1, <3>2
    <2>2. TimerUnset'
      BY <2>1 DEF LevelInv, TimerUnset
    <2>3. QED
      BY <1>a, <1>c, <2>1, <2>2
  <1>7. CASE \/ Rest \/ UNCHANGED vars
             \/ \E k \in LockKeys : LockLapses(k)
             \/ \E c \in cooldown : CooldownEnds(c)
    BY <1>1, <1>7 DEF Rest, vars, LockLapses, CooldownEnds
  <1>8. QED
    BY <1>2, <1>3, <1>4, <1>5, <1>6, <1>7 DEF Next

\* A building has gained one level for each construction that was completed,
\* however starts overlap, entries are pushed twice, and timers are lost.
THEOREM LevelsCounted == Spec => []LevelsEarned
  <1>1. ASSUME Init PROVE LevelInv
    <2>1. \A o \in Owners : FiredFor(o) = {} /\ buildings[o] = <<>>
      BY <1>1 DEF Init, FiredFor
    <2>2. TimerUnset
      BY <1>1 DEF Init, TimerUnset
    <2>3. \A o \in Owners : IsFiniteSet(FiredFor(o)) /\ Cardinality(FiredFor(o)) = 0
      BY <2>1, FS_EmptySet
    <2>4. \A o \in Owners : \A i \in 2..Len(buildings[o]) : FALSE
      BY <2>1
    <2>5. QED
      BY <2>1, <2>2, <2>3, <2>4 DEF LevelInv, LevelsEarned
  <1>2. LevelInv => LevelsEarned
    BY DEF LevelInv
  <1>3. QED
    BY <1>1, <1>2, TypeInit, TypeStep, LevelStep, PTL DEF Spec
==============================================================================
