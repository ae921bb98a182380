------------------------------- MODULE Estate -------------------------------
(***************************************************************************)
(* The estates of src/modules/estate/estate.service.ts: construction with  *)
(* its timers, thefts with their cooldown, assistance and visits.  Entries *)
(* of different building types never touch each other, so an estate is     *)
(* reduced to the entries of one type; $push can leave more than one.      *)
(*                                                                         *)
(* Requests are labels as in Market.  A construction ends by a setTimeout  *)
(* of the process that served the request, which a restart forgets.        *)
(***************************************************************************)
EXTENDS Integers, Sequences, FiniteSets

CONSTANTS
  Owners, Visitors, Requests,
  Servers, ServerOf,   \* which process serves which request
  StampOf,             \* lockValue of each request, two may coincide
  MayLapse,            \* whether a lease can end under a live holder
  NoTask

ASSUME ServerAssumption == ServerOf \in [Requests -> Servers]
ASSUME StampAssumption == StampOf \in [Requests -> Nat \ {0}]
ASSUME MayLapseAssumption == MayLapse \in BOOLEAN

VARIABLES
  exists,              \* owners whose estate document is there
  buildings,           \* the entries of one type in each document, in order
  visits,              \* visitorLogs: the requests logged in each document
  cooldown,            \* the <<visitor, owner>> keys estate:steal:...
  lockVal, lockTtl,    \* the locks, see RedisLock
  timer,               \* the setTimeout of each construction
  task,                \* the operation and arguments of each request
  pc,                  \* the call each request is about to await
  found,               \* whether startBuilding found an entry
  reply

LockKeys == {"build", "steal"} \X Owners

Lock == INSTANCE RedisLock WITH Keys <- LockKeys

docs == <<exists, buildings, visits>>
lockVars == <<lockVal, lockTtl>>
vars == <<exists, buildings, visits, cooldown, lockVal, lockTtl, timer, task,
          pc, found, reply>>

Tasks == [op : {"build"}, by : Owners, owner : Owners]
           \cup [op : {"steal", "assist", "visit"}, by : Visitors, owner : Owners]

Labels == {"idle", "create", "lock", "expire", "update", "find", "log", "cool",
           "getLock", "delLock", "done", "dead"}
Replies == {"none", "started", "stolen", "assisted", "seen", "refused", "error"}

TypeOK ==
  /\ exists \in SUBSET Owners
  /\ buildings \in [Owners -> Seq([level : Nat, isConstructing : BOOLEAN])]
  /\ \A o \in Owners : buildings[o] # <<>> => o \in exists
  /\ visits \in [Owners -> SUBSET Requests]
  /\ cooldown \in SUBSET (Visitors \X Owners)
  /\ lockVal \in [LockKeys -> Nat] /\ lockTtl \in [LockKeys -> BOOLEAN]
  /\ timer \in [Requests -> {"none", "armed", "fired", "lost"}]
  /\ task \in [Requests -> Tasks \cup {NoTask}]
  /\ pc \in [Requests -> Labels]
  /\ found \in [Requests -> BOOLEAN]
  /\ reply \in [Requests -> Replies]

Init ==
  /\ exists = {}
  /\ buildings = [o \in Owners |-> <<>>]
  /\ visits = [o \in Owners |-> {}]
  /\ cooldown = {}
  /\ Lock!LockInit
  /\ timer = [r \in Requests |-> "none"]
  /\ task = [r \in Requests |-> NoTask]
  /\ pc = [r \in Requests |-> "idle"]
  /\ found = [r \in Requests |-> FALSE]
  /\ reply = [r \in Requests |-> "none"]

Goto(r, label) == pc' = [pc EXCEPT ![r] = label]
Decide(r, answer) == reply' = [reply EXCEPT ![r] = answer]
Arrive(r, op, p, o) ==
  /\ pc[r] = "idle"
  /\ task' = [task EXCEPT ![r] = [op |-> op, by |-> p, owner |-> o]]
Owner(r) == task[r].owner
Key(r) == <<task[r].op, task[r].owner>>

\* buildings.find(b => b.type === buildingType) is the first entry.
UnderConstruction(o) == buildings[o] # <<>> /\ buildings[o][1].isConstructing

-----------------------------------------------------------------------------
\* getEstate, where every operation starts or, for a theft, goes on

BuildFind(r, o) ==
  /\ Arrive(r, "build", o, o)
  /\ found' = [found EXCEPT ![r] = buildings[o] # <<>>]
  /\ \/ o \notin exists /\ Goto(r, "create") /\ UNCHANGED reply
     \/ o \in exists /\ ~UnderConstruction(o) /\ Goto(r, "lock") /\ UNCHANGED reply
     \/ UnderConstruction(o) /\ Goto(r, "done") /\ Decide(r, "refused")
  /\ UNCHANGED <<docs, cooldown, lockVars, timer>>

AssistFind(r, v, o) ==
  /\ Arrive(r, "assist", v, o)
  /\ \/ o \notin exists /\ Goto(r, "create") /\ UNCHANGED reply
     \/ UnderConstruction(o) /\ Goto(r, "log") /\ UNCHANGED reply
     \/ /\ o \in exists /\ ~UnderConstruction(o)
        /\ Goto(r, "done") /\ Decide(r, "refused")
  /\ UNCHANGED <<docs, cooldown, lockVars, timer, found>>

VisitFind(r, v, o) ==
  /\ Arrive(r, "visit", v, o)
  /\ \/ o \notin exists /\ Goto(r, "create") /\ UNCHANGED reply
     \/ o \in exists /\ Goto(r, "done") /\ Decide(r, "seen")
  /\ UNCHANGED <<docs, cooldown, lockVars, timer, found>>

StealFind(r) ==
  /\ pc[r] = "find"
  /\ Goto(r, IF Owner(r) \in exists THEN "log" ELSE "create")
  /\ UNCHANGED <<docs, cooldown, lockVars, timer, task, found, reply>>

\* createInitialEstate, and on with an estate without buildings.
CreateNew(r) ==
  /\ pc[r] = "create" /\ Owner(r) \notin exists
  /\ exists' = exists \cup {Owner(r)}
  /\ CASE task[r].op = "build" -> Goto(r, "lock") /\ UNCHANGED reply
       [] task[r].op = "steal" -> Goto(r, "log") /\ UNCHANGED reply
       [] task[r].op = "assist" -> Goto(r, "done") /\ Decide(r, "refused")
       [] task[r].op = "visit" -> Goto(r, "done") /\ Decide(r, "seen")
  /\ UNCHANGED <<buildings, visits, cooldown, lockVars, timer, task, found>>

\* A throw leads to releaseLock inside a try block, else out of the handler.
Throw(r) ==
  /\ Decide(r, "error")
  /\ Goto(r, IF \/ pc[r] \in {"update", "find", "cool"}
                \/ task[r].op = "steal" /\ pc[r] \in {"create", "log"}
             THEN "getLock" ELSE "done")

\* The unique index on playerId refuses the second of two first accesses.
CreateClash(r) ==
  /\ pc[r] = "create" /\ Owner(r) \in exists
  /\ Throw(r)
  /\ UNCHANGED <<docs, cooldown, lockVars, timer, task, found>>

-----------------------------------------------------------------------------
\* The lock, for startBuilding and stealSpirit

\* Mutant: the answer of SETNX is ignored.
AcquireUnchecked(r) ==
  /\ pc[r] = "lock"
  /\ \/ Lock!SetNx(Key(r), StampOf[r])
     \/ lockVal[Key(r)] # Lock!Absent /\ UNCHANGED lockVars
  /\ Goto(r, "expire")
  /\ UNCHANGED <<docs, cooldown, timer, task, found, reply>>

Acquire(r) ==
  /\ pc[r] = "lock"
  /\ \/ Lock!SetNx(Key(r), StampOf[r]) /\ Goto(r, "expire") /\ UNCHANGED reply
     \/ /\ lockVal[Key(r)] # Lock!Absent
        /\ Goto(r, "done") /\ Decide(r, "refused")
        /\ UNCHANGED lockVars
  /\ UNCHANGED <<docs, cooldown, timer, task, found>>

Expire(r) ==
  /\ pc[r] = "expire"
  /\ Lock!SetExpiry(Key(r))
  /\ Goto(r, IF task[r].op = "build" THEN "update" ELSE "find")
  /\ UNCHANGED <<docs, cooldown, timer, task, found, reply>>

GetLock(r) ==
  /\ pc[r] = "getLock"
  /\ Goto(r, IF lockVal[Key(r)] = StampOf[r] THEN "delLock" ELSE "done")
  /\ UNCHANGED <<docs, cooldown, lockVars, timer, task, found, reply>>

DelLock(r) ==
  /\ pc[r] = "delLock"
  /\ Lock!Del(Key(r))
  /\ Goto(r, "done")
  /\ UNCHANGED <<docs, cooldown, timer, task, found, reply>>

-----------------------------------------------------------------------------
\* startBuilding and completeBuilding

\* Mutant: the pushed entry has no level.
StartEntryUnleveled(r) ==
  buildings' = [buildings EXCEPT ![Owner(r)] =
    IF found[r] THEN [@ EXCEPT ![1].isConstructing = TRUE]
                ELSE Append(@, [level |-> NoTask, isConstructing |-> TRUE])]

\* The update chosen by what was found: $set on the first entry, or $push.
StartEntry(r) ==
  buildings' = [buildings EXCEPT ![Owner(r)] =
    IF found[r] THEN [@ EXCEPT ![1].isConstructing = TRUE]
                ELSE Append(@, [level |-> 0, isConstructing |-> TRUE])]

\* Mutant: the timer is set in the branch of the upgrade only.
StartTimerUpgrade(r) == timer' = [timer EXCEPT ![r] = IF found[r] THEN "armed" ELSE @]

StartTimer(r) == timer' = [timer EXCEPT ![r] = "armed"]

Update(r) ==
  /\ pc[r] = "update"
  /\ StartEntry(r)
  /\ StartTimer(r)
  /\ Goto(r, "getLock") /\ Decide(r, "started")
  /\ UNCHANGED <<exists, visits, cooldown, lockVars, task, found>>

\* The update is done but its reply is lost: no timer.
UpdateReplyLost(r) ==
  /\ pc[r] = "update"
  /\ StartEntry(r)
  /\ Throw(r)
  /\ UNCHANGED <<exists, visits, cooldown, lockVars, timer, task, found>>

\* Mutants: every entry of the type is completed; isConstructing stays.
CompleteAll(o) ==
  [i \in DOMAIN buildings[o] |->
    [level |-> buildings[o][i].level + 1, isConstructing |-> FALSE]]
CompleteLevelOnly(o) == [buildings[o] EXCEPT ![1].level = @ + 1]

\* 'buildings.$' is the first entry that matches.
Complete(o) == [buildings[o] EXCEPT ![1] = [level |-> @.level + 1,
                                            isConstructing |-> FALSE]]

TimerFires(r) ==
  /\ timer[r] = "armed"
  /\ timer' = [timer EXCEPT ![r] = "fired"]
  /\ buildings' = [buildings EXCEPT ![Owner(r)] = Complete(Owner(r))]
  /\ UNCHANGED <<exists, visits, cooldown, lockVars, task, pc, found, reply>>

\* completeBuilding rejects: it is logged, and nothing tries again.
TimerFails(r) ==
  /\ timer[r] = "armed"
  /\ timer' = [timer EXCEPT ![r] = "lost"]
  /\ UNCHANGED <<docs, cooldown, lockVars, task, pc, found, reply>>

-----------------------------------------------------------------------------
\* stealSpirit and assistBuilding

\* The key lives as long as the cooldown: found means refused.
StealCooldown(r, v, o) ==
  /\ Arrive(r, "steal", v, o)
  /\ \/ <<v, o>> \notin cooldown /\ Goto(r, "lock") /\ UNCHANGED reply
     \/ <<v, o>> \in cooldown /\ Goto(r, "done") /\ Decide(r, "refused")
  /\ UNCHANGED <<docs, cooldown, lockVars, timer, found>>

LogVisit(r, op) ==
  /\ pc[r] = "log" /\ task[r].op = op
  /\ visits' = [visits EXCEPT ![Owner(r)] = @ \cup {r}]
  /\ UNCHANGED <<exists, buildings, cooldown, lockVars, timer, task, found>>

StealLog(r) ==
  /\ LogVisit(r, "steal")
  /\ Goto(r, "cool") /\ UNCHANGED reply

AssistLog(r) ==
  /\ LogVisit(r, "assist")
  /\ Goto(r, "done") /\ Decide(r, "assisted")

SetCooldown(r) ==
  /\ pc[r] = "cool"
  /\ cooldown' = cooldown \cup {<<task[r].by, Owner(r)>>}
  /\ Goto(r, "getLock") /\ Decide(r, "stolen")
  /\ UNCHANGED <<docs, lockVars, timer, task, found>>

-----------------------------------------------------------------------------
\* The environment

CallFails(r) ==
  /\ pc[r] \in {"create", "lock", "expire", "update", "find", "log", "cool",
                "getLock", "delLock"}
  /\ Throw(r)
  /\ UNCHANGED <<docs, cooldown, lockVars, timer, task, found>>

InFlight(r) == pc[r] \notin {"idle", "done", "dead"}

\* A process stops: its requests end, its timers are forgotten.
Crash(s) ==
  /\ \E r \in Requests : ServerOf[r] = s /\ (InFlight(r) \/ timer[r] = "armed")
  /\ pc' = [r \in Requests |->
              IF ServerOf[r] = s /\ InFlight(r) THEN "dead" ELSE pc[r]]
  /\ timer' = [r \in Requests |->
                 IF ServerOf[r] = s /\ timer[r] = "armed" THEN "lost" ELSE timer[r]]
  /\ UNCHANGED <<docs, cooldown, lockVars, task, found, reply>>

\* The request runs between its SETNX and its DEL.
InSection(r) ==
  \/ pc[r] \in {"expire", "update", "find", "cool", "getLock", "delLock"}
  \/ pc[r] \in {"create", "log"} /\ task[r].op = "steal"

LockLapses(k) ==
  /\ MayLapse \/ \A r \in Requests : InSection(r) => Key(r) # k
  /\ Lock!Lapse(k)
  /\ UNCHANGED <<docs, cooldown, timer, task, pc, found, reply>>

CooldownEnds(c) ==
  /\ c \in cooldown
  /\ cooldown' = cooldown \ {c}
  /\ UNCHANGED <<docs, lockVars, timer, task, pc, found, reply>>

Rest ==
  /\ \A r \in Requests : ~InFlight(r) /\ pc[r] # "idle" /\ timer[r] # "armed"
  /\ UNCHANGED vars

Next ==
  \/ \E r \in Requests, o \in Owners :
       \/ BuildFind(r, o)
       \/ \E v \in Visitors :
            AssistFind(r, v, o) \/ VisitFind(r, v, o) \/ StealCooldown(r, v, o)
  \/ \E r \in Requests :
       \/ StealFind(r) \/ CreateNew(r) \/ CreateClash(r)
       \/ Acquire(r) \/ Expire(r) \/ GetLock(r) \/ DelLock(r)
       \/ Update(r) \/ UpdateReplyLost(r) \/ TimerFires(r) \/ TimerFails(r)
       \/ StealLog(r) \/ AssistLog(r) \/ SetCooldown(r) \/ CallFails(r)
  \/ \E s \in Servers : Crash(s)
  \/ \E k \in LockKeys : LockLapses(k)
  \/ \E c \in cooldown : CooldownEnds(c)
  \/ Rest

Spec == Init /\ [][Next]_vars

\* A running process fires its timers.
FairSpec == Spec /\ \A r \in Requests : WF_vars(TimerFires(r))

-----------------------------------------------------------------------------
\* Properties

\* Between its SETNX and its DEL a request owns its lock and is alone: two
\* thefts from one estate do not overlap, nor two updates of one building.
SectionOwnsLock ==
  \A r \in Requests :
    InSection(r) =>
      /\ lockVal[Key(r)] = StampOf[r]
      /\ \A q \in Requests \ {r} : InSection(q) => Key(q) # Key(r)

\* A timer was forgotten or a call failed while o's building was worked on.
Disturbed(o) ==
  \E r \in Requests :
    /\ pc[r] # "idle" /\ task[r].op = "build" /\ Owner(r) = o
    /\ timer[r] = "lost" \/ reply[r] = "error"

\* However starts and completions interleave, a building that is under
\* construction has a timer to end it, unless one was lost.
ConstructionHasTimer ==
  \A o \in Owners :
    UnderConstruction(o) =>
      \/ Disturbed(o)
      \/ \E r \in Requests : timer[r] = "armed" /\ Owner(r) = o

\* Levels are gained by completed constructions only, one each: not by an
\* overlapping start, nor by the second entry a race can push.
FiredFor(o) == {r \in Requests : timer[r] = "fired" /\ Owner(r) = o}
LevelsEarned ==
  \A o \in Owners :
    /\ Cardinality(FiredFor(o)) = IF buildings[o] = <<>> THEN 0 ELSE buildings[o][1].level
    /\ \A i \in 2..Len(buildings[o]) : buildings[o][i].level = 0

\* A construction ends unless its timer is lost or the call that started or
\* ended it fails.
ConstructionEnds ==
  \A o \in Owners : UnderConstruction(o) ~> ~UnderConstruction(o) \/ Disturbed(o)

-----------------------------------------------------------------------------
\* Statements of the repository that the code does not keep

\* estate.service.ts:84, the lock makes starting a building safe: a building
\* is not started while it is under construction.
OneConstruction ==
  \A r, q \in Requests :
    timer[r] = "armed" /\ timer[q] = "armed" /\ Owner(r) = Owner(q) => r = q

\* ARCHITECTURE.md:223, thefts have a cooldown: none succeeds during it.
StealsCool ==
  [][\A r \in Requests :
       reply[r] # "stolen" /\ reply'[r] = "stolen" =>
         <<task[r].by, Owner(r)>> \notin cooldown]_vars

==============================================================================
