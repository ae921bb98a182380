---------------------------- MODULE SessionProofs ----------------------------
(***************************************************************************)
(* Proofs about Session for any number of players and requests, any token  *)
(* lives and any clock, failed calls and lost replies included: its types, *)
(* that a player is new once, that the client's token is the stored one,   *)
(* that a logout is final and that a revoked token stays revoked.          *)
(***************************************************************************)
EXTENDS Session, TLAPS

\* Which operation can be where; a login that found a document has seen it.
Placed ==
  \A r \in Requests :
    /\ pc[r] = "create" => Op(r) \in {"login", "register"}
    /\ pc[r] = "save" => Op(r) = "login" /\ seen[r] # None
    /\ pc[r] = "get" => Op(r) = "refresh"
    /\ pc[r] = "store" => Op(r) \in Issuing
    /\ pc[r] \in {"del", "blacklist"} => Op(r) = "logout"
    /\ pc[r] = "setCache" => seen[r] # None
    /\ r \in told => pc[r] = "done"

\* Tokens are signed in the past: those that were answered, and the one a
\* request is about to store, which is a token of its player.
TokenHeld ==
  /\ \A r \in Requests :
       /\ pc[r] = "store" =>
            token[r] \in Tokens /\ token[r].player = Player(r) /\ token[r].iat <= now
       /\ pc[r] = "del" => token[r] \in granted \cup {None}
       /\ pc[r] = "blacklist" => token[r] \in granted
  /\ \A t \in granted : t.iat <= now

TypeInv == TypeOK /\ Placed /\ TokenHeld

-----------------------------------------------------------------------------
\* Types

LEMMA TypeInit == Init => TypeInv
  BY MaxTimeAssumption
  DEF Init, TypeInv, TypeOK, Placed, TokenHeld, Labels

LEMMA Constants ==
  /\ MaxTime \in Nat /\ AccessLife \in Nat \ {0} /\ RefreshLife \in Nat \ {0}
  /\ AccessLife <= RefreshLife /\ MayFail \in BOOLEAN
  /\ None \notin {"online", "offline"} /\ None \notin Tokens /\ None \notin Tasks
  /\ None \notin Keys
  BY MaxTimeAssumption, LifeAssumption, MayFailAssumption, NoneAssumption

\* A request past its arrival has an operation and a player.
LEMMA TaskOf ==
  ASSUME TypeInv, NEW r \in Requests, pc[r] # "idle"
  PROVE  task[r] \in Tasks /\ Player(r) \in Players /\ Op(r) \in SessionOps \cup {"profile", "online", "offline"}
  BY DEF TypeInv, TypeOK, Tasks, Player, Op

\* A fresh token.
LEMMA SignType ==
  ASSUME TypeInv, NEW p \in Players
  PROVE  Sign(p) \in Tokens /\ Sign(p).player = p /\ Sign(p).iat = now /\ now \in Nat
  BY Constants DEF TypeInv, TypeOK, Sign, Tokens

LEMMA StoredType ==
  ASSUME TypeInv, NEW t \in Tokens
  PROVE  /\ Stored(t) \in Keys /\ Stored(t) # None
         /\ Stored(t).token = t /\ Stored(t).until = now + RefreshLife
  BY Constants DEF TypeInv, TypeOK, Stored, Keys

LEMMA TypeStep ==
  ASSUME TypeInv, [Next]_vars
  PROVE  TypeInv'
<1> USE Constants DEF TypeInv, TypeOK, Placed, TokenHeld, Labels, docs, history, Goto,
        Answer, Arrive, Overlap, Op, Player, SessionOps, Issuing, Tasks
<1>1. ASSUME NEW r \in Requests, NEW p \in Players, WechatLogin(r, p)
      PROVE  TypeInv'
  BY <1>1 DEF WechatLogin, LoginFind
<1>2. ASSUME NEW r \in Requests, NEW p \in Players, AccountLogin(r, p)
      PROVE  TypeInv'
  BY <1>2 DEF AccountLogin, LoginFind
<1>3. ASSUME NEW r \in Requests, NEW p \in Players, Register(r, p)
      PROVE  TypeInv'
  BY <1>3 DEF Register
<1>4. ASSUME NEW r \in Requests, NEW p \in Players, GetProfile(r, p)
      PROVE  TypeInv'
  <2>1. CASE profile[p] # None
    BY <1>4, <2>1 DEF GetProfile
  <2>2. CASE profile[p] = None
    BY <1>4, <2>2 DEF GetProfile
  <2> QED
    BY <2>1, <2>2
<1>5. ASSUME NEW r \in Requests, NEW p \in Players, NEW s \in {"online", "offline"},
             UpdateStatus(r, p, s)
      PROVE  TypeInv'
  BY <1>5 DEF UpdateStatus
<1>6. ASSUME NEW r \in Requests, NEW t \in granted, Refresh(r, t)
      PROVE  TypeInv'
  <2> DEFINE p == t.player
  <2>1. /\ t \in Tokens /\ p \in Players /\ pc[r] = "idle"
        /\ task' = [task EXCEPT ![r] = [op |-> "refresh", player |-> p]]
        /\ calm' = [calm EXCEPT ![p] = @ /\ Open(p) = {}]
        /\ UNCHANGED <<now, docs, seen, granted, inHand, loggedOut>>
    BY <1>6 DEF Refresh, Tokens
  <2>2. CASE pc' = [pc EXCEPT ![r] = "get"] /\ UNCHANGED told /\ token' = [token EXCEPT ![r] = t]
    BY <2>1, <2>2
  <2>3. CASE /\ pc' = [pc EXCEPT ![r] = "done"] /\ UNCHANGED told
             /\ UNCHANGED token
    BY <2>1, <2>3
  <2> QED
    BY <1>6, <2>2, <2>3 DEF Refresh
<1>7. ASSUME NEW r \in Requests, NEW a \in granted, NEW t \in granted \cup {None},
             Logout(r, a, t)
      PROVE  TypeInv'
  BY <1>7 DEF Logout, Tokens
<1>8. ASSUME NEW r \in Requests, Create(r)
      PROVE  TypeInv'
  <2> DEFINE p == task[r].player
  <2>1. /\ pc[r] = "create" /\ p \in Players /\ task[r] \in Tasks
        /\ Sign(p) \in Tokens /\ Sign(p).player = p /\ Sign(p).iat = now /\ now \in Nat
        /\ UNCHANGED <<now, session, blacklist, profile, task, history>>
    BY <1>8, TaskOf, SignType DEF Create
  <2>2. CASE UniqueIndex(p)
    <3>1. /\ status' = [status EXCEPT ![p] = "online"] /\ token' = [token EXCEPT ![r] = Sign(p)]
          /\ seen' = [seen EXCEPT ![r] = None] /\ pc' = [pc EXCEPT ![r] = "store"]
          /\ UNCHANGED told
      BY <1>8, <2>2 DEF Create
    <3> QED
      BY <2>1, <3>1
  <2>3. CASE ~UniqueIndex(p)
    <3>1. /\ pc' = [pc EXCEPT ![r] = "done"] /\ UNCHANGED told
          /\ UNCHANGED <<status, seen, token>>
      BY <1>8, <2>3 DEF Create
    <3> QED
      BY <2>1, <3>1
  <2> QED
    BY <2>2, <2>3
<1>9. ASSUME NEW r \in Requests, Save(r)
      PROVE  TypeInv'
  <2> DEFINE p == task[r].player
  <2>1. /\ pc[r] = "save" /\ p \in Players /\ task[r] \in Tasks
        /\ Sign(p) \in Tokens /\ Sign(p).player = p /\ Sign(p).iat = now /\ now \in Nat
        /\ UNCHANGED <<now, session, blacklist, profile, task, told, seen, history>>
    BY <1>9, TaskOf, SignType DEF Save
  <2>2. /\ \E s \in {status[p], "online"} : status' = [status EXCEPT ![p] = s]
        /\ token' = [token EXCEPT ![r] = Sign(p)] /\ pc' = [pc EXCEPT ![r] = "store"]
    BY <1>9 DEF Save
  <2> QED
    BY <2>1, <2>2
<1>10. ASSUME NEW r \in Requests, RefreshGet(r)
       PROVE  TypeInv'
  <2> DEFINE p == task[r].player
  <2>1. /\ pc[r] = "get" /\ p \in Players /\ task[r] \in Tasks
        /\ Sign(p) \in Tokens /\ Sign(p).player = p /\ Sign(p).iat = now /\ now \in Nat
        /\ UNCHANGED <<now, docs, task, seen, history>>
    BY <1>10, TaskOf, SignType DEF RefreshGet
  <2>2. CASE IsStored(p, token[r])
    <3>1. /\ token' = [token EXCEPT ![r] = Sign(p)] /\ pc' = [pc EXCEPT ![r] = "store"]
          /\ UNCHANGED told
      BY <1>10, <2>2 DEF RefreshGet
    <3> QED
      BY <2>1, <3>1
  <2>3. CASE ~IsStored(p, token[r])
    <3>1. /\ pc' = [pc EXCEPT ![r] = "done"] /\ UNCHANGED told
          /\ UNCHANGED token
      BY <1>10, <2>3 DEF RefreshGet
    <3> QED
      BY <2>1, <3>1
  <2> QED
    BY <2>2, <2>3
<1>11. ASSUME NEW r \in Requests, Store(r)
       PROVE  TypeInv'
  <2> DEFINE p == task[r].player
             k == Stored(token[r])
  <2>1. /\ p \in Players /\ task[r] \in Tasks /\ token[r] \in Tokens /\ token[r].player = p
        /\ token[r].iat <= now /\ k \in Keys /\ k.token = token[r]
    BY <1>11, TaskOf, StoredType DEF Store
  <2>2. /\ session' = [session EXCEPT ![p] = k] /\ pc' = [pc EXCEPT ![r] = "done"]
        /\ told' \in {told, told \cup {r}}
        /\ granted' \in {granted, granted \cup {token[r]}}
        /\ inHand' \in {inHand, [inHand EXCEPT ![p] = token[r]]}
        /\ calm' \in {calm, [calm EXCEPT ![p] = FALSE]} /\ loggedOut' = loggedOut
        /\ UNCHANGED <<now, status, blacklist, profile, task, seen, token>>
    BY <1>11 DEF Store
  <2> HIDE DEF k
  <2>3. /\ session' \in [Players -> Keys \cup {None}]
        /\ \A q \in Players : session'[q] # None => session'[q].token.player = q
    BY <2>1, <2>2
  <2>4. granted' \subseteq Tokens /\ blacklist' \subseteq granted' /\ granted \subseteq granted'
    BY <2>1, <2>2
  <2>5. /\ inHand' \in [Players -> Tokens \cup {None}]
        /\ calm' \in [Players -> BOOLEAN] /\ loggedOut' \in [Players -> BOOLEAN]
    <3>1. inHand \in [Players -> Tokens \cup {None}] /\ calm \in [Players -> BOOLEAN]
          /\ loggedOut \in [Players -> BOOLEAN]
      OBVIOUS
    <3>2. inHand' \in [Players -> Tokens \cup {None}]
      BY <3>1, <2>1, <2>2
    <3>3. calm' \in [Players -> BOOLEAN]
      <4> HIDE DEF TypeInv, TypeOK, Placed, TokenHeld, p
      <4>1. CASE calm' = calm
        BY <3>1, <4>1
      <4>2. CASE calm' = [calm EXCEPT ![p] = FALSE]
        BY <3>1, <4>2
      <4> QED
        BY <2>2, <4>1, <4>2
    <3> QED
      BY <3>1, <3>2, <3>3, <2>2
  <2>r. /\ pc' \in [Requests -> Labels] /\ told' \subseteq Requests
        /\ \A q \in Requests : pc'[q] # "idle" => task'[q] # None
    BY <2>1, <2>2
  <2>6. TypeOK'
    BY <2>2, <2>3, <2>4, <2>5, <2>r
  <2>7. Placed' /\ TokenHeld'
    BY <2>1, <2>2
  <2> QED
    BY <2>6, <2>7
<1>12. ASSUME NEW r \in Requests, LogoutDel(r)
       PROVE  TypeInv'
  BY <1>12, TaskOf DEF LogoutDel
<1>13. ASSUME NEW r \in Requests, LogoutBlacklist(r)
       PROVE  TypeInv'
  BY <1>13, TaskOf DEF LogoutBlacklist
<1>14. ASSUME NEW r \in Requests, Update(r)
       PROVE  TypeInv'
  <2>1. /\ pc[r] = "update" /\ task[r] \in Tasks /\ Player(r) \in Players
        /\ UNCHANGED <<now, session, blacklist, profile, task, seen, token, history>>
        /\ \E s \in {None, "online", "offline"} : status' = [status EXCEPT ![Player(r)] = s]
    BY <1>14, TaskOf DEF Update
  <2>2. CASE Op(r) = "logout"
    BY <1>14, <2>1, <2>2 DEF Update
  <2>3. CASE Op(r) # "logout"
    BY <1>14, <2>1, <2>3 DEF Update
  <2> QED
    BY <2>2, <2>3
<1>15. ASSUME NEW r \in Requests, DelCache(r)
       PROVE  TypeInv'
  BY <1>15, TaskOf DEF DelCache
<1>16. ASSUME NEW r \in Requests, FindDoc(r)
       PROVE  TypeInv'
  <2> DEFINE p == task[r].player
  <2>1. /\ pc[r] = "findDoc" /\ p \in Players /\ task[r] \in Tasks
        /\ UNCHANGED <<now, docs, task, token, history>>
    BY <1>16, TaskOf DEF FindDoc
  <2>2. CASE status[p] = None
    <3>1. /\ pc' = [pc EXCEPT ![r] = "done"] /\ UNCHANGED told
          /\ UNCHANGED seen
      BY <1>16, <2>2 DEF FindDoc
    <3> QED
      BY <2>1, <3>1
  <2>3. CASE status[p] # None
    <3>1. /\ seen' = [seen EXCEPT ![r] = status[p]] /\ pc' = [pc EXCEPT ![r] = "setCache"]
          /\ UNCHANGED told
      BY <1>16, <2>3 DEF FindDoc
    <3> QED
      BY <2>1, <2>3, <3>1
  <2> QED
    BY <2>2, <2>3
<1>17. ASSUME NEW r \in Requests, SetCache(r)
       PROVE  TypeInv'
  BY <1>17, TaskOf DEF SetCache
<1>18. ASSUME NEW r \in Requests, CallFails(r)
       PROVE  TypeInv'
  BY <1>18 DEF CallFails, Running
<1>19. ASSUME NEW p \in Players, CacheExpires(p)
       PROVE  TypeInv'
  BY <1>19 DEF CacheExpires
<1>20. CASE Tick
  BY <1>20 DEF Tick, Tokens
<1>21. CASE UNCHANGED vars
  BY <1>21 DEF vars
<1> HIDE DEF TypeInv, TypeOK, Placed, TokenHeld, Labels, docs, history, Goto, Answer,
         Arrive, Overlap, Op, Player, SessionOps, Issuing, Tasks
<1> QED
  BY <1>1, <1>2, <1>3, <1>4, <1>5, <1>6, <1>7, <1>8, <1>9, <1>10, <1>11, <1>12, <1>13, <1>14,
     <1>15, <1>16, <1>17, <1>18, <1>19, <1>20, <1>21 DEF Next, Step

\* Documents, keys, tokens and requests keep their types.
THEOREM TypeCorrect == Spec => []TypeOK
<1>1. TypeInv => TypeOK
  BY DEF TypeInv
<1> QED
  BY <1>1, TypeInit, TypeStep, PTL DEF Spec
-----------------------------------------------------------------------------
\* Most steps leave alone what the properties are about: they end no login,
\* store no token and begin nothing that may.

Storing == {"create", "save", "store"}

Background ==
  /\ UNCHANGED <<now, session, granted, inHand, loggedOut>>
  /\ \A p \in Players : calm'[p] => calm[p]
  /\ \A p \in Players : status[p] # None => status'[p] # None
  /\ \A r \in Requests : pc'[r] \in Storing =>
       pc'[r] = pc[r] /\ task'[r] = task[r] /\ token'[r] = token[r] /\ seen'[r] = seen[r]
  /\ \A r \in told' : r \in told /\ task'[r] = task[r]

\* The steps that do more.
Foreground(r) ==
  \/ \E p \in Players : WechatLogin(r, p) \/ AccountLogin(r, p) \/ Register(r, p)
  \/ Create(r) \/ Save(r) \/ RefreshGet(r) \/ Store(r) \/ LogoutDel(r)

LEMMA Steps ==
  ASSUME TypeInv, [Next]_vars
  PROVE  Background \/ Tick \/ \E r \in Requests : Foreground(r)
<1> USE DEF TypeInv, TypeOK, Placed, Background, Storing, docs, history, Goto, Answer, Arrive,
        Overlap
<1>1. ASSUME NEW r \in Requests, NEW p \in Players, GetProfile(r, p)
      PROVE  Background
  BY <1>1 DEF GetProfile
<1>2. ASSUME NEW r \in Requests, NEW p \in Players, NEW s \in {"online", "offline"},
             UpdateStatus(r, p, s)
      PROVE  Background
  BY <1>2 DEF UpdateStatus
<1>3. ASSUME NEW r \in Requests, NEW t \in granted, Refresh(r, t)
      PROVE  Background
  BY <1>3 DEF Refresh, Tokens
<1>4. ASSUME NEW r \in Requests, NEW a \in granted, NEW t \in granted \cup {None},
             Logout(r, a, t)
      PROVE  Background
  BY <1>4 DEF Logout, Tokens
<1>5. ASSUME NEW r \in Requests, LogoutBlacklist(r)
      PROVE  Background
  BY <1>5 DEF LogoutBlacklist
<1>6. ASSUME NEW r \in Requests, Update(r)
      PROVE  Background
  <2>1. Player(r) \in Players
    BY <1>6, TaskOf DEF Update
  <2>2. \A p \in Players : status[p] # None => status'[p] # None
    BY <1>6, <2>1, Constants DEF Update
  <2> QED
    BY <1>6, <2>2 DEF Update
<1>7. ASSUME NEW r \in Requests, DelCache(r)
      PROVE  Background
  BY <1>7 DEF DelCache
<1>8. ASSUME NEW r \in Requests, FindDoc(r)
      PROVE  Background
  BY <1>8 DEF FindDoc
<1>9. ASSUME NEW r \in Requests, SetCache(r)
      PROVE  Background
  BY <1>9 DEF SetCache
<1>10. ASSUME NEW r \in Requests, CallFails(r)
       PROVE  Background
  BY <1>10 DEF CallFails
<1>11. ASSUME NEW p \in Players, CacheExpires(p)
       PROVE  Background
  BY <1>11 DEF CacheExpires
<1>12. CASE UNCHANGED vars
  BY <1>12 DEF vars
<1> HIDE DEF TypeInv, TypeOK, Placed, Background, Storing, docs, history, Goto, Answer, Arrive,
         Overlap
<1> QED
  BY <1>1, <1>2, <1>3, <1>4, <1>5, <1>6, <1>7, <1>8, <1>9, <1>10, <1>11, <1>12
  DEF Next, Step, Foreground

-----------------------------------------------------------------------------
\* New once

\* A request that has created a document and will say so, or has.
Creator(r) ==
  \/ pc[r] = "store" /\ Op(r) # "refresh" /\ seen[r] = None
  \/ r \in told

OnceInv ==
  /\ \A r \in Requests : Creator(r) => status[Player(r)] # None
  /\ \A r, s \in Requests : Creator(r) /\ Creator(s) /\ Player(r) = Player(s) => r = s

\* A step that makes no creator and removes no document keeps OnceInv.
LEMMA NoNewCreator ==
  ASSUME TypeInv, OnceInv,
         \A r \in Requests : Creator(r)' => Creator(r) /\ task'[r] = task[r],
         \A p \in Players : status[p] # None => status'[p] # None
  PROVE  OnceInv'
<1>1. \A r \in Requests : Creator(r) => Player(r) \in Players
  BY TaskOf DEF Creator, TypeInv, Placed
<1> QED
  BY <1>1 DEF OnceInv, Player

LEMMA OnceStep ==
  ASSUME TypeInv, OnceInv, [Next]_vars
  PROVE  OnceInv'
<1> USE DEF docs, history, Goto, Answer, Arrive
<1>1. CASE Background
  <2>1. \A r \in Requests : Creator(r)' => Creator(r) /\ task'[r] = task[r]
    BY <1>1 DEF Background, Storing, Creator, Op
  <2> QED
    BY <1>1, <2>1, NoNewCreator DEF Background
<1>2. CASE Tick
  <2>1. \A r \in Requests : Creator(r)' => Creator(r) /\ task'[r] = task[r]
    BY <1>2 DEF Tick, Creator, Op
  <2> QED
    BY <1>2, <2>1, NoNewCreator DEF Tick
<1>3. ASSUME NEW r \in Requests, Foreground(r)
      PROVE  OnceInv'
  <2> USE <1>3 DEF TypeInv, TypeOK, Placed
  <2>1. ASSUME NEW p \in Players, WechatLogin(r, p) \/ AccountLogin(r, p) \/ Register(r, p)
        PROVE  OnceInv'
    <3>1. \A q \in Requests : Creator(q)' => Creator(q) /\ task'[q] = task[q]
      BY <2>1 DEF WechatLogin, AccountLogin, Register, LoginFind, Creator, Op
    <3> QED
      BY <2>1, <3>1, NoNewCreator DEF WechatLogin, AccountLogin, Register, LoginFind
  <2>2. CASE Create(r) /\ ~UniqueIndex(Player(r))
    <3>1. \A q \in Requests : Creator(q)' => Creator(q) /\ task'[q] = task[q]
      BY <2>2 DEF Create, Creator, Op
    <3> QED
      BY <2>2, <3>1, NoNewCreator DEF Create
  <2>3. CASE Create(r) /\ UniqueIndex(Player(r))
    <3>1. /\ Player(r) \in Players /\ status[Player(r)] = None /\ task' = task
          /\ status' = [status EXCEPT ![Player(r)] = "online"]
      BY <2>3, TaskOf DEF Create, UniqueIndex
    <3>2. \A q \in Requests : Creator(q)' => Creator(q) \/ q = r
      BY <2>3 DEF Create, Creator, Op
    <3>3. \A q \in Requests : Creator(q) => Player(q) # Player(r)
      BY <3>1 DEF OnceInv
    <3>4. \A q \in Requests : Creator(q) => Player(q) \in Players
      BY TaskOf DEF Creator
    <3>5. \A p \in Players : status'[p] = IF p = Player(r) THEN "online" ELSE status[p]
      BY <3>1
    <3> HIDE DEF TypeInv, TypeOK, Placed
    <3> QED
      BY <3>1, <3>2, <3>3, <3>4, <3>5, Constants DEF OnceInv, Player
  <2>4. CASE Save(r)
    <3>1. Player(r) \in Players
      BY <2>4, TaskOf DEF Save
    <3>2. \A q \in Requests : Creator(q)' => Creator(q) /\ task'[q] = task[q]
      BY <2>4 DEF Save, Creator, Op
    <3>3. \A p \in Players : status[p] # None => status'[p] # None
      BY <2>4, <3>1, Constants DEF Save
    <3> QED
      BY <3>2, <3>3, NoNewCreator
  <2>5. CASE RefreshGet(r)
    <3>1. \A q \in Requests : Creator(q)' => Creator(q) /\ task'[q] = task[q]
      BY <2>5 DEF RefreshGet, Creator, Op
    <3> QED
      BY <2>5, <3>1, NoNewCreator DEF RefreshGet
  <2>6. CASE Store(r)
    <3>1. \A q \in Requests : Creator(q)' => Creator(q) /\ task'[q] = task[q]
      BY <2>6 DEF Store, Creator, Op
    <3> QED
      BY <2>6, <3>1, NoNewCreator DEF Store
  <2>7. CASE LogoutDel(r)
    <3>1. \A q \in Requests : Creator(q)' => Creator(q) /\ task'[q] = task[q]
      BY <2>7 DEF LogoutDel, Creator, Op
    <3> QED
      BY <2>7, <3>1, NoNewCreator DEF LogoutDel
  <2> HIDE DEF TypeInv, TypeOK, Placed
  <2> QED
    BY <2>1, <2>2, <2>3, <2>4, <2>5, <2>6, <2>7 DEF Foreground
<1> QED
  BY <1>1, <1>2, <1>3, Steps

\* However many first logins find no document, the unique index lets one
\* create it, and only that one is told that the player is new.
THEOREM OnceNew == Spec => []NewOnce
<1>1. Init => OnceInv
  BY DEF Init, OnceInv, Creator
<1>2. TypeInv /\ OnceInv => NewOnce
  BY DEF TypeInv, TypeOK, OnceInv, Creator, NewOnce
<1> QED
  BY <1>1, <1>2, TypeInit, TypeStep, OnceStep, PTL DEF Spec

-----------------------------------------------------------------------------
\* Logout

\* After a logout that met nobody there is no key, and nobody who could store
\* one: a login ends the claim, and a refresh needs the key to get that far.
LogoutInv ==
  \A p \in Players : loggedOut[p] =>
    session[p] = None /\ \A r \in Requests : pc[r] \in Storing => Player(r) # p

LEMMA LogoutStep ==
  ASSUME TypeInv, LogoutInv, [Next]_vars
  PROVE  LogoutInv'
<1> USE DEF docs, history, Goto, Answer, Arrive, Storing, Player
<1>1. CASE Background
  BY <1>1 DEF Background, LogoutInv
<1>2. CASE Tick
  BY <1>2 DEF Tick, LogoutInv
<1>3. ASSUME NEW r \in Requests, Foreground(r)
      PROVE  LogoutInv'
  <2> USE <1>3 DEF TypeInv, TypeOK, Placed
  <2>1. ASSUME NEW p \in Players, WechatLogin(r, p) \/ AccountLogin(r, p) \/ Register(r, p)
        PROVE  LogoutInv'
    <3>1. /\ session' = session /\ loggedOut' = [loggedOut EXCEPT ![p] = FALSE]
          /\ task' = [task EXCEPT ![r] = [op |-> task'[r].op, player |-> p]]
          /\ \A q \in Requests : q # r => pc'[q] = pc[q] /\ task'[q] = task[q]
      BY <2>1 DEF WechatLogin, AccountLogin, Register, LoginFind
    <3>2. task'[r].player = p
      BY <2>1 DEF WechatLogin, AccountLogin, Register, LoginFind
    <3> QED
      BY <3>1, <3>2 DEF LogoutInv
  <2>2. CASE Create(r) \/ Save(r)
    <3>1. /\ UNCHANGED <<session, loggedOut, task>> /\ pc[r] \in Storing
          /\ \A q \in Requests : q # r => pc'[q] = pc[q]
      BY <2>2 DEF Create, Save
    <3> QED
      BY <3>1 DEF LogoutInv
  <2>3. CASE RefreshGet(r)
    <3>1. /\ UNCHANGED <<session, loggedOut, task>>
          /\ \A q \in Requests : q # r => pc'[q] = pc[q]
          /\ pc'[r] \in Storing => session[Player(r)] # None
      BY <2>3 DEF RefreshGet, IsStored
    <3> QED
      BY <3>1 DEF LogoutInv
  <2>4. CASE Store(r)
    <3>1. /\ pc[r] \in Storing /\ loggedOut' = loggedOut /\ task' = task
          /\ pc' = [pc EXCEPT ![r] = "done"]
          /\ session' = [session EXCEPT ![Player(r)] = Stored(token[r])]
      BY <2>4 DEF Store
    <3>2. \A p \in Players : loggedOut[p] => p # Player(r)
      BY <3>1 DEF LogoutInv
    <3>3. \A p \in Players : p # Player(r) => session'[p] = session[p]
      BY <3>1
    <3> QED
      BY <3>1, <3>2, <3>3 DEF LogoutInv
  <2>5. CASE LogoutDel(r)
    <3>1. /\ pc[r] = "del" /\ Player(r) \in Players /\ task' = task
          /\ session' = [session EXCEPT ![Player(r)] = None]
          /\ loggedOut' = [loggedOut EXCEPT ![Player(r)] = @ \/ Open(Player(r)) = {r}]
          /\ \A q \in Requests : pc'[q] \in Storing => q # r /\ pc'[q] = pc[q]
      BY <2>5, TaskOf DEF LogoutDel
    <3>2. \A q \in Requests : pc[q] \in Storing => q \in Open(Player(q))
      BY DEF Open, Running, SessionOps, Issuing
    <3>3. \A p \in Players : session'[p] = IF p = Player(r) THEN None ELSE session[p]
      BY <3>1
    <3>4. \A p \in Players : p # Player(r) => loggedOut'[p] = loggedOut[p]
      BY <3>1
    <3>5. loggedOut'[Player(r)] => loggedOut[Player(r)] \/ Open(Player(r)) = {r}
      BY <3>1
    <3> HIDE DEF TypeInv, TypeOK, Placed
    <3>6. ASSUME loggedOut'[Player(r)], NEW q \in Requests, pc'[q] \in Storing
          PROVE  Player(q) # Player(r)
      BY <3>1, <3>2, <3>5, <3>6 DEF LogoutInv
    <3> QED
      BY <3>1, <3>3, <3>4, <3>6 DEF LogoutInv
  <2> HIDE DEF TypeInv, TypeOK, Placed
  <2> QED
    BY <2>1, <2>2, <2>3, <2>4, <2>5 DEF Foreground
<1> QED
  BY <1>1, <1>2, <1>3, Steps

\* No refresh gets through between a logout that no other session request of
\* the player overlapped and the next login.
THEOREM LogoutFinal == Spec => []LogoutIsFinal
<1>1. Init => LogoutInv
  BY DEF Init, LogoutInv
<1>2. LogoutInv => LogoutIsFinal
  BY DEF LogoutInv, LogoutIsFinal, Storing
<1> QED
  BY <1>1, <1>2, TypeInit, TypeStep, LogoutStep, PTL DEF Spec

-----------------------------------------------------------------------------
\* The client's token

\* The key outlives the token in it, because the token was signed first.
HeldBy(p) ==
  calm[p] /\ inHand[p] # None /\ Verifies(inHand[p], RefreshLife) =>
    IsStored(p, inHand[p]) /\ session[p].until >= inHand[p].iat + RefreshLife
ClientInv == \A p \in Players : HeldBy(p)

LEMMA ClientStep ==
  ASSUME TypeInv, ClientInv, [Next]_vars
  PROVE  ClientInv'
<1> USE DEF docs, history, Goto, Answer, Arrive, HeldBy, IsStored, Verifies
<1>1. CASE Background
  BY <1>1 DEF Background, ClientInv
<1>2. CASE Tick
  <2>1. /\ now \in Nat /\ RefreshLife \in Nat
        /\ \A p \in Players : inHand[p] # None => inHand[p].iat \in Nat
        /\ \A p \in Players : session[p] # None => session[p].until \in Nat
    BY Constants DEF TypeInv, TypeOK, Tokens, Keys
  <2> QED
    BY <1>2, <2>1 DEF Tick, ClientInv
<1>3. ASSUME NEW r \in Requests, Foreground(r)
      PROVE  ClientInv'
  <2> USE <1>3
  <2>1. CASE UNCHANGED <<now, session, inHand>> /\ \A p \in Players : calm'[p] => calm[p]
    BY <2>1 DEF ClientInv
  <2>2. ASSUME NEW p \in Players, WechatLogin(r, p) \/ AccountLogin(r, p) \/ Register(r, p)
        PROVE  ClientInv'
    <3>1. /\ UNCHANGED <<now, session, inHand>>
          /\ calm' = [calm EXCEPT ![p] = @ /\ Open(p) = {}]
      BY <2>2 DEF WechatLogin, AccountLogin, Register, LoginFind, Overlap
    <3>2. \A q \in Players : calm'[q] => calm[q]
      BY <3>1 DEF TypeInv, TypeOK
    <3> QED
      BY <3>1, <3>2, <2>1
  <2>3. CASE Create(r) \/ Save(r) \/ RefreshGet(r)
    BY <2>1, <2>3 DEF Create, Save, RefreshGet
  <2>4. CASE Store(r)
    <3> DEFINE p == Player(r)
               k == Stored(token[r])
    <3>1. /\ p \in Players /\ token[r] \in Tokens /\ token[r].iat <= now
          /\ token[r].iat \in Nat /\ now \in Nat /\ RefreshLife \in Nat
          /\ k # None /\ k.token = token[r] /\ k.until = now + RefreshLife
      BY <2>4, TaskOf, StoredType, Constants DEF Store, TypeInv, TypeOK, Placed, TokenHeld, Tokens
    <3>2. /\ session' = [session EXCEPT ![p] = k] /\ now' = now
          /\ \/ inHand' = [inHand EXCEPT ![p] = token[r]] /\ calm' = calm
             \/ inHand' = inHand /\ calm' = [calm EXCEPT ![p] = FALSE]
      BY <2>4 DEF Store
    <3>3. /\ session \in [Players -> Keys \cup {None}] /\ calm \in [Players -> BOOLEAN]
          /\ inHand \in [Players -> Tokens \cup {None}]
      BY DEF TypeInv, TypeOK
    <3>4. ASSUME NEW q \in Players, q # p
          PROVE  HeldBy(q)'
      <4>1. session'[q] = session[q] /\ inHand'[q] = inHand[q] /\ calm'[q] = calm[q]
        BY <3>2, <3>3, <3>4
      <4> QED
        BY <4>1, <3>2 DEF ClientInv
    <3>5. ASSUME NEW q \in Players, q = p
          PROVE  HeldBy(q)'
      <4> HIDE DEF k, p
      <4>1. CASE inHand' = [inHand EXCEPT ![p] = token[r]]
        <5>1. inHand'[q] = token[r] /\ session'[q] = k
          BY <4>1, <3>1, <3>2, <3>3, <3>5
        <5> QED
          BY <5>1, <3>1, <3>2
      <4>2. CASE calm' = [calm EXCEPT ![p] = FALSE]
        <5>1. ~calm'[q]
          BY <4>2, <3>1, <3>3, <3>5
        <5> QED
          BY <5>1
      <4> QED
        BY <4>1, <4>2, <3>2
    <3> QED
      BY <3>4, <3>5 DEF ClientInv
  <2>5. CASE LogoutDel(r)
    <3>1. /\ Player(r) \in Players /\ now' = now /\ calm' = calm
          /\ session' = [session EXCEPT ![Player(r)] = None]
          /\ inHand' = [inHand EXCEPT ![Player(r)] = None]
      BY <2>5, TaskOf DEF LogoutDel
    <3>2. \A q \in Players : q # Player(r) => session'[q] = session[q] /\ inHand'[q] = inHand[q]
      BY <3>1 DEF TypeInv, TypeOK
    <3>3. inHand'[Player(r)] = None
      BY <3>1 DEF TypeInv, TypeOK
    <3> QED
      BY <3>1, <3>2, <3>3 DEF ClientInv
  <2> QED
    BY <2>2, <2>3, <2>4, <2>5 DEF Foreground
<1> QED
  BY <1>1, <1>2, <1>3, Steps

\* A client whose session requests do not overlap and whose answers arrive
\* holds the stored token for as long as it verifies, or until it logs out.
THEOREM ClientKeepsSession == Spec => []ClientHoldsSession
<1>1. Init => ClientInv
  BY DEF Init, ClientInv, HeldBy
<1>2. ClientInv => ClientHoldsSession
  BY DEF ClientInv, HeldBy, ClientHoldsSession
<1> QED
  BY <1>1, <1>2, TypeInit, TypeStep, ClientStep, PTL DEF Spec

-----------------------------------------------------------------------------
\* Revocation

LEMMA NotRevived ==
  ASSUME TypeInv, [Next]_vars, NEW t \in granted, ~Alive(t)
  PROVE  ~Alive(t)'
<1> USE DEF docs, history, Goto, Answer, Arrive, Alive, IsStored
<1>1. /\ t \in Tokens /\ t.player \in Players /\ t.iat \in Nat /\ t.iat < now /\ now \in Nat
  <2>1. t \in Tokens /\ now \in Nat
    BY Constants DEF TypeInv, TypeOK
  <2>2. t.iat <= now /\ t.iat # now
    BY DEF TypeInv, TokenHeld
  <2> QED
    BY <2>1, <2>2 DEF Tokens
<1>2. CASE Background
  BY <1>2 DEF Background, Storing
<1>3. CASE Tick
  BY <1>1, <1>3 DEF Tick
<1>4. ASSUME NEW r \in Requests, Foreground(r)
      PROVE  ~Alive(t)'
  <2> USE <1>4
  <2>1. CASE \E p \in Players : WechatLogin(r, p) \/ AccountLogin(r, p) \/ Register(r, p)
    <3>1. /\ UNCHANGED <<now, session, token>>
          /\ \A q \in Requests : pc'[q] = "store" => pc[q] = "store"
      BY <2>1 DEF WechatLogin, AccountLogin, Register, LoginFind, TypeInv, TypeOK
    <3> QED
      BY <3>1
  <2>2. CASE Create(r) \/ Save(r) \/ RefreshGet(r)
    <3>1. Player(r) \in Players
      BY <2>2, TaskOf DEF Create, Save, RefreshGet
    <3>2. Sign(Player(r)) # t
      BY <1>1, <3>1, SignType
    <3>3. /\ UNCHANGED <<now, session>>
          /\ \A q \in Requests : pc'[q] = "store" =>
               token'[q] = Sign(Player(r)) \/ (pc[q] = "store" /\ token'[q] = token[q])
      BY <2>2 DEF Create, Save, RefreshGet, TypeInv, TypeOK
    <3> QED
      BY <3>2, <3>3
  <2>3. CASE Store(r)
    <3>1. /\ Player(r) \in Players /\ token[r] \in Tokens /\ token[r] # t /\ now' = now
          /\ token' = token /\ session' = [session EXCEPT ![Player(r)] = Stored(token[r])]
          /\ \A q \in Requests : pc'[q] = "store" => pc[q] = "store"
      BY <2>3, TaskOf DEF Store, TypeInv, TypeOK, Placed, TokenHeld
    <3>2. Stored(token[r]).token = token[r]
      BY <3>1, StoredType
    <3>3. session'[t.player] \in {session[t.player], Stored(token[r])}
      BY <1>1, <3>1 DEF TypeInv, TypeOK
    <3> QED
      BY <3>1, <3>2, <3>3
  <2>4. CASE LogoutDel(r)
    <3>1. /\ UNCHANGED <<now, token>>
          /\ \A q \in Requests : pc'[q] = "store" => pc[q] = "store"
          /\ session'[t.player] \in {session[t.player], None}
      BY <2>4, <1>1 DEF LogoutDel, TypeInv, TypeOK
    <3> QED
      BY <3>1
  <2> QED
    BY <2>1, <2>2, <2>3, <2>4 DEF Foreground
<1> QED
  BY <1>2, <1>3, <1>4, Steps

\* A refresh token that is neither stored nor about to be never comes back,
\* whatever overlaps: replacing, expiring and logging out are for ever.
THEOREM RevokedForGood == Spec => RevokedStaysRevoked
<1>1. TypeInv /\ [Next]_vars => [\A t \in granted : ~Alive(t) => ~Alive(t)']_vars
  BY NotRevived
<1> QED
  BY <1>1, TypeInit, TypeStep, PTL DEF Spec, RevokedStaysRevoked
=============================================================================
