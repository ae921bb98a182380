------------------------------ MODULE Session ------------------------------
(***************************************************************************)
(* Sessions of src/modules/auth/auth.service.ts and the cached profiles of *)
(* src/modules/player/player.service.ts, which meet in the status of a     *)
(* player document.                                                        *)
(*                                                                         *)
(* A request is a label: the call it is about to await, as in Market.  A   *)
(* JWT is determined by its player, its type and the second it was signed  *)
(* in, so a pair of tokens is [player, iat]: two of the same second are    *)
(* the same strings.  Time counts those seconds.                           *)
(***************************************************************************)
EXTENDS Integers, FiniteSets

CONSTANTS
  Players,
  Requests,            \* numbered in the order they arrive in
  KindOf,              \* how a player signs in: "wechat" or "account"
  AccessLife, RefreshLife,  \* JWT_CONFIG, in seconds
  MaxTime,             \* bound on the clock
  MayFail,             \* whether calls are rejected or their replies lost
  None                 \* no value: a missing key, document or token

ASSUME RequestsAssumption == Requests \subseteq Nat
ASSUME KindAssumption == KindOf \in [Players -> {"wechat", "account"}]
ASSUME LifeAssumption ==
  AccessLife \in Nat \ {0} /\ RefreshLife \in Nat \ {0} /\ AccessLife <= RefreshLife
ASSUME MayFailAssumption == MayFail \in BOOLEAN
ASSUME MaxTimeAssumption == MaxTime \in Nat

VARIABLES
  now,
  status,              \* the status in the document of each player, or None
  session,             \* session:<player>:refresh, [token, until], or None
  blacklist,           \* session:blacklist:<token>, which nothing reads
  profile,             \* player:<player>, the cached status, or None
  pc, task,            \* the label and operation of each request
  told,                \* the requests whose answer says that the player is new
  seen,                \* the status each request has read
  token,               \* the pair of tokens each request holds
  granted,             \* history: the pairs that were answered to a client
  inHand,              \* history: the last pair a client was answered
  calm,                \* history: no two session requests have overlapped, no
                       \*          reply was lost
  loggedOut            \* history: a logout met no other session request, and
                       \*          no login has come since

docs == <<status, session, blacklist, profile>>
history == <<granted, inHand, calm, loggedOut>>
vars == <<now, docs, pc, task, told, seen, token, history>>

Tokens == [player : Players, iat : Nat]
Issuing == {"login", "register", "refresh"}
SessionOps == Issuing \cup {"logout"}
Tasks == [op : SessionOps \cup {"profile", "online", "offline"}, player : Players]
Labels == {"idle", "create", "save", "get", "store", "del", "blacklist",
           "update", "findDoc", "setCache", "delCache", "done"}

Keys == [token : Tokens, until : Nat]

ASSUME NoneAssumption == None \notin {"online", "offline"} \cup Tokens \cup Tasks \cup Keys

TypeOK ==
  /\ now \in 0..MaxTime
  /\ status \in [Players -> {None, "online", "offline"}]
  /\ session \in [Players -> Keys \cup {None}]
  /\ \A p \in Players : session[p] # None => session[p].token.player = p
  /\ blacklist \subseteq granted /\ granted \subseteq Tokens
  /\ profile \in [Players -> {None, "online", "offline"}]
  /\ pc \in [Requests -> Labels] /\ told \subseteq Requests
  /\ task \in [Requests -> Tasks \cup {None}]
  /\ \A r \in Requests : pc[r] # "idle" => task[r] # None
  /\ seen \in [Requests -> {None, "online", "offline"}]
  /\ token \in [Requests -> Tokens \cup {None}]
  /\ inHand \in [Players -> Tokens \cup {None}]
  /\ calm \in [Players -> BOOLEAN] /\ loggedOut \in [Players -> BOOLEAN]

Init ==
  /\ now = 0
  /\ status = [p \in Players |-> None] /\ session = [p \in Players |-> None]
  /\ blacklist = {} /\ profile = [p \in Players |-> None]
  /\ pc = [r \in Requests |-> "idle"] /\ task = [r \in Requests |-> None]
  /\ told = {} /\ seen = [r \in Requests |-> None]
  /\ token = [r \in Requests |-> None]
  /\ granted = {} /\ inHand = [p \in Players |-> None]
  /\ calm = [p \in Players |-> TRUE] /\ loggedOut = [p \in Players |-> FALSE]

-----------------------------------------------------------------------------
Player(r) == task[r].player
Op(r) == task[r].op
Running(r) == pc[r] \notin {"idle", "done"}
Open(p) == {r \in Requests : Running(r) /\ Op(r) \in SessionOps /\ Player(r) = p}

Goto(r, label) == pc' = [pc EXCEPT ![r] = label]
\* An answer is "ok", "refused", "error", or "new": isNewPlayer in a login's.
Answer(r, answer) ==
  Goto(r, "done") /\ told' = IF answer = "new" THEN told \cup {r} ELSE told
NextToArrive(r) == \A s \in Requests : s < r => pc[s] # "idle"
Arrive(r, op, p) ==
  /\ pc[r] = "idle" /\ NextToArrive(r)
  /\ task' = [task EXCEPT ![r] = [op |-> op, player |-> p]]
Overlap(p) == calm' = [calm EXCEPT ![p] = @ /\ Open(p) = {}]

\* generateTokens: what verifyAsync accepts until the second it expires in.
SignBackdated(p) == [player |-> p, iat |-> now - 1]
SignTimeless(p) == [player |-> p, iat |-> 0]
Sign(p) == [player |-> p, iat |-> now]
Verifies(t, life) == now < t.iat + life
\* storeRefreshToken, with REFRESH_TOKEN_EXPIRY_SECONDS as the time to live.
StoredAccessLife(t) == [token |-> t, until |-> now + AccessLife]
Stored(t) == [token |-> t, until |-> now + RefreshLife]

-----------------------------------------------------------------------------
\* Logins.  findOne decides between an existing document and a new one.

LoginFind(r, p) ==
  /\ Arrive(r, "login", p) /\ Overlap(p)
  /\ seen' = [seen EXCEPT ![r] = status[p]]
  /\ loggedOut' = [loggedOut EXCEPT ![p] = FALSE]
  /\ UNCHANGED <<now, docs, token, granted, inHand>>

WechatLogin(r, p) ==
  /\ KindOf[p] = "wechat" /\ LoginFind(r, p)
  /\ Goto(r, IF status[p] = None THEN "create" ELSE "save") /\ UNCHANGED told

AccountLogin(r, p) ==
  /\ KindOf[p] = "account" /\ LoginFind(r, p)
  /\ \/ status[p] # None /\ Goto(r, "save") /\ UNCHANGED told
     \/ Answer(r, "refused")              \* no account, or a wrong password

Register(r, p) ==
  /\ Arrive(r, "register", p) /\ KindOf[p] = "account" /\ Overlap(p)
  /\ loggedOut' = [loggedOut EXCEPT ![p] = FALSE]
  /\ \/ status[p] = None /\ Goto(r, "create") /\ UNCHANGED told
     \/ Answer(r, "refused")   \* a taken or malformed name, a malformed password
  /\ UNCHANGED <<now, docs, seen, token, granted, inHand>>

\* The unique indexes of openId and username refuse a second document.
UniqueIndexMissing(p) == TRUE
UniqueIndex(p) == status[p] = None

Create(r) ==
  /\ pc[r] = "create"
  /\ IF UniqueIndex(Player(r))
     THEN /\ status' = [status EXCEPT ![Player(r)] = "online"]
          /\ token' = [token EXCEPT ![r] = Sign(Player(r))]
          /\ seen' = [seen EXCEPT ![r] = None]
          /\ Goto(r, "store") /\ UNCHANGED told
     ELSE Answer(r, "error") /\ UNCHANGED <<status, seen, token>>
  /\ UNCHANGED <<now, session, blacklist, profile, task, history>>

\* save() sends the modified paths: status only when another one was read.
Save(r) ==
  /\ pc[r] = "save"
  /\ status' = [status EXCEPT ![Player(r)] = IF seen[r] = "online" THEN @ ELSE "online"]
  /\ token' = [token EXCEPT ![r] = Sign(Player(r))]
  /\ Goto(r, "store")
  /\ UNCHANGED <<now, session, blacklist, profile, task, told, seen, history>>

\* refreshTokens.  A token of the wrong type, or expired, ends in the catch.
Refresh(r, t) ==
  /\ Arrive(r, "refresh", t.player) /\ Overlap(t.player)
  /\ \/ /\ Verifies(t, RefreshLife) /\ Goto(r, "get") /\ UNCHANGED told
        /\ token' = [token EXCEPT ![r] = t]
     \/ Answer(r, "refused") /\ UNCHANGED token
  /\ UNCHANGED <<now, docs, seen, granted, inHand, loggedOut>>

IsStoredUnchecked(p, t) == TRUE
IsStored(p, t) == session[p] # None /\ session[p].token = t

RefreshGet(r) ==
  /\ pc[r] = "get"
  /\ IF IsStored(Player(r), token[r])
     THEN /\ token' = [token EXCEPT ![r] = Sign(Player(r))]
          /\ Goto(r, "store") /\ UNCHANGED told
     ELSE Answer(r, "refused") /\ UNCHANGED token
  /\ UNCHANGED <<now, docs, task, seen, history>>

\* The end of a login, a registration and a refresh.
Store(r) ==
  LET p == Player(r) IN
  /\ pc[r] = "store"
  /\ session' = [session EXCEPT ![p] = Stored(token[r])]
  /\ \/ /\ Answer(r, IF seen[r] = None /\ Op(r) # "refresh" THEN "new" ELSE "ok")
        /\ granted' = granted \cup {token[r]}
        /\ inHand' = [inHand EXCEPT ![p] = token[r]]
        /\ UNCHANGED <<calm, loggedOut>>
     \/ /\ MayFail /\ Answer(r, "error")
        /\ calm' = [calm EXCEPT ![p] = FALSE]
        /\ UNCHANGED <<granted, inHand, loggedOut>>
  /\ UNCHANGED <<now, status, blacklist, profile, task, seen, token>>

-----------------------------------------------------------------------------
\* logout, behind JwtAuthGuard: an access token that still verifies.  The
\* refresh token in the body may be missing and is not compared to anything.

Logout(r, a, t) ==
  /\ Verifies(a, AccessLife)
  /\ Arrive(r, "logout", a.player) /\ Overlap(a.player)
  /\ Goto(r, "del")
  /\ token' = [token EXCEPT ![r] = t]
  /\ UNCHANGED <<now, docs, told, seen, granted, inHand, loggedOut>>

LogoutDel(r) ==
  LET p == Player(r) IN
  /\ pc[r] = "del"
  /\ session' = [session EXCEPT ![p] = None]
  /\ inHand' = [inHand EXCEPT ![p] = None]
  /\ loggedOut' = [loggedOut EXCEPT ![p] = @ \/ Open(p) = {r}]
  /\ Goto(r, IF token[r] # None /\ Verifies(token[r], RefreshLife) THEN "blacklist" ELSE "update")
  /\ UNCHANGED <<now, status, blacklist, profile, task, told, seen, token, granted, calm>>

LogoutBlacklist(r) ==
  /\ pc[r] = "blacklist"
  /\ blacklist' = blacklist \cup {token[r]}
  /\ Goto(r, "update")
  /\ UNCHANGED <<now, status, session, profile, task, told, seen, token, history>>

\* updateOne of a logout, or findByIdAndUpdate of updateStatus.
Update(r) ==
  /\ pc[r] = "update"
  /\ status' = [status EXCEPT ![Player(r)] =
                  IF @ = None THEN @ ELSE IF Op(r) = "online" THEN "online" ELSE "offline"]
  /\ IF Op(r) = "logout" THEN Answer(r, "ok") ELSE Goto(r, "delCache") /\ UNCHANGED told
  /\ UNCHANGED <<now, session, blacklist, profile, task, seen, token, history>>

-----------------------------------------------------------------------------
\* player.service.ts.  updateStatus drops the cached profile, a login and a
\* logout do not.  Its PLAYER_LOGIN and PLAYER_LOGOUT events have no listener.

UpdateStatus(r, p, s) ==
  /\ Arrive(r, s, p) /\ Goto(r, "update")
  /\ UNCHANGED <<now, docs, told, seen, token, history>>

DelCache(r) ==
  /\ pc[r] = "delCache"
  /\ profile' = [profile EXCEPT ![Player(r)] = None]
  /\ Answer(r, "ok")
  /\ UNCHANGED <<now, status, session, blacklist, task, seen, token, history>>

GetProfile(r, p) ==
  /\ Arrive(r, "profile", p)
  /\ IF profile[p] # None
     THEN Answer(r, "ok") /\ seen' = [seen EXCEPT ![r] = profile[p]]
     ELSE Goto(r, "findDoc") /\ UNCHANGED <<told, seen>>
  /\ UNCHANGED <<now, docs, token, history>>

FindDoc(r) ==
  /\ pc[r] = "findDoc"
  /\ IF status[Player(r)] = None
     THEN Answer(r, "refused") /\ UNCHANGED seen
     ELSE /\ seen' = [seen EXCEPT ![r] = status[Player(r)]]
          /\ Goto(r, "setCache") /\ UNCHANGED told
  /\ UNCHANGED <<now, docs, task, token, history>>

SetCache(r) ==
  /\ pc[r] = "setCache"
  /\ profile' = [profile EXCEPT ![Player(r)] = seen[r]]
  /\ Answer(r, "ok")
  /\ UNCHANGED <<now, status, session, blacklist, task, seen, token, history>>

\* The profile is cached with a time to live of five minutes.
HasExpiryNever(p) == FALSE
HasExpiry(p) == profile[p] # None
CacheExpires(p) ==
  /\ HasExpiry(p)
  /\ profile' = [profile EXCEPT ![p] = None]
  /\ UNCHANGED <<now, status, session, blacklist, pc, task, told, seen, token, history>>

-----------------------------------------------------------------------------
\* A rejected call ends its request, but for the blacklist's: logout catches
\* that one and goes on to the document.
CallFails(r) ==
  /\ MayFail /\ Running(r)
  /\ IF pc[r] = "blacklist" THEN Goto(r, "update") /\ UNCHANGED told ELSE Answer(r, "error")
  /\ UNCHANGED <<now, docs, task, seen, token, history>>

\* A second passes; keys that reach the end of their time go.
Tick ==
  /\ now < MaxTime
  /\ now' = now + 1
  /\ session' = [p \in Players |->
       IF session[p] # None /\ session[p].until <= now + 1 THEN None ELSE session[p]]
  /\ blacklist' = {t \in blacklist : now + 1 < t.iat + RefreshLife}
  /\ UNCHANGED <<status, profile, pc, task, told, seen, token, history>>

Step(r) ==
  \/ Create(r) \/ Save(r) \/ RefreshGet(r) \/ Store(r)
  \/ LogoutDel(r) \/ LogoutBlacklist(r) \/ Update(r)
  \/ DelCache(r) \/ FindDoc(r) \/ SetCache(r)

Next ==
  \/ \E r \in Requests :
       \/ \E p \in Players :
            \/ WechatLogin(r, p) \/ AccountLogin(r, p) \/ Register(r, p) \/ GetProfile(r, p)
            \/ \E s \in {"online", "offline"} : UpdateStatus(r, p, s)
       \/ \E t \in granted : Refresh(r, t)
       \/ \E a \in granted, t \in granted \cup {None} : Logout(r, a, t)
       \/ Step(r) \/ CallFails(r)
  \/ \E p \in Players : CacheExpires(p)
  \/ Tick

Spec == Init /\ [][Next]_vars

\* The server goes on with its requests and Redis drops expired keys.  Nobody
\* has to send a request.
FairSpec ==
  /\ Spec
  /\ \A r \in Requests : WF_vars(Step(r))
  /\ \A p \in Players : WF_vars(CacheExpires(p))

-----------------------------------------------------------------------------
\* At most one login or registration of a player is told that the player is
\* new, however many first logins find no document.
NewOnce ==
  \A r, s \in told : Player(r) = Player(s) => r = s

\* A client whose session requests never overlap can refresh with the last
\* tokens it was given, until they expire or it logs out: the key lives as
\* long as the token in it.
ClientHoldsSession ==
  \A p \in Players :
    calm[p] /\ Open(p) = {} /\ inHand[p] # None /\ Verifies(inHand[p], RefreshLife)
      => IsStored(p, inHand[p])

\* After a logout that no other session request of the player overlapped, no
\* refresh gets through before the next login.
LogoutIsFinal ==
  \A p \in Players : loggedOut[p] =>
    /\ session[p] = None
    /\ \A r \in Requests : ~(pc[r] = "store" /\ Op(r) = "refresh" /\ Player(r) = p)

\* A refresh token is alive while it is stored, on its way to be stored, or
\* could be signed once more in the second it carries.
Alive(t) ==
  \/ IsStored(t.player, t)
  \/ \E r \in Requests : pc[r] = "store" /\ token[r] = t
  \/ now = t.iat

\* A refresh token that was replaced, expired or logged out never comes back,
\* whatever logins, refreshes and logouts overlap.
RevokedStaysRevoked == [][\A t \in granted : ~Alive(t) => ~Alive(t)']_vars

\* A cached profile that disagrees with the document, be it after a login, a
\* logout or a read that an update overtook, does not disagree for ever.
Stale(p) == profile[p] # None /\ profile[p] # status[p]
StaleEnds == \A p \in Players : Stale(p) ~> ~Stale(p)
=============================================================================
