------------------------------ MODULE EventBus ------------------------------
(***************************************************************************)
(* From a change of a player to the push on a party socket:                *)
(* src/core/event.manager.ts, core/cross-service.event-bus.ts,             *)
(* redis/redis-pubsub.service.ts and the player map of                     *)
(* modules/battle/party.gateway.ts.                                        *)
(*                                                                         *)
(* A change goes out on channels, Redis copies it to the instances that    *)
(* subscribe at that moment, and each copy runs every handler of its       *)
(* channel.  Each handler hands it to one subject, and what listens there  *)
(* is the gateway, which looks up the socket of the player.                *)
(***************************************************************************)
EXTENDS Integers, FiniteSets

CONSTANTS
  Instances, Players, Sockets,
  Changes,             \* the changes there may be
  Subscriptions,       \* the calls of subscribePlayer there may be
  Nobody,
  Gone                 \* where a socket is that has broken off

Kinds == {"attr", "currency", "inventory"}
Channels == {"global"} \cup Players
Change == [kind : Kinds, player : Players, todo : SUBSET Channels]

BusAssumption ==
  /\ Nobody \notin Players \cup Sockets \cup Instances \cup Change
  /\ Gone \notin Instances \cup {Nobody}
  /\ "global" \notin Players      \* the channels have different prefixes
  /\ IsFiniteSet(Subscriptions)

VARIABLES
  commands,            \* SUBSCRIBE commands under way: [to, channel]
  redisSubs,           \* the channels Redis sends each instance
  handlers,            \* handlers of each instance: [channel, id, type]
  change,              \* each change: [kind, player, todo], or Nobody
  copies,              \* copies under way: [change, to, channel]
  sockets,             \* the instance of each socket, Nobody before, Gone after
  bound,               \* client.data.playerId
  playerSocketMap,     \* of each instance
  pushes,              \* how often each change was pushed to each socket
  due                  \* history: the sockets a change is owed to

busVars == <<commands, redisSubs, handlers, change, copies>>
socketVars == <<sockets, bound, playerSocketMap>>

Handlers == [channel : Channels, id : Subscriptions \cup {"bus"}, type : Kinds \cup {"any"}]

BusTypeOK ==
  /\ commands \subseteq [to : Instances, channel : Channels]
  /\ redisSubs \in [Instances -> SUBSET Channels]
  /\ handlers \in [Instances -> SUBSET Handlers]
  /\ change \in [Changes -> Change \cup {Nobody}]
  /\ copies \subseteq [change : Changes, to : Instances, channel : Channels]
  /\ sockets \in [Sockets -> Instances \cup {Nobody, Gone}]
  /\ bound \in [Sockets -> Players \cup {Nobody}]
  /\ playerSocketMap \in [Instances -> [Players -> Sockets \cup {Nobody}]]
  /\ pushes \in [Changes -> [Sockets -> Nat]]
  /\ due \in [Changes -> SUBSET Sockets]

\* The constructor of the bus subscribes to the global channel.
BusInit ==
  /\ commands = [to : Instances, channel : {"global"}]
  /\ redisSubs = [i \in Instances |-> {}]
  /\ handlers = [i \in Instances |-> {[channel |-> "global", id |-> "bus", type |-> "any"]}]
  /\ change = [e \in Changes |-> Nobody] /\ copies = {}
  /\ sockets = [s \in Sockets |-> Nobody] /\ bound = [s \in Sockets |-> Nobody]
  /\ playerSocketMap = [i \in Instances |-> [p \in Players |-> Nobody]]
  /\ pushes = [e \in Changes |-> [s \in Sockets |-> 0]]
  /\ due = [e \in Changes |-> {}]

-----------------------------------------------------------------------------
\* The sockets of the gateway.

Connect(s, i) ==
  /\ sockets[s] = Nobody
  /\ sockets' = [sockets EXCEPT ![s] = i]
  /\ UNCHANGED <<busVars, bound, playerSocketMap, pushes, due>>

MapSocket(i, p, s) == playerSocketMap' = [playerSocketMap EXCEPT ![i][p] = s]

\* bind-player: an entry the socket had under another player stays.
BindPlayer(s, p) ==
  LET i == sockets[s] IN
  /\ i \in Instances
  /\ bound' = [bound EXCEPT ![s] = p]
  /\ MapSocket(i, p, s)
  /\ due' = [e \in Changes |-> IF change[e] = Nobody \/ change[e].player # p THEN due[e]
                               ELSE {o \in due[e] : o = s \/ sockets[o] # i}]
  /\ UNCHANGED <<busVars, sockets, pushes>>

\* It removes the entry of its player, whichever socket that names.
HandleDisconnect(s) ==
  LET i == sockets[s]
      p == bound[s] IN
  /\ i \in Instances
  /\ sockets' = [sockets EXCEPT ![s] = Gone]
  /\ IF p # Nobody THEN MapSocket(i, p, Nobody) ELSE UNCHANGED playerSocketMap
  /\ due' = [e \in Changes |-> {o \in due[e] : o # s /\
               ~(sockets[o] = i /\ change[e] # Nobody /\ change[e].player = p)}]
  /\ UNCHANGED <<busVars, bound, pushes>>

-----------------------------------------------------------------------------
\* redis-pubsub.service.ts.

Subscribe(i, h) ==
  /\ handlers' = [handlers EXCEPT ![i] = @ \cup {h}]
  /\ commands' = IF \E g \in handlers[i] : g.channel = h.channel THEN commands
                 ELSE commands \cup {[to |-> i, channel |-> h.channel]}

\* subscribePlayer; nothing calls the function that would undo it.
SubscribePlayer(i, p, n, type) ==
  /\ \A j \in Instances : \A h \in handlers[j] : h.id # n
  /\ Subscribe(i, [channel |-> p, id |-> n, type |-> type])
  /\ UNCHANGED <<redisSubs, change, copies, socketVars, pushes, due>>

CommandArrives(c) ==
  /\ c \in commands /\ commands' = commands \ {c}
  /\ redisSubs' = [redisSubs EXCEPT ![c.to] = @ \cup {c.channel}]
  /\ UNCHANGED <<handlers, change, copies, socketVars, pushes, due>>

\* A failed SUBSCRIBE is logged; the channel has handlers, so no later
\* subscription sends it again.
CommandFails(c) ==
  /\ c \in commands /\ commands' = commands \ {c}
  /\ UNCHANGED <<redisSubs, handlers, change, copies, socketVars, pushes, due>>

\* The subscriber connection of an instance breaks off: what Redis was sending it
\* is lost, and so is what it publishes until the client, which connects again
\* by itself, has sent its subscriptions anew.
SubscriberLost(i) ==
  /\ redisSubs[i] # {}
  /\ commands' = commands \cup {[to |-> i, channel |-> c] : c \in redisSubs[i]}
  /\ redisSubs' = [redisSubs EXCEPT ![i] = {}]
  /\ copies' = {m \in copies : m.to # i}
  /\ due' = [e \in Changes |-> {o \in due[e] : sockets[o] # i}]
  /\ UNCHANGED <<handlers, change, socketVars, pushes>>

\* notifyPlayerAttrChanged, notifyCurrencyChanged, notifyInventoryChanged, and
\* emit and emitCrossService of the EventManager, which know one channel.
ChannelsOfOne(kind, p) == {p}
ChannelsOf(kind, p) == IF kind = "attr" THEN {"global", p} ELSE {p}

Owed(p) ==
  {s \in Sockets : sockets[s] \in Instances /\ playerSocketMap[sockets[s]][p] = s
                     /\ "global" \in redisSubs[sockets[s]]}

Announce(e, kind, p, channels) ==
  /\ change[e] = Nobody
  /\ change' = [change EXCEPT ![e] = [kind |-> kind, player |-> p, todo |-> channels]]
  /\ due' = [due EXCEPT ![e] = Owed(p)]
  /\ UNCHANGED <<commands, redisSubs, handlers, copies, socketVars, pushes>>

Notify(e, kind, p) == Announce(e, kind, p, ChannelsOf(kind, p))
Emit(e, kind, p) == Announce(e, kind, p, {"global"})

Publish(e, c) ==
  /\ change[e] # Nobody /\ c \in change[e].todo
  /\ change' = [change EXCEPT ![e].todo = @ \ {c}]
  /\ copies' = copies \cup {[change |-> e, to |-> i, channel |-> c] :
                              i \in {i \in Instances : c \in redisSubs[i]}}
  /\ UNCHANGED <<commands, redisSubs, handlers, socketVars, pushes, due>>

\* publish swallows its errors: the caller believes it was sent.
PublishFails(e, c) ==
  /\ change[e] # Nobody /\ c \in change[e].todo
  /\ change' = [change EXCEPT ![e].todo = @ \ {c}]
  /\ due' = [due EXCEPT ![e] = {}]
  /\ UNCHANGED <<commands, redisSubs, handlers, copies, socketVars, pushes>>

\* handleMessage of an instance, every handler of its channel, down to the
\* three subscriptions of the gateway, one for each kind.
Passing(m) ==
  {h \in handlers[m.to] : h.channel = m.channel /\ h.type \in {"any", change[m.change].kind}}

Deliver(m) ==
  LET s == playerSocketMap[m.to][change[m.change].player] IN
  /\ m \in copies /\ copies' = copies \ {m}
  /\ pushes' = IF s = Nobody \/ sockets[s] = Gone THEN pushes
               ELSE [pushes EXCEPT ![m.change][s] = @ + Cardinality(Passing(m))]
  /\ UNCHANGED <<commands, redisSubs, handlers, change, socketVars, due>>

BusNext ==
  \/ \E s \in Sockets :
       \/ \E i \in Instances : Connect(s, i)
       \/ \E p \in Players : BindPlayer(s, p)
       \/ HandleDisconnect(s)
  \/ \E i \in Instances, p \in Players, n \in Subscriptions, t \in Kinds \cup {"any"} :
       SubscribePlayer(i, p, n, t)
  \/ \E i \in Instances : SubscriberLost(i)
  \/ \E c \in commands : CommandArrives(c) \/ CommandFails(c)
  \/ \E e \in Changes :
       \/ \E k \in Kinds, p \in Players : Notify(e, k, p) \/ Emit(e, k, p)
       \/ \E c \in Channels : Publish(e, c) \/ PublishFails(e, c)
  \/ \E m \in copies : Deliver(m)

BusSpec == BusInit /\ [][BusNext]_<<busVars, socketVars, pushes, due>>

-----------------------------------------------------------------------------
Settled(e) ==
  change[e] # Nobody /\ change[e].todo = {} /\ ~\E m \in copies : m.change = e
Reaches(kind) ==
  \A e \in Changes : Settled(e) /\ change[e].kind = kind =>
    \A s \in due[e] : pushes[e][s] >= 1

\* When all copies have been dealt with, a change of attributes has reached the
\* socket that its player had bound, on every instance that received the global
\* channel, unless publishing failed, or the subscriber connection of the instance
\* broke off or a socket of the player came or went meanwhile; and the copies it arrived in are one and those of the handlers of
\* the player's own channel, no more.
AttrReaches ==
  /\ Reaches("attr")
  /\ \A e \in Changes, s \in Sockets : pushes[e][s] <= 1 + Cardinality(Subscriptions)

\* The same for a change of currency.
CurrencyReaches == Reaches("currency")
=============================================================================
