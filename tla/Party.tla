------------------------------- MODULE Party -------------------------------
(***************************************************************************)
(* Parties, src/modules/battle/battle.service.ts: one Redis value each,    *)
(* read, changed and written back by joinParty and leaveParty, without a   *)
(* lock and without a condition.  The Map beside it is written only.       *)
(***************************************************************************)
EXTENDS Integers, Sequences, SequencesExt, Lists

CONSTANTS
  Players, Requests,
  PartyIds,            \* what generateId returns
  maxPartySize,
  Nothing              \* a missing key, an idle request

PartyAssumption == maxPartySize \in Nat \ {0}

VARIABLES
  party,               \* party:<id>, [leader, members], or Nothing
  partyCache,          \* the Map: the ids of all parties ever made
  call                 \* each request: [op, player, keys, id, value]

Parties == [leader : Players, members : Seq(Players)]

PartyTypeOK ==
  /\ \A id \in PartyIds : party[id] \in Parties \cup {Nothing}
  /\ partyCache \subseteq PartyIds /\ \A id \in PartyIds \ partyCache : party[id] = Nothing
  /\ \A r \in Requests : call[r] # Nothing =>
       /\ call[r].op \in {"create", "join", "leave"} /\ call[r].player \in Players
       /\ call[r].keys \subseteq PartyIds /\ call[r].id \in PartyIds \cup {Nothing}
       /\ call[r].value \in Parties \cup {Nothing}

PartyInit ==
  /\ party = [id \in PartyIds |-> Nothing]
  /\ partyCache = {}
  /\ call = [r \in Requests |-> Nothing]

-----------------------------------------------------------------------------
Begin(r, c) == call[r] = Nothing /\ call' = [call EXCEPT ![r] = c]
Ends(r) == call' = [call EXCEPT ![r] = Nothing]
Writing(op, p, id, value) ==
  [op |-> op, player |-> p, keys |-> {}, id |-> id, value |-> value]

CreateParty(r, p, id) ==
  /\ id \notin partyCache
  /\ partyCache' = partyCache \cup {id}
  /\ Begin(r, Writing("create", p, id, [leader |-> p, members |-> <<p>>]))
  /\ UNCHANGED party

HasRoomLate(v) == Len(v.members) <= maxPartySize
HasRoom(v) == Len(v.members) < maxPartySize
Includes(v, p) == Contains(v.members, p)

JoinGet(r, p, id) ==
  /\ party[id] # Nothing /\ HasRoom(party[id]) /\ ~Includes(party[id], p)
  /\ Begin(r, Writing("join", p, id, [party[id] EXCEPT !.members = Append(@, p)]))
  /\ UNCHANGED <<party, partyCache>>

\* leaveParty lists the keys and looks at one after the other, in an order
\* that Redis chooses, until it finds the player.
LeaveKeys(r, p) ==
  /\ Begin(r, [Writing("leave", p, Nothing, Nothing) EXCEPT
                 !.keys = {id \in PartyIds : party[id] # Nothing}])
  /\ UNCHANGED <<party, partyCache>>

\* The party without a player; Nothing when nobody is left.
Without(v, p) ==
  LET rest == Filtered(v.members, p)
  IN IF rest = <<>> THEN Nothing
     ELSE [leader |-> IF v.leader = p THEN rest[1] ELSE v.leader, members |-> rest]

LeaveGet(r) ==
  LET c == call[r] IN
  /\ c # Nothing
  /\ \E id \in c.keys :
       call' = [call EXCEPT ![r] =
         IF party[id] # Nothing /\ Includes(party[id], c.player)
         THEN Writing("leave", c.player, id, Without(party[id], c.player))
         ELSE [c EXCEPT !.keys = @ \ {id}]]
  /\ UNCHANGED <<party, partyCache>>

\* The player was in none of the keys.
LeaveNothing(r) ==
  /\ call[r] # Nothing /\ call[r].keys = {} /\ call[r].id = Nothing
  /\ Ends(r) /\ UNCHANGED <<party, partyCache>>

\* SETEX or DEL.  It may fail, or be done and its reply lost.
PartyWrite(r) ==
  /\ call[r] # Nothing /\ call[r].id # Nothing
  /\ party' \in {party, [party EXCEPT ![call[r].id] = call[r].value]}
  /\ Ends(r) /\ UNCHANGED partyCache

\* A party lives ten minutes from its last write.
PartyExpires(id) ==
  /\ party[id] # Nothing
  /\ party' = [party EXCEPT ![id] = Nothing]
  /\ UNCHANGED <<partyCache, call>>

PartyNext ==
  \/ \E r \in Requests :
       \/ \E p \in Players :
            LeaveKeys(r, p) \/ \E id \in PartyIds : CreateParty(r, p, id) \/ JoinGet(r, p, id)
       \/ LeaveGet(r) \/ LeaveNothing(r) \/ PartyWrite(r)
  \/ \E id \in PartyIds : PartyExpires(id)

PartySpec == PartyInit /\ [][PartyNext]_<<party, partyCache, call>>

-----------------------------------------------------------------------------
\* A stored party has one to maxPartySize members, each once, and its leader
\* among them, however joins and departures overlap, fail or outlive the key.
\* (Overlapping ones do lose members, and bring a deleted party back.)
WellFormed(v) ==
  /\ Len(v.members) \in 1..maxPartySize
  /\ IsInjective(v.members)
  /\ Includes(v, v.leader)

PartyWellFormed == \A id \in PartyIds : party[id] # Nothing => WellFormed(party[id])
=============================================================================
