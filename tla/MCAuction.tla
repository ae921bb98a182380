------------------------------ MODULE MCAuction ------------------------------
(***************************************************************************)
(* Auction for TLC: a seller and two more players, three bids of up to     *)
(* three amounts, and the two ways to serve them.                          *)
(***************************************************************************)
EXTENDS Auction, TLC, FiniteSets

\* Each bid is served by a process, and so a connection, of its own.
OwnServer == [r \in Requests |-> r]

\* One process serves all bids over its single Redis client.
OneServer == [r \in Requests |-> "server"]

Symmetry == Permutations(Requests) \cup Permutations(Players)
==============================================================================
