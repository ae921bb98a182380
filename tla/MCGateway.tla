----------------------------- MODULE MCGateway -----------------------------
\* Two devices of one player, or of a player and a guest.
EXTENDS Gateway

CONSTANTS c1, c2, p1

OnePlayer == [c \in Clients |-> p1]
=============================================================================
