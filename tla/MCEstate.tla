------------------------------ MODULE MCEstate ------------------------------
(***************************************************************************)
(* Estate for TLC: one estate, requests spread over two processes that can *)
(* crash one by one, and lock values that all coincide.                    *)
(***************************************************************************)
EXTENDS Estate

CONSTANTS r1, s1, s2

TwoServers == [r \in Requests |-> IF r = r1 THEN s1 ELSE s2]

\* All requests read the clock in the same millisecond.
SameStamp == [r \in Requests |-> 1]
==============================================================================
