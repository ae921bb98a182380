------------------------------ MODULE MCMarket ------------------------------
(***************************************************************************)
(* Market for TLC: one trade (locks and documents of two trades do not     *)
(* touch each other), a seller and two buyers who may also list, cancel    *)
(* and buy in each other's name, two clock values so that two requests may *)
(* carry the same lock value, and a bounded number of requests.            *)
(***************************************************************************)
EXTENDS Market, TLC

\* Requests and players are interchangeable in the runs without liveness.
RequestSymmetry == Permutations(Requests)
=============================================================================
