--------------------------- MODULE MCPurchaseRoute ---------------------------
(***************************************************************************)
(* Four requests, so that two purchases of one key can overlap and two     *)
(* replays can see their outcome; the carried keys and agents range over   *)
(* all assignments, up to a permutation of requests and of agents.         *)
(***************************************************************************)
EXTENDS PurchaseRoute, TLC

Symmetry == Permutations(Request) \cup Permutations(Agent)
==============================================================================
