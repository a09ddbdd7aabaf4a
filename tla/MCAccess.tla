------------------------------- MODULE MCAccess -------------------------------
(***************************************************************************)
(* One wallet spelled in two ways and a second one, from one IP.  The      *)
(* limiters have the proportions of the configuration: the public one      *)
(* allows twice what the one in front of the keys does.                    *)
(*                                                                         *)
(* The sandbox and the rest share the clock and the restarts and nothing   *)
(* else: SandboxApart keeps to the behaviours in which one of them moves.  *)
(***************************************************************************)
EXTENDS Access, TLC

CONSTANTS w1, W1, w2

MCLower == w1 :> w1 @@ W1 :> w1 @@ w2 :> w2
MCRpm == [a \in Address |-> 1]
MCMaximum == [l \in Limiter |-> IF l = "public" THEN 4 ELSE IF l = "authIp" THEN 2 ELSE 1]
MCWindow == [l \in Limiter |-> IF l \in {"onboard", "sandbox"} THEN 3 ELSE 2]

SandboxAtRest ==
    /\ \A i \in Ip : ipWindow[i]["sandbox"] = Closed
    /\ \A i \in Ip : tries[i] = <<>>

OthersAtRest ==
    /\ \A i \in Ip, l \in Limiter \ {"sandbox"} : ipWindow[i][l] = Closed
    /\ agents = {} /\ \A i \in Ip : lookups[i] = <<>>

SandboxApart == SandboxAtRest \/ OthersAtRest
==============================================================================
