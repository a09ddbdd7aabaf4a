---------------------------- MODULE RelayService ----------------------------
(***************************************************************************)
(* What a route may rely on when it hands a request to the relayer wallet: *)
(* the request's transactions take effect at most once, a success is       *)
(* answered only when they have, and the answer is final.  A failure says  *)
(* nothing: the transactions may have taken effect, or may still.          *)
(***************************************************************************)
EXTENDS Naturals

CONSTANT Request

VARIABLES
    effects,    \* effects[r]: how many times the request took effect on chain
    answer      \* answer[r]: "none", "ok", "failed", or "lost" with the process

svars == <<effects, answer>>

Answer == {"none", "ok", "failed", "lost"}

Init ==
    /\ effects = [r \in Request |-> 0]
    /\ answer = [r \in Request |-> "none"]

\* The chain executes the request, whatever its sender believes by then.
Execute(r) ==
    /\ effects[r] = 0
    /\ effects' = [effects EXCEPT ![r] = 1]
    /\ UNCHANGED answer

Succeed(r) ==
    /\ answer[r] = "none"
    /\ effects[r] = 1
    /\ answer' = [answer EXCEPT ![r] = "ok"]
    /\ UNCHANGED effects

Fail(r) ==
    /\ answer[r] = "none"
    /\ answer' = [answer EXCEPT ![r] = "failed"]
    /\ UNCHANGED effects

\* The process dies with the requests in flight.
Lose(S) ==
    /\ \A r \in S : answer[r] = "none"
    /\ answer' = [r \in Request |-> IF r \in S THEN "lost" ELSE answer[r]]
    /\ UNCHANGED effects

Next ==
    \/ \E r \in Request : Execute(r) \/ Succeed(r) \/ Fail(r)
    \/ \E S \in SUBSET Request : Lose(S)

Spec == Init /\ [][Next]_svars
=============================================================================
