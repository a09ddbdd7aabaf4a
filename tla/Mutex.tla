------------------------------- MODULE Mutex -------------------------------
(***************************************************************************)
(* What the process expects of utils/lock.ts: among the calls that share   *)
(* RELAYER_TX_LOCK_KEY one at a time is inside.  A caller is one           *)
(* invocation of withLock: it may find the lock free and go straight in,   *)
(* or wait, and it is inside from the moment its fn starts until that fn   *)
(* settles.                                                                *)
(***************************************************************************)
CONSTANT Caller

VARIABLE phase      \* phase[c]: where the call c is

Phase == {"idle", "waiting", "inside", "left"}

TypeOK == phase \in [Caller -> Phase]

Inside == {c \in Caller : phase[c] = "inside"}

Init == phase = [c \in Caller |-> "idle"]

\* The call finds the lock taken.
Wait(c) ==
    /\ phase[c] = "idle"
    /\ phase' = [phase EXCEPT ![c] = "waiting"]

\* The call takes the lock and starts its fn.
Enter(c) ==
    /\ phase[c] \in {"idle", "waiting"}
    /\ Inside = {}
    /\ phase' = [phase EXCEPT ![c] = "inside"]

\* fn resolved or rejected: the lock is free again.
Leave(c) ==
    /\ phase[c] = "inside"
    /\ phase' = [phase EXCEPT ![c] = "left"]

Next == \E c \in Caller : Wait(c) \/ Enter(c) \/ Leave(c)

Spec == Init /\ [][Next]_phase

\* No two calls run their fn at once: the promise of lock.ts to the faucet
\* and the purchase path ("each holder runs to completion before the next
\* acquires the lock").
MutualExclusion == \A c, d \in Inside : c = d
============================================================================
