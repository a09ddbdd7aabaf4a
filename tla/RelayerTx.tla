------------------------------ MODULE RelayerTx ------------------------------
(***************************************************************************)
(* The relayer wallet: how purchaseViaRelayer (services/policies.ts) and   *)
(* the faucet claim (routes/faucet.ts) sign, broadcast and confirm their   *)
(* transactions under RELAYER_TX_LOCK_KEY.                                 *)
(*                                                                         *)
(* One private key, two signers (utils/ethers.ts).  The faucet sends       *)
(* through the bare Wallet, which asks the node for the pending nonce each *)
(* time.  Purchases go through a NonceManager, which asks once per process *)
(* and then counts its own sends, failed ones included.                    *)
(***************************************************************************)
EXTENDS Integers, Sequences, FiniteSets

CONSTANTS
    Purchase,   \* calls of purchaseViaRelayer (policies and sandbox routes)
    Claim,      \* faucet claims
    Unread,     \* the NonceManager has not asked the node for its nonce yet
    Unreadable, \* it has, and the node did not answer
    MaxAdmits,  \* bound on the purchases CoverRouter would still accept
    MaxFaults,  \* bound on the RPC errors and lost answers of a behaviour
    MaxCrashes  \* bound on the restarts of the process

ASSUME RelayerTxAssumption ==
    /\ Purchase \cap Claim = {}
    /\ Unread \notin Nat /\ Unreadable \notin Nat /\ Unread # Unreadable
    /\ MaxAdmits \in Nat /\ MaxFaults \in Nat /\ MaxCrashes \in Nat

Request == Purchase \cup Claim

VARIABLES
    pc,         \* pc[r]: where the request is
    leg,        \* leg[r]: its current transaction (a claim mints, then sends ETH)
    nonce,      \* nonce[r]: the nonce of that transaction, once taken
    base, delta,\* the NonceManager: the nonce read from the node, sends since
    pool,       \* the node's pending transactions of the relayer
    chain,      \* the mined ones, in order: chain[n + 1] has nonce n
    admits,     \* how many more purchases CoverRouter would accept: the buyer's
                \* balance and allowance, the pause flags, the product's state
    burned,     \* history: free nonces taken by sends that never reached the pool
    faults, crashes

client == <<pc, leg, nonce>>
signer == <<base, delta, burned>>
network == <<pool, chain, admits>>
bounds == <<faults, crashes>>
vars == <<client, signer, network, bounds>>

Holding == {"sending", "signed", "confirming"}
Final == {"ok", "failed", "lost"}
Location == {"new", "waiting"} \cup Holding \cup Final

LastLeg(r) == IF r \in Purchase THEN 1 ELSE 2

LockPhase ==
    [r \in Request |-> CASE pc[r] = "new" -> "idle"
                         [] pc[r] = "waiting" -> "waiting"
                         [] pc[r] \in Holding -> "inside"
                         [] pc[r] \in Final -> "left"]

Lock == INSTANCE Mutex WITH Caller <- Request, phase <- LockPhase

Init ==
    /\ pc = [r \in Request |-> "new"]
    /\ leg = [r \in Request |-> 1]
    /\ nonce = [r \in Request |-> 0]
    /\ base = Unread /\ delta = 0 /\ burned = {}
    /\ pool = {} /\ chain = <<>>
    /\ admits \in 0..MaxAdmits
    /\ faults = 0 /\ crashes = 0

-----------------------------------------------------------------------------
(* The node *)

PoolNonces == {t.nonce : t \in pool}
Occupied == (0..Len(chain) - 1) \cup PoolNonces

\* What the node answers to eth_getTransactionCount(relayer, "pending").
IsPendingNonce(n) == n \notin Occupied /\ \A m \in 0..n-1 : m \in Occupied

\* The next transaction in nonce order is executed.  CoverRouter checks a
\* purchase again, and a claim's own transactions may revert as well.
Mine ==
    \E t \in pool, success \in BOOLEAN :
        /\ t.nonce = Len(chain)
        /\ t.req \in Purchase => success = (admits > 0)
        /\ pool' = pool \ {t}
        /\ chain' = Append(chain, [req |-> t.req, leg |-> t.leg, success |-> success])
        /\ admits' = IF t.req \in Purchase /\ success THEN admits - 1 ELSE admits
        /\ UNCHANGED <<client, signer, bounds>>

\* The router is paused or resumed, a product opened or closed, an allowance
\* given or revoked, money spent elsewhere or received.
AdmissionChanges ==
    /\ \E n \in 0..MaxAdmits \ {admits} : admits' = n
    /\ UNCHANGED <<client, signer, pool, chain, bounds>>

-----------------------------------------------------------------------------
(* The process *)

Goto(r, l) == pc' = [pc EXCEPT ![r] = l]

\* A purchase makes its read-only checks outside the lock and queues for it; a
\* claim queues at once.
Arrive(r) ==
    /\ pc[r] = "new"
    /\ Goto(r, IF r \in Purchase /\ admits = 0 THEN "failed" ELSE "waiting")
    /\ UNCHANGED <<leg, nonce, signer, network, bounds>>

Acquire(r) ==
    /\ pc[r] = "waiting"
    /\ Lock!Inside = {}
    /\ Goto(r, "sending")
    /\ UNCHANGED <<leg, nonce, signer, network, bounds>>

\* NonceManager.sendTransaction counts the send before anything else.
ManagedNonce(r, first) ==
    /\ r \in Purchase
    /\ base' = first
    /\ nonce' = [nonce EXCEPT ![r] = first + delta]
    /\ delta' = delta + 1

BareNonce(r, pending) ==
    /\ r \in Claim
    /\ nonce' = [nonce EXCEPT ![r] = pending]
    /\ UNCHANGED <<base, delta>>

TakeNonce(r) ==
    /\ pc[r] = "sending"
    /\ \/ base \in Nat /\ ManagedNonce(r, base)
       \/ \E n \in Len(chain)..(Len(chain) + Cardinality(pool)) :
             /\ IsPendingNonce(n)
             /\ \/ base = Unread /\ ManagedNonce(r, n)
                \/ BareNonce(r, n)
    /\ Goto(r, "signed")
    /\ UNCHANGED <<leg, burned, network, bounds>>

\* The node does not answer.  The NonceManager keeps the rejected promise.
NonceReadFails(r) ==
    /\ faults < MaxFaults
    /\ faults' = faults + 1
    /\ pc[r] = "sending"
    /\ \/ r \in Purchase /\ base = Unread /\ base' = Unreadable /\ delta' = delta + 1
       \/ r \in Claim /\ UNCHANGED <<base, delta>>
    /\ Goto(r, "failed")
    /\ UNCHANGED <<leg, nonce, burned, network, crashes>>

\* Every later purchase of this process meets the same rejection.
NonceUnreadable(r) ==
    /\ pc[r] = "sending"
    /\ r \in Purchase /\ base = Unreadable
    /\ delta' = delta + 1
    /\ Goto(r, "failed")
    /\ UNCHANGED <<leg, nonce, base, burned, network, bounds>>

\* The send ends before the node has the transaction.  A nonce the
\* NonceManager gave out is not given back.
Unsent(r) ==
    /\ Goto(r, "failed")
    /\ burned' = IF r \in Purchase THEN burned \cup ({nonce[r]} \ Occupied) ELSE burned
    /\ UNCHANGED <<leg, nonce, base, delta, network>>

\* Gas estimation runs the purchase, and the router refuses it: 400.
EstimateReverts(r) ==
    /\ pc[r] = "signed"
    /\ r \in Purchase /\ admits = 0
    /\ Unsent(r)
    /\ UNCHANGED bounds

Estimated(r) == pc[r] = "signed" /\ (r \in Purchase => admits > 0)

\* The node refuses a nonce that is mined (nonce too low) or pending
\* (replacement underpriced).
Rejected(r) ==
    /\ Estimated(r)
    /\ nonce[r] \in Occupied
    /\ Unsent(r)
    /\ UNCHANGED bounds

\* The node takes the transaction, in the place of one with the same nonce if
\* fees rose enough since.
Pend(r) ==
    pool' = {t \in pool : t.nonce # nonce[r]}
              \cup {[req |-> r, leg |-> leg[r], nonce |-> nonce[r]]}

Accepted(r) ==
    /\ Estimated(r)
    /\ nonce[r] >= Len(chain)
    /\ Pend(r)
    /\ Goto(r, "confirming")
    /\ UNCHANGED <<leg, nonce, signer, chain, admits, bounds>>

\* Mutant: a send whose answer was lost is tried again.
ResendAfterLostAnswer(r) ==
    /\ faults < MaxFaults
    /\ faults' = faults + 1
    /\ Estimated(r)
    /\ nonce[r] >= Len(chain)
    /\ Pend(r)
    /\ Goto(r, "sending")
    /\ UNCHANGED <<leg, nonce, signer, chain, admits, crashes>>

\* The node takes the transaction and its answer is lost.
AnswerLost(r) ==
    /\ faults < MaxFaults
    /\ faults' = faults + 1
    /\ Estimated(r)
    /\ nonce[r] >= Len(chain)
    /\ Pend(r)
    /\ Goto(r, "failed")
    /\ UNCHANGED <<leg, nonce, signer, chain, admits, crashes>>

\* The RPC fails before the node has the transaction.
RpcError(r) ==
    /\ faults < MaxFaults
    /\ faults' = faults + 1
    /\ pc[r] = "signed"
    /\ Unsent(r)
    /\ UNCHANGED crashes

Mined(r) == {b \in {chain[i] : i \in DOMAIN chain} : b.req = r /\ b.leg = leg[r]}

\* Mutant: a receipt is a receipt, whatever its status.
ConfirmAnyStatus(r) ==
    /\ pc[r] = "confirming"
    /\ Mined(r) # {}
    /\ IF leg[r] = LastLeg(r)
       THEN Goto(r, "ok") /\ UNCHANGED leg
       ELSE Goto(r, "sending") /\ leg' = [leg EXCEPT ![r] = 2]
    /\ UNCHANGED <<nonce, signer, network, bounds>>

\* Mutant: only a success ends the wait.
ConfirmSuccessOnly(r) ==
    /\ pc[r] = "confirming"
    /\ \E b \in Mined(r) :
          /\ b.success
          /\ IF leg[r] = LastLeg(r) THEN Goto(r, "ok") /\ UNCHANGED leg
             ELSE Goto(r, "sending") /\ leg' = [leg EXCEPT ![r] = 2]
    /\ UNCHANGED <<nonce, signer, network, bounds>>

\* wait() returns once the transaction is mined, and throws if it reverted.
\* wait() has no timeout.
Confirm(r) ==
    /\ pc[r] = "confirming"
    /\ \E b \in Mined(r) :
          IF ~b.success THEN Goto(r, "failed") /\ UNCHANGED leg
          ELSE IF leg[r] = LastLeg(r) THEN Goto(r, "ok") /\ UNCHANGED leg
          ELSE Goto(r, "sending") /\ leg' = [leg EXCEPT ![r] = 2]
    /\ UNCHANGED <<nonce, signer, network, bounds>>

\* wait() rejects on an RPC error and leaves the transaction pending.
WaitFails(r) ==
    /\ faults < MaxFaults
    /\ faults' = faults + 1
    /\ pc[r] = "confirming"
    /\ Goto(r, "failed")
    /\ UNCHANGED <<leg, nonce, signer, network, crashes>>

\* Mutant: the NonceManager's count outlives the nonce it counts from.
CrashKeepsDelta ==
    /\ crashes < MaxCrashes
    /\ crashes' = crashes + 1
    /\ pc' = [r \in Request |-> IF pc[r] \in {"waiting"} \cup Holding THEN "lost" ELSE pc[r]]
    /\ base' = Unread
    /\ UNCHANGED <<leg, nonce, delta, burned, network, faults>>

\* The process dies and starts again: the lock, the requests in flight and the
\* NonceManager are gone, the node has what it was given.
Crash ==
    /\ crashes < MaxCrashes
    /\ crashes' = crashes + 1
    /\ pc' = [r \in Request |-> IF pc[r] \in {"waiting"} \cup Holding THEN "lost" ELSE pc[r]]
    /\ base' = Unread /\ delta' = 0
    /\ UNCHANGED <<leg, nonce, burned, network, faults>>

Broadcast(r) == EstimateReverts(r) \/ Rejected(r) \/ Accepted(r)
Fault(r) == NonceReadFails(r) \/ AnswerLost(r) \/ RpcError(r) \/ WaitFails(r)

Send(r) == TakeNonce(r) \/ NonceUnreadable(r)

Step(r) == Acquire(r) \/ Send(r) \/ Broadcast(r) \/ Confirm(r)

Next ==
    \/ Mine \/ AdmissionChanges \/ Crash
    \/ \E r \in Request : Arrive(r) \/ Step(r) \/ Fault(r)

Spec == Init /\ [][Next]_vars

\* The process goes on as long as it can, and the chain includes an executable
\* transaction in the end.
Fairness ==
    /\ WF_vars(Mine)
    /\ WF_vars(\E r \in Request : Acquire(r))
    /\ \A r \in Request : WF_vars(Send(r)) /\ WF_vars(Broadcast(r)) /\ WF_vars(Confirm(r))

FairSpec == Spec /\ Fairness

-----------------------------------------------------------------------------
(* Properties *)

Tx == [req : Request, leg : 1..2, nonce : Nat]
Block == [req : Request, leg : 1..2, success : BOOLEAN]

TypeOK ==
    /\ pc \in [Request -> Location]
    /\ leg \in [Request -> 1..2]
    /\ nonce \in [Request -> Nat]
    /\ base \in Nat \cup {Unread, Unreadable} /\ delta \in Nat
    /\ pool \subseteq Tx /\ IsFiniteSet(pool)
    /\ chain \in Seq(Block)
    /\ admits \in 0..MaxAdmits
    /\ burned \subseteq Nat
    /\ faults \in 0..MaxFaults /\ crashes \in 0..MaxCrashes

\* The purchase path and the faucet are never between signing and confirming
\* at the same time: the reason RELAYER_TX_LOCK_KEY is shared (lock.ts).
WindowExclusive == Lock!MutualExclusion

\* n has no free nonce below it but those burned.
Reachable(n) == \A m \in 0..n-1 : m \in Occupied \cup burned

\* A pending transaction waits only for mined or pending ones, or for a nonce
\* burned by a purchase that failed before its broadcast: the shared lock and
\* the two views of the nonce leave no other way to a gap.
GapsAreBurned == \A t \in pool : Reachable(t.nonce)

\* The two views of the nonce agree as far as they must: a nonce about to be
\* used is reachable, and the NonceManager has counted no free nonce but the
\* one about to be used and the burned.
SignedIsReachable == \A r \in Request : pc[r] = "signed" => Reachable(nonce[r])

SignedPurchase == {nonce[r] : r \in {p \in Purchase : pc[p] = "signed"}}

ManagerIsBehind ==
    /\ base = Unread => delta = 0
    /\ base \in Nat =>
          \A m \in 0..base+delta-1 : m \in Occupied \cup burned \cup SignedPurchase

\* The inductive invariant behind WindowExclusive and GapsAreBurned.
NonceInv == TypeOK /\ WindowExclusive /\ GapsAreBurned /\ SignedIsReachable /\ ManagerIsBehind

\* A claim sends ETH only after its own mint succeeded (routes/faucet.ts: "If
\* mint fails, ETH never goes out").
EthAfterMint ==
    \A t \in pool \cup {chain[i] : i \in DOMAIN chain} :
        t.req \in Claim /\ t.leg = 2 =>
            \E i \in DOMAIN chain : chain[i] = [req |-> t.req, leg |-> 1, success |-> TRUE]

\* What the routes see of a request.
Effects ==
    [r \in Request |->
        Cardinality({i \in DOMAIN chain :
            chain[i] = [req |-> r, leg |-> LastLeg(r), success |-> TRUE]})]

AnswerOf ==
    [r \in Request |-> IF pc[r] \in Final THEN pc[r] ELSE "none"]

Service == INSTANCE RelayService WITH effects <- Effects, answer <- AnswerOf

\* No request takes effect twice, none is answered ok without its effect, and
\* no answer changes, whatever crashes, RPC errors and replacements happen.
ImplementsRelayService == Service!Spec

\* As long as no nonce is burned every request that queues is answered.
AnsweredUnlessBurned ==
    [](burned = {}) =>
        \A r \in Request : pc[r] = "waiting" ~> pc[r] \in Final

\* Each holder of the lock runs to completion (lock.ts:18), so each caller that
\* waits gets its turn: what the code does not provide, see the README.
EveryRequestAnswered ==
    \A r \in Request : pc[r] = "waiting" ~> pc[r] \in Final
==============================================================================
