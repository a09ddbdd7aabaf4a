------------------------------- MODULE Faucet -------------------------------
(***************************************************************************)
(* POST /api/v1/faucet/claim (routes/faucet.ts) and the table              *)
(* faucet_claims (utils/faucetDb.ts).  The whole claim runs inside the     *)
(* shared lock: the limits are checked, mUSDC is minted, ETH is sent, and  *)
(* only then is the claim recorded, at the time of recording.              *)
(*                                                                         *)
(* Time is in ticks; Window is the 24 hours of the limits.                 *)
(***************************************************************************)
EXTENDS Integers, FiniteSets

CONSTANTS
    Claim,      \* the requests
    Wallet, Ip,
    Window,     \* RATE_LIMIT_WINDOW_S
    Cap,        \* DAILY_CAP
    PerClaim,   \* ETH_PER_CLAIM_WEI
    Buffer,     \* ETH_GAS_BUFFER_WEI
    MaxEth,     \* bound on the relayer's balance
    MaxTime,    \* bound on the clock
    MaxFaults,  \* bound on failed or unconfirmed transactions
    MaxCrashes  \* bound on restarts

ASSUME FaucetAssumption ==
    /\ Window \in Nat /\ Cap \in Nat \ {0}
    /\ PerClaim \in Nat /\ Buffer \in Nat /\ MaxEth \in Nat /\ MaxTime \in Nat
    /\ MaxFaults \in Nat /\ MaxCrashes \in Nat

VARIABLES
    wallet, ip, \* wallet[c], ip[c]: what the request carries; never change
    pc,         \* pc[c]: where the request is
    claims,     \* table faucet_claims: [req, at]
    eth,        \* the relayer's balance
    minted,     \* chain: the claims whose mint took effect
    paid,       \* chain: [req, at] for each ETH payment
    now,        \* the clock
    faults, crashes

carried == <<wallet, ip>>
bounds == <<faults, crashes>>
vars == <<carried, pc, claims, eth, minted, paid, now, bounds>>

Holding == {"checked", "minting", "paying"}
Final == {"ok", "error", "lost"}
Location == {"new", "waiting"} \cup Holding \cup Final

LockPhase ==
    [c \in Claim |-> CASE pc[c] = "new" -> "idle"
                       [] pc[c] = "waiting" -> "waiting"
                       [] pc[c] \in Holding -> "inside"
                       [] pc[c] \in Final -> "left"]

Lock == INSTANCE Mutex WITH Caller <- Claim, phase <- LockPhase

Init ==
    /\ wallet \in [Claim -> Wallet] /\ ip \in [Claim -> Ip]
    /\ pc = [c \in Claim |-> "new"]
    /\ claims = {} /\ minted = {} /\ paid = {}
    /\ eth \in 0..MaxEth
    /\ now = 0 /\ faults = 0 /\ crashes = 0

Goto(c, l) == pc' = [pc EXCEPT ![c] = l]

Tick ==
    /\ now < MaxTime
    /\ now' = now + 1
    /\ UNCHANGED <<carried, pc, claims, eth, minted, paid, bounds>>

\* Gas is spent, by these transactions or by purchases, or the team tops the
\* relayer up.
BalanceChanges ==
    /\ eth' \in {eth - 1, MaxEth} \cap (0..MaxEth \ {eth})
    /\ UNCHANGED <<carried, pc, claims, minted, paid, now, bounds>>

Arrive(c) ==
    /\ pc[c] = "new"
    /\ Goto(c, "waiting")
    /\ UNCHANGED <<carried, claims, eth, minted, paid, now, bounds>>

-----------------------------------------------------------------------------
(* The limits, read and tested between two awaits *)

\* Mutant: the row at the boundary is not counted.
countClaimsExclusive == Cardinality({row \in claims : row.at > now - Window})

countClaimsLast24h == Cardinality({row \in claims : row.at >= now - Window})

\* Mutant: the cooldown ends a tick early.
WithinCooldownShort(row) == row.at + Window > now + 1

WithinCooldown(row) == row.at + Window > now

RateLimited(c) ==
    \/ countClaimsLast24h >= Cap
    \/ \E row \in claims :
          /\ WithinCooldown(row)
          /\ wallet[row.req] = wallet[c] \/ ip[row.req] = ip[c]

\* Mutant: the limits are checked before the lock is held.
CheckUnlocked(c) ==
    /\ pc[c] = "waiting"
    /\ Goto(c, IF RateLimited(c) THEN "error" ELSE "checked")
    /\ UNCHANGED <<carried, claims, eth, minted, paid, now, bounds>>

\* The claim gets the lock and passes its limits, or is refused (503, 429).
Check(c) ==
    /\ pc[c] = "waiting"
    /\ Lock!Inside = {}
    /\ Goto(c, IF RateLimited(c) THEN "error" ELSE "checked")
    /\ UNCHANGED <<carried, claims, eth, minted, paid, now, bounds>>

-----------------------------------------------------------------------------
(* The two transactions *)

\* getBalance answers: 503 when low, else the mint is sent.
ReadBalance(c) ==
    /\ pc[c] = "checked"
    /\ Goto(c, IF eth < PerClaim + Buffer THEN "error" ELSE "minting")
    /\ UNCHANGED <<carried, claims, eth, minted, paid, now, bounds>>

\* Mutant: the claim is recorded once its mint is confirmed.
MintedAndRecorded(c) ==
    /\ pc[c] = "minting"
    /\ minted' = minted \cup {c}
    /\ claims' = claims \cup {[req |-> c, at |-> now]}
    /\ Goto(c, "paying")
    /\ UNCHANGED <<carried, eth, paid, now, bounds>>

Minted(c) ==
    /\ pc[c] = "minting"
    /\ minted' = minted \cup {c}
    /\ Goto(c, "paying")
    /\ UNCHANGED <<carried, claims, eth, paid, now, bounds>>

Pay(c) ==
    /\ eth >= PerClaim
    /\ eth' = eth - PerClaim
    /\ paid' = paid \cup {[req |-> c, at |-> now]}

insertClaim(c) == claims' = claims \cup {[req |-> c, at |-> now]}

\* The payment is sent, confirmed and the claim recorded.  Between confirmation and
\* record there is no await; that other claims wait for the lock meanwhile makes
\* one step of it, and what can go wrong in between are steps of their own below.
Paid(c) ==
    /\ pc[c] = "paying"
    /\ Pay(c)
    /\ insertClaim(c)
    /\ Goto(c, "ok")
    /\ UNCHANGED <<carried, minted, now, bounds>>

\* The balance no longer covers the payment: the mint stays done.
PaymentRefused(c) ==
    /\ pc[c] = "paying"
    /\ eth < PerClaim
    /\ Goto(c, "error")
    /\ UNCHANGED <<carried, claims, eth, minted, paid, now, bounds>>

\* What the transaction in flight does although its sender never learns it.
Unconfirmed(c) ==
    \/ UNCHANGED <<minted, paid, eth>>
    \/ pc[c] = "minting" /\ minted' = minted \cup {c} /\ UNCHANGED <<paid, eth>>
    \/ pc[c] = "paying" /\ Pay(c) /\ UNCHANGED minted

\* A mint or payment reverts, wait() fails with it done or not, or insertClaim
\* throws after it.
TxFails(c) ==
    /\ faults < MaxFaults
    /\ faults' = faults + 1
    /\ pc[c] \in {"minting", "paying"}
    /\ Unconfirmed(c)
    /\ Goto(c, "error")
    /\ UNCHANGED <<carried, claims, now, crashes>>

\* The process restarts; at most the lock's holder has a transaction in flight.
Crash ==
    /\ crashes < MaxCrashes
    /\ crashes' = crashes + 1
    /\ \/ \E c \in Lock!Inside : Unconfirmed(c)
       \/ Lock!Inside = {} /\ UNCHANGED <<minted, paid, eth>>
    /\ pc' = [c \in Claim |-> IF pc[c] \in {"new"} \cup Final THEN pc[c] ELSE "lost"]
    /\ UNCHANGED <<carried, claims, now, faults>>

Next ==
    \/ Tick \/ BalanceChanges \/ Crash
    \/ \E c \in Claim :
          \/ Arrive(c) \/ Check(c) \/ ReadBalance(c)
          \/ Minted(c) \/ Paid(c) \/ PaymentRefused(c) \/ TxFails(c)

Spec == Init /\ [][Next]_vars

-----------------------------------------------------------------------------
(* Properties *)

Event == [req : Claim, at : 0..MaxTime]

TypeOK ==
    /\ wallet \in [Claim -> Wallet] /\ ip \in [Claim -> Ip]
    /\ pc \in [Claim -> Location]
    /\ claims \subseteq Event /\ IsFiniteSet(claims)
    /\ paid \subseteq Event
    /\ minted \subseteq Claim
    /\ eth \in 0..MaxEth
    /\ now \in 0..MaxTime
    /\ faults \in 0..MaxFaults /\ crashes \in 0..MaxCrashes

SameClaimant(c, d) == wallet[c] = wallet[d] \/ ip[c] = ip[d]

\* Between its checks and its record a claim stays clear of every other: its
\* claimants' last rows are out of the window, and the cap has room for it.
HolderIsClear ==
    \A c \in Lock!Inside :
        /\ \A row \in claims : SameClaimant(c, row.req) => row.at + Window <= now
        /\ countClaimsLast24h < Cap
        /\ pc[c] = "paying" => c \in minted

\* The inductive invariant behind the three properties below.
FaucetInv ==
    /\ TypeOK
    /\ Lock!MutualExclusion
    /\ \A row \in claims : row.at <= now
    /\ HolderIsClear

\* One recorded claim per wallet and per IP in 24 hours, for claims that race
\* each other and checks that are minutes older than the row they lead to.
Cooldown ==
    \A x, y \in claims :
        x # y /\ SameClaimant(x.req, y.req) =>
            x.at + Window <= y.at \/ y.at + Window <= x.at

\* No 24 hours, ends included, hold more than DAILY_CAP recorded claims.
DailyCap ==
    \A x \in claims :
        Cardinality({y \in claims : x.at - Window <= y.at /\ y.at <= x.at}) <= Cap

\* A recorded claim has its mint and its ETH, sent at the time of the record; a
\* claim answered with an error leaves no record, so its cooldown is not burned
\* (routes/faucet.ts: "they retry without burning their 24h cooldown").
RecordedIsPaid ==
    /\ \A x \in claims : x \in paid /\ x.req \in minted
    /\ \A x \in claims : pc[x.req] = "ok"
=============================================================================
