---------------------------- MODULE Faucet_proofs ----------------------------
(***************************************************************************)
(* The faucet's limits, for any number of claims, wallets and addresses,   *)
(* any window and cap, and any failures and restarts: FaucetInv is         *)
(* inductive, and with it the cooldown, the cap and the order of payment   *)
(* and record are preserved by every step.                                 *)
(*                                                                         *)
(* And withLock, under which a claim runs, for every set of callers: its   *)
(* inductive invariant, the refinement of Mutex that rests on it, and the  *)
(* order in which those that wait are let in.                              *)
(***************************************************************************)
EXTENDS Faucet, WithLock, TLAPS, FiniteSetTheorems

Limits == Cooldown /\ DailyCap /\ RecordedIsPaid

\* Mutex's view of the program counter.
LEMMA InsideIsHolding ==
    ASSUME TypeOK
    PROVE  Lock!Inside = {c \in Claim : pc[c] \in Holding}
  BY DEF Lock!Inside, LockPhase, TypeOK, Location, Holding, Final

\* The rows that countClaimsLast24h counts.
Recent == {row \in claims : row.at >= now - Window}

\* The count never grows while the table stands still.
LEMMA CountFalls ==
    ASSUME TypeOK, TypeOK', claims' = claims, now <= now'
    PROVE  countClaimsLast24h' <= countClaimsLast24h
<1>1. Recent' \subseteq Recent
  BY FaucetAssumption DEF Recent, TypeOK, Event
<1>2. IsFiniteSet(Recent)
  BY FS_Subset DEF Recent, TypeOK
<1>3. Cardinality(Recent') <= Cardinality(Recent)
  BY <1>1, <1>2, FS_Subset
<1> QED BY <1>3 DEF countClaimsLast24h, Recent

\* A step that writes no row and takes nothing back.
Quiet ==
    /\ UNCHANGED <<claims, wallet, ip>>
    /\ now <= now'
    /\ minted \subseteq minted' /\ paid \subseteq paid'
    /\ \A c \in Claim : pc[c] = "ok" => pc'[c] = "ok"
    /\ \A c \in Claim : pc'[c] = "paying" => c \in minted'

\* A step that writes no row keeps everything, if whoever is inside after it was
\* inside before it or has just passed the limits.
LEMMA QuietStep ==
    ASSUME FaucetInv, TypeOK', Limits,
           Quiet,
           \/ \A c \in Claim : pc'[c] \in Holding => pc[c] \in Holding
           \/ \E c \in Claim : /\ \A d \in Claim : pc[d] \notin Holding
                               /\ \A d \in Claim : pc'[d] \in Holding => d = c
                               /\ now' = now /\ ~RateLimited(c)
    PROVE  FaucetInv' /\ Limits'
<1> USE DEF Quiet
<1>0. TypeOK
  BY DEF FaucetInv
<1>1. Lock!Inside = {c \in Claim : pc[c] \in Holding}
  BY <1>0, InsideIsHolding
<1>2. Lock!Inside' = {c \in Claim : pc'[c] \in Holding}
  BY DEF Lock!Inside, LockPhase, TypeOK, Location, Holding, Final
<1>3. Lock!MutualExclusion'
  BY <1>1, <1>2 DEF Lock!MutualExclusion, FaucetInv
<1>4. now \in Nat /\ now' \in Nat /\ Window \in Nat /\ \A row \in claims : row.at \in Nat
  BY <1>0, FaucetAssumption DEF TypeOK, Event
<1>5. \A row \in claims' : row.at <= now'
  BY <1>4 DEF FaucetInv
<1>6. /\ countClaimsLast24h' <= countClaimsLast24h
      /\ countClaimsLast24h' \in Nat /\ countClaimsLast24h \in Nat
  <2>1. IsFiniteSet({row \in claims : row.at >= now - Window})
    BY <1>0, FS_Subset DEF TypeOK
  <2>2. IsFiniteSet({row \in claims : row.at >= now' - Window})
    BY <1>0, FS_Subset DEF TypeOK
  <2> QED BY <1>0, <2>1, <2>2, CountFalls, FS_CardinalityType DEF countClaimsLast24h
<1>7. ASSUME NEW c \in Lock!Inside'
      PROVE  /\ \A row \in claims : SameClaimant(c, row.req) => row.at + Window <= now'
             /\ countClaimsLast24h' < Cap
  <2>1. CASE c \in Lock!Inside
    BY <2>1, <1>4, <1>6, FaucetAssumption DEF FaucetInv, HolderIsClear
  <2>2. CASE c \notin Lock!Inside
    <3>1. now' = now /\ ~RateLimited(c)
      BY <2>2, <1>1, <1>2
    <3> QED BY <3>1, <1>4, <1>6, FaucetAssumption
            DEF RateLimited, WithinCooldown, SameClaimant, countClaimsLast24h
  <2> QED BY <2>1, <2>2
<1>8. HolderIsClear'
  BY <1>2, <1>7 DEF HolderIsClear, SameClaimant
<1>9. Cooldown' /\ DailyCap'
  BY DEF Limits, Cooldown, DailyCap, SameClaimant
<1>10. RecordedIsPaid'
  BY <1>0 DEF Limits, RecordedIsPaid, TypeOK, Event
<1> QED BY <1>3, <1>5, <1>8, <1>9, <1>10 DEF FaucetInv, Limits

\* The new row is out of the window of every other row of its claimant, and the
\* last Window ticks have room for it.
LEMMA PaidStep ==
    ASSUME FaucetInv, Limits, NEW c \in Claim, Paid(c)
    PROVE  FaucetInv' /\ Limits'
<1> DEFINE new == [req |-> c, at |-> now]
<1>0. TypeOK /\ new \in Event /\ new.req = c /\ new.at = now
  BY DEF FaucetInv, TypeOK, Event
<1>1. /\ pc[c] = "paying" /\ pc' = [pc EXCEPT ![c] = "ok"]
      /\ eth >= PerClaim /\ eth' = eth - PerClaim
      /\ paid' = paid \cup {new} /\ claims' = claims \cup {new}
      /\ UNCHANGED <<wallet, ip, minted, now, faults, crashes>>
  BY DEF Paid, Pay, insertClaim, Goto, carried, bounds
<1> HIDE DEF new
<1>2. IsFiniteSet(claims')
  BY <1>0, <1>1, FS_AddElement DEF TypeOK
<1>3. eth' \in 0..MaxEth
  BY <1>0, <1>1, FaucetAssumption DEF TypeOK
<1>4. TypeOK'
  BY <1>0, <1>1, <1>2, <1>3 DEF TypeOK, Location, Final
<1>5. now \in Nat /\ Window \in Nat /\ Cap \in Nat /\ \A row \in claims : row.at \in Nat
  BY <1>0, FaucetAssumption DEF TypeOK, Event
<1>6. Lock!Inside = {d \in Claim : pc[d] \in Holding} /\ c \in Lock!Inside
  BY <1>0, <1>1, InsideIsHolding DEF Holding
<1>7. Lock!Inside' = {}
  <2>1. Lock!Inside' = {d \in Claim : pc'[d] \in Holding}
    BY <1>4 DEF Lock!Inside, LockPhase, TypeOK, Location, Holding, Final
  <2>2. \A d \in Claim : pc[d] \in Holding => d = c
    BY <1>6 DEF FaucetInv, Lock!MutualExclusion
  <2> QED BY <2>1, <2>2, <1>0, <1>1 DEF TypeOK, Holding
<1>8. FaucetInv'
  <2>1. \A row \in claims' : row.at <= now'
    BY <1>0, <1>1, <1>5 DEF FaucetInv
  <2> QED BY <1>4, <1>7, <2>1 DEF FaucetInv, HolderIsClear, Lock!MutualExclusion
<1>9. /\ \A row \in claims : SameClaimant(c, row.req) => row.at + Window <= now
      /\ countClaimsLast24h < Cap
      /\ c \in minted
  BY <1>1, <1>6 DEF FaucetInv, HolderIsClear
<1>10. Cooldown'
  <2>1. ASSUME NEW x \in claims', NEW y \in claims', x # y, SameClaimant(x.req, y.req)
        PROVE  x.at + Window <= y.at \/ y.at + Window <= x.at
    <3>1. CASE x \in claims /\ y \in claims
      BY <3>1, <2>1 DEF Limits, Cooldown
    <3>2. CASE x = new /\ y \in claims
      BY <3>2, <2>1, <1>0, <1>9
    <3>3. CASE x \in claims /\ y = new
      <4>1. SameClaimant(c, x.req)
        BY <3>3, <2>1, <1>0 DEF SameClaimant
      <4> QED BY <3>3, <4>1, <1>0, <1>9
    <3> QED BY <3>1, <3>2, <3>3, <2>1, <1>1
  <2> QED BY <2>1, <1>1 DEF Cooldown, SameClaimant
<1>11. DailyCap'
  <2> SUFFICES ASSUME NEW x \in claims'
               PROVE  Cardinality({y \in claims' : x.at - Window <= y.at /\ y.at <= x.at}) <= Cap
    BY DEF DailyCap
  <2>1. CASE x.at = now
    <3> DEFINE last == {y \in claims' : x.at - Window <= y.at /\ y.at <= x.at}
    <3>1. last \subseteq Recent \cup {new}
      BY <2>1, <1>0, <1>1, <1>5 DEF Recent
    <3>2. IsFiniteSet(Recent) /\ Cardinality(Recent) \in Nat /\ Cardinality(Recent) < Cap
      BY <1>0, <1>9, FS_Subset, FS_CardinalityType DEF Recent, TypeOK, countClaimsLast24h
    <3>3. /\ IsFiniteSet(Recent \cup {new})
          /\ Cardinality(Recent \cup {new}) \in Nat
          /\ Cardinality(Recent \cup {new}) <= Cardinality(Recent) + 1
      <4>1. IsFiniteSet(Recent \cup {new})
        BY <3>2, FS_AddElement
      <4>2. Cardinality(Recent \cup {new}) =
              IF new \in Recent THEN Cardinality(Recent) ELSE Cardinality(Recent) + 1
        BY <3>2, FS_AddElement
      <4> QED BY <4>1, <4>2, <3>2
    <3>4. Cardinality(last) \in Nat /\ Cardinality(last) <= Cardinality(Recent \cup {new})
      BY <3>1, <3>3, FS_Subset, FS_CardinalityType
    <3> QED BY <3>2, <3>3, <3>4, <1>5
  <2>2. CASE x.at # now
    <3>1. x \in claims /\ x.at < now
      BY <2>2, <1>0, <1>1, <1>5 DEF FaucetInv
    <3>2. {y \in claims' : x.at - Window <= y.at /\ y.at <= x.at}
            = {y \in claims : x.at - Window <= y.at /\ y.at <= x.at}
      BY <3>1, <1>0, <1>1, <1>5
    <3> QED BY <3>1, <3>2 DEF Limits, DailyCap
  <2> QED BY <2>1, <2>2
<1>12. RecordedIsPaid'
  BY <1>0, <1>1, <1>9 DEF Limits, RecordedIsPaid, TypeOK, Event
<1> QED BY <1>8, <1>10, <1>11, <1>12 DEF Limits

-----------------------------------------------------------------------------
(* The steps *)

\* An empty table and an empty wallet history.
LEMMA InitFaucetInv == Init => FaucetInv /\ Limits
<1> SUFFICES ASSUME Init PROVE FaucetInv /\ Limits
  OBVIOUS
<1>1. TypeOK
  BY FaucetAssumption, FS_EmptySet DEF Init, TypeOK, Location, Event
<1>2. Lock!Inside = {}
  BY <1>1, InsideIsHolding DEF Init, Holding
<1>3. FaucetInv
  BY <1>1, <1>2 DEF Init, FaucetInv, HolderIsClear, Lock!MutualExclusion
<1>4. Limits
  BY DEF Init, Limits, Cooldown, DailyCap, RecordedIsPaid
<1> QED BY <1>3, <1>4

\* The steps of one claim that write no row.
LEMMA MoveStep ==
    ASSUME FaucetInv, Limits, NEW c \in Claim,
           \/ Arrive(c) \/ ReadBalance(c) \/ Minted(c)
           \/ PaymentRefused(c) \/ TxFails(c)
    PROVE  FaucetInv' /\ Limits'
<1>0. TypeOK
  BY DEF FaucetInv
<1>1. /\ UNCHANGED <<wallet, ip, claims, now, crashes>>
      /\ minted \subseteq minted' /\ minted' \subseteq minted \cup {c}
      /\ eth' = eth \/ (eth >= PerClaim /\ eth' = eth - PerClaim)
      /\ paid' = paid \/ paid' = paid \cup {[req |-> c, at |-> now]}
      /\ faults' = faults \/ (faults < MaxFaults /\ faults' = faults + 1)
  BY DEF Arrive, ReadBalance, Minted, PaymentRefused, TxFails, Unconfirmed, Pay,
         carried, bounds
<1>2. \/ pc[c] = "new" /\ pc' = [pc EXCEPT ![c] = "waiting"]
      \/ /\ pc[c] \in Holding
         /\ \/ \E l \in {"minting", "error"} : pc' = [pc EXCEPT ![c] = l]
            \/ pc' = [pc EXCEPT ![c] = "paying"] /\ c \in minted'
  BY DEF Arrive, ReadBalance, Minted, PaymentRefused, TxFails, Goto, Holding
<1>3. TypeOK'
  <2>1. paid' \subseteq Event
    BY <1>0, <1>1 DEF TypeOK, Event
  <2>2. eth' \in 0..MaxEth /\ faults' \in 0..MaxFaults
    BY <1>0, <1>1, FaucetAssumption DEF TypeOK
  <2> QED BY <1>0, <1>1, <1>2, <2>1, <2>2 DEF TypeOK, Location, Holding, Final
<1>4. \A d \in Claim : /\ pc[d] = "ok" => pc'[d] = "ok"
                       /\ pc'[d] \in Holding => pc[d] \in Holding
  BY <1>0, <1>2 DEF TypeOK, Holding
<1>5. \A d \in Claim : pc[d] = "paying" => d \in minted
  BY <1>0, InsideIsHolding DEF FaucetInv, HolderIsClear, Holding
<1>6. \A d \in Claim : pc'[d] = "paying" => d \in minted'
  BY <1>0, <1>1, <1>2, <1>5 DEF TypeOK
<1>7. now <= now' /\ paid \subseteq paid'
  BY <1>0, <1>1 DEF TypeOK
<1>8. Quiet
  BY <1>1, <1>4, <1>6, <1>7 DEF Quiet
<1> QED BY <1>3, <1>4, <1>8, QuietStep

\* A claim gets the lock, and stays inside only if it is clear of the limits.
LEMMA CheckStep ==
    ASSUME FaucetInv, Limits, NEW c \in Claim, Check(c)
    PROVE  FaucetInv' /\ Limits'
<1>0. TypeOK
  BY DEF FaucetInv
<1>1. /\ UNCHANGED <<wallet, ip, claims, eth, minted, paid, now, faults, crashes>>
      /\ pc[c] = "waiting"
      /\ \/ RateLimited(c) /\ pc' = [pc EXCEPT ![c] = "error"]
         \/ ~RateLimited(c) /\ pc' = [pc EXCEPT ![c] = "checked"]
  BY DEF Check, Goto, carried, bounds
<1>2. \A d \in Claim : pc[d] \notin Holding
  BY <1>0, InsideIsHolding DEF Check
<1>3. TypeOK'
  BY <1>0, <1>1 DEF TypeOK, Location, Holding, Final
<1>4. \A d \in Claim : /\ pc[d] = "ok" => pc'[d] = "ok"
                       /\ pc'[d] # "paying"
                       /\ pc'[d] \in Holding => d = c /\ ~RateLimited(c)
  BY <1>0, <1>1, <1>2 DEF TypeOK, Holding
<1>5. now <= now'
  BY <1>0, <1>1 DEF TypeOK
<1>6. Quiet
  BY <1>1, <1>4, <1>5 DEF Quiet
<1>7. CASE RateLimited(c)
  <2>1. \A d \in Claim : pc'[d] \in Holding => pc[d] \in Holding
    BY <1>4, <1>7
  <2> QED BY <2>1, <1>3, <1>6, QuietStep
<1>8. CASE ~RateLimited(c)
  <2>1. \A d \in Claim : pc'[d] \in Holding => d = c
    BY <1>4
  <2>2. now' = now
    BY <1>1
  <2> QED BY <2>1, <2>2, <1>2, <1>3, <1>6, <1>8, QuietStep
<1> QED BY <1>7, <1>8

\* Time passes, the balance moves, or the process dies with its claims.
LEMMA WorldStep ==
    ASSUME FaucetInv, Limits, Tick \/ BalanceChanges \/ Crash
    PROVE  FaucetInv' /\ Limits'
<1>0. TypeOK
  BY DEF FaucetInv
<1>1. /\ UNCHANGED <<wallet, ip, claims, faults>>
      /\ minted \subseteq minted' /\ minted' \subseteq Claim /\ paid \subseteq paid'
      /\ paid' \subseteq Event /\ eth' \in 0..MaxEth
      /\ now' \in 0..MaxTime /\ now <= now' /\ crashes' \in 0..MaxCrashes
  <2>1. CASE Tick
    BY <2>1, <1>0, FaucetAssumption DEF Tick, TypeOK, carried, bounds
  <2>2. CASE BalanceChanges
    BY <2>2, <1>0, FaucetAssumption DEF BalanceChanges, TypeOK, carried, bounds
  <2>3. CASE Crash
    <3>1. \/ UNCHANGED <<minted, paid, eth>>
          \/ \E c \in Claim : minted' = minted \cup {c} /\ UNCHANGED <<paid, eth>>
          \/ \E c \in Claim : Pay(c) /\ UNCHANGED minted
      BY <2>3 DEF Crash, Unconfirmed, Lock!Inside
    <3>2. minted \subseteq minted' /\ minted' \subseteq Claim
      BY <3>1, <1>0 DEF TypeOK
    <3>3. paid \subseteq paid' /\ paid' \subseteq Event
      BY <3>1, <1>0 DEF TypeOK, Pay, Event
    <3>4. eth' \in 0..MaxEth
      BY <3>1, <1>0, FaucetAssumption DEF TypeOK, Pay
    <3> QED BY <2>3, <3>2, <3>3, <3>4, <1>0, FaucetAssumption DEF Crash, TypeOK, carried
  <2> QED BY <2>1, <2>2, <2>3
<1>2. \/ pc' = pc
      \/ pc' = [c \in Claim |-> IF pc[c] \in {"new"} \cup Final THEN pc[c] ELSE "lost"]
  BY DEF Tick, BalanceChanges, Crash
<1>3. TypeOK'
  <2>1. pc' \in [Claim -> Location]
    BY <1>0, <1>2 DEF TypeOK, Location, Final
  <2> QED BY <1>0, <1>1, <2>1 DEF TypeOK
<1>4. \A d \in Claim : /\ pc[d] = "ok" => pc'[d] = "ok"
                       /\ pc'[d] \in Holding => pc[d] \in Holding
                       /\ pc'[d] = "paying" => pc[d] = "paying"
  BY <1>0, <1>2 DEF TypeOK, Location, Holding, Final
<1>5. \A d \in Claim : pc[d] = "paying" => d \in minted
  BY <1>0, InsideIsHolding DEF FaucetInv, HolderIsClear, Holding
<1>6. Quiet
  BY <1>1, <1>4, <1>5 DEF Quiet
<1> QED BY <1>3, <1>4, <1>6, QuietStep

\* Every step of a claim, of the clock, the chain and the process.
LEMMA NextFaucetInv == FaucetInv /\ Limits /\ [Next]_vars => FaucetInv' /\ Limits'
<1> SUFFICES ASSUME FaucetInv, Limits, [Next]_vars PROVE FaucetInv' /\ Limits'
  OBVIOUS
<1>1. CASE Tick \/ BalanceChanges \/ Crash
  BY <1>1, WorldStep
<1>2. ASSUME NEW c \in Claim, Paid(c) PROVE FaucetInv' /\ Limits'
  BY <1>2, PaidStep
<1>3. ASSUME NEW c \in Claim, Check(c) PROVE FaucetInv' /\ Limits'
  BY <1>3, CheckStep
<1>4. ASSUME NEW c \in Claim,
             \/ Arrive(c) \/ ReadBalance(c) \/ Minted(c)
             \/ PaymentRefused(c) \/ TxFails(c)
      PROVE  FaucetInv' /\ Limits'
  BY <1>4, MoveStep
<1>5. CASE UNCHANGED vars
  BY <1>5 DEF vars, carried, bounds, FaucetInv, TypeOK, HolderIsClear, SameClaimant,
              Lock!MutualExclusion, Lock!Inside, LockPhase, countClaimsLast24h,
              Limits, Cooldown, DailyCap, RecordedIsPaid
<1> QED BY <1>1, <1>2, <1>3, <1>4, <1>5 DEF Next

\* The inductive invariant of the faucet.
THEOREM FaucetInvariant == Spec => [](FaucetInv /\ Limits)
  BY InitFaucetInv, NextFaucetInv, PTL DEF Spec

\* Two recorded claims of a wallet or of an address are a window apart, although
\* the limits are read long before the row is written (routes/faucet.ts:95-166).
THEOREM CooldownHolds == Spec => []Cooldown
<1>1. FaucetInv /\ Limits => Cooldown
  BY DEF Limits
<1> QED BY <1>1, FaucetInvariant, PTL

\* No window, ends included, holds more than DAILY_CAP recorded claims.
THEOREM DailyCapHolds == Spec => []DailyCap
<1>1. FaucetInv /\ Limits => DailyCap
  BY DEF Limits
<1> QED BY <1>1, FaucetInvariant, PTL

\* A claim that failed has no row, and a row has its mint and its ETH.
THEOREM OnlyPaidIsRecorded == Spec => []RecordedIsPaid
<1>1. FaucetInv /\ Limits => RecordedIsPaid
  BY DEF Limits
<1> QED BY <1>1, FaucetInvariant, PTL

-----------------------------------------------------------------------------
(* Lists of callers *)

LEMMA TailOfList ==
    ASSUME NEW q \in Seq(Caller), q # <<>>
    PROVE  /\ Tail(q) \in Seq(Caller)
           /\ Len(q) \in Nat \ {0}
           /\ DOMAIN q = 1..Len(q)
           /\ DOMAIN Tail(q) = 1..(Len(q) - 1)
           /\ \A i \in 1..(Len(q) - 1) : Tail(q)[i] = q[i + 1]
           /\ Head(q) = q[1]
           /\ q[1] \in Caller
OBVIOUS

\* A caller that is nowhere yet can be added at the end of a list.
LEMMA ListAfterAppend ==
    ASSUME NEW q \in Seq(Caller), NEW c \in Caller, NEW loc,
           NEW at \in [Caller -> Place], Lists(q, at, loc), at[c] # loc, loc \in Place
    PROVE  Lists(Append(q, c), [at EXCEPT ![c] = loc], loc)
<1> DEFINE r == Append(q, c)
           at2 == [at EXCEPT ![c] = loc]
<1>1. /\ r \in Seq(Caller)
      /\ DOMAIN q = 1..Len(q)
      /\ DOMAIN r = 1..(Len(q) + 1)
      /\ Len(q) \in Nat
      /\ \A i \in 1..Len(q) : r[i] = q[i] /\ q[i] \in Caller
      /\ r[Len(q) + 1] = c
  OBVIOUS
<1>2. \A i \in 1..Len(q) : q[i] # c
  BY <1>1 DEF Lists
<1>3. \A i \in DOMAIN r : at2[r[i]] = loc
  <2>1. TAKE i \in DOMAIN r
  <2>2. CASE i = Len(q) + 1
    BY <1>1, <2>2
  <2>3. CASE i \in 1..Len(q)
    BY <1>1, <1>2, <2>3 DEF Lists
  <2> QED
    BY <1>1, <2>2, <2>3
<1>4. \A i, j \in DOMAIN r : r[i] = r[j] => i = j
  <2>1. TAKE i, j \in DOMAIN r
  <2>2. CASE i \in 1..Len(q) /\ j \in 1..Len(q)
    BY <1>1, <2>2 DEF Lists
  <2>3. CASE i = Len(q) + 1 \/ j = Len(q) + 1
    BY <1>1, <1>2, <2>3
  <2> QED
    BY <1>1, <2>2, <2>3
<1>5. \A d \in Caller : at2[d] = loc => \E i \in DOMAIN r : r[i] = d
  <2>1. TAKE d \in Caller
  <2>2. CASE d = c
    BY <1>1, <2>2
  <2>3. ASSUME d # c, at2[d] = loc PROVE \E i \in DOMAIN r : r[i] = d
    <3>1. PICK i \in DOMAIN q : q[i] = d
      BY <2>3 DEF Lists
    <3> QED
      BY <3>1, <1>1
  <2> QED
    BY <2>2, <2>3
<1> QED
  BY <1>3, <1>4, <1>5 DEF Lists

\* The first of a list can leave it, once it is elsewhere.
LEMMA ListAfterTail ==
    ASSUME NEW q \in Seq(Caller), q # <<>>, NEW loc, NEW to \in Place, to # loc,
           NEW at \in [Caller -> Place], Lists(q, at, loc)
    PROVE  Lists(Tail(q), [at EXCEPT ![Head(q)] = to], loc)
<1> DEFINE at2 == [at EXCEPT ![Head(q)] = to]
<1>1. /\ \A i \in DOMAIN q : q[i] \in Caller
      /\ \A i \in DOMAIN Tail(q) : i + 1 \in DOMAIN q /\ i + 1 # 1
      /\ 1 \in DOMAIN q
  BY TailOfList
<1>2. \A i \in DOMAIN Tail(q) : at2[Tail(q)[i]] = loc
  BY <1>1, TailOfList DEF Lists
<1>3. \A i, j \in DOMAIN Tail(q) : Tail(q)[i] = Tail(q)[j] => i = j
  BY <1>1, TailOfList DEF Lists
<1>4. \A d \in Caller : at2[d] = loc => \E i \in DOMAIN Tail(q) : Tail(q)[i] = d
  <2>1. SUFFICES ASSUME NEW d \in Caller, at2[d] = loc
                 PROVE  \E i \in DOMAIN Tail(q) : Tail(q)[i] = d
    OBVIOUS
  <2>2. d # Head(q) /\ at[d] = loc
    BY <2>1, TailOfList
  <2>3. PICK i \in DOMAIN q : q[i] = d
    BY <2>2 DEF Lists
  <2>4. i \in 2..Len(q)
    BY <2>2, <2>3, TailOfList
  <2>5. i - 1 \in DOMAIN Tail(q) /\ Tail(q)[i - 1] = d
    BY <2>3, <2>4, TailOfList
  <2> QED
    BY <2>5
<1> QED
  BY <1>2, <1>3, <1>4 DEF Lists

\* Moves between other places leave a list alone.
LEMMA ListUntouched ==
    ASSUME NEW q \in Seq(Caller), NEW c \in Caller, NEW loc, NEW to \in Place,
           NEW at \in [Caller -> Place], Lists(q, at, loc), at[c] # loc, to # loc
    PROVE  Lists(q, [at EXCEPT ![c] = to], loc)
<1>1. \A i \in DOMAIN q : q[i] \in Caller
  OBVIOUS
<1> QED
  BY <1>1 DEF Lists

-----------------------------------------------------------------------------
(* The inductive invariant *)

LEMMA InitLockInv == LockInit => LockInv
BY NoPromiseIsNoCaller
   DEF LockInit, LockInv, LockTypeOK, Place, HolderHasEntry, WaitersQueuedOnce, Lists

\* A call that is not waiting yet.
LEMMA CallLockInv ==
    ASSUME LockInv, NEW c \in Caller, Call(c)
    PROVE  LockInv'
<1> USE DEF LockInv, Place
<1>1. place[c] = "new" /\ place \in [Caller -> Place] /\ jobs \in Seq(Caller)
  BY DEF Call, LockTypeOK
<1>2. CASE TakeLock(c)
  <2>1. /\ inflight = NoPromise /\ inflight' = c
        /\ place' = [place EXCEPT ![c] = "fn"]
        /\ reactions' = reactions /\ jobs' = jobs
    BY <1>2 DEF TakeLock, Call
  <2>2. LockTypeOK'
    BY <2>1 DEF LockTypeOK
  <2>3. HolderHasEntry'
    BY <2>1, NoPromiseIsNoCaller DEF LockTypeOK, HolderHasEntry
  <2>4. Lists(jobs, place, "resumed")'
    BY <1>1, <2>1, ListUntouched DEF WaitersQueuedOnce
  <2>5. \A h \in Caller : reactions'[h] = <<>>
    BY <2>1, NoPromiseIsNoCaller DEF WaitersQueuedOnce
  <2>6. \A d \in Caller : place'[d] # "awaiting"
    BY <1>1, <2>1 DEF WaitersQueuedOnce
  <2>7. \A h \in Caller : Lists(reactions[h], place, "awaiting")'
    BY <2>5, <2>6 DEF Lists
  <2> QED
    BY <2>1, <2>2, <2>3, <2>4, <2>5, <2>7, NoPromiseIsNoCaller DEF WaitersQueuedOnce
<1>3. CASE AwaitHolder(c)
  <2>1. /\ inflight # NoPromise /\ inflight' = inflight /\ inflight \in Caller
        /\ place' = [place EXCEPT ![c] = "awaiting"]
        /\ reactions' = [reactions EXCEPT ![inflight] = Append(@, c)]
        /\ jobs' = jobs
        /\ reactions[inflight] \in Seq(Caller)
    BY <1>3 DEF AwaitHolder, Call, LockTypeOK
  <2>2. LockTypeOK'
    BY <2>1 DEF LockTypeOK
  <2>3. HolderHasEntry'
    BY <1>1, <2>1 DEF LockTypeOK, HolderHasEntry
  <2>4. Lists(jobs, place, "resumed")'
    BY <1>1, <2>1, ListUntouched DEF WaitersQueuedOnce
  <2>5. Lists(reactions[inflight], place, "awaiting")'
    <3>1. Lists(reactions[inflight], place, "awaiting")
      BY <2>1 DEF WaitersQueuedOnce
    <3>2. reactions'[inflight'] = Append(reactions[inflight], c)
      BY <2>1 DEF LockTypeOK
    <3>3. /\ place \in [Caller -> Place] /\ place[c] # "awaiting" /\ "awaiting" \in Place
      BY <1>1, <2>1 DEF LockTypeOK
    <3>4. Lists(Append(reactions[inflight], c), [place EXCEPT ![c] = "awaiting"], "awaiting")
      BY <2>1, <3>1, <3>3, ListAfterAppend
    <3> QED
      BY <2>1, <3>2, <3>4
  <2>6. \A h \in Caller : h # inflight' => reactions'[h] = <<>>
    BY <2>1 DEF WaitersQueuedOnce, LockTypeOK
  <2> QED
    BY <2>1, <2>2, <2>3, <2>4, <2>5, <2>6 DEF WaitersQueuedOnce
<1> QED
  BY <1>2, <1>3 DEF Call, TestAndSet

\* A call whose awaited promise has resolved.
LEMMA ResumeLockInv ==
    ASSUME LockInv, NEW c \in Caller, Resume(c)
    PROVE  LockInv'
<1> USE DEF LockInv, Place
<1>1. /\ jobs # <<>> /\ c = Head(jobs) /\ jobs' = Tail(jobs)
      /\ place[c] = "resumed"
      /\ place \in [Caller -> Place] /\ jobs \in Seq(Caller)
      /\ Tail(jobs) \in Seq(Caller)
      /\ Lists(jobs, place, "resumed")
  BY TailOfList DEF Resume, LockTypeOK, WaitersQueuedOnce, Lists
<1>2. CASE TakeLock(c)
  <2>1. /\ inflight = NoPromise /\ inflight' = c
        /\ place' = [place EXCEPT ![c] = "fn"]
        /\ reactions' = reactions
    BY <1>2 DEF TakeLock
  <2>2. LockTypeOK'
    BY <1>1, <2>1 DEF LockTypeOK
  <2>3. HolderHasEntry'
    BY <2>1, NoPromiseIsNoCaller DEF LockTypeOK, HolderHasEntry
  <2>4. Lists(jobs, place, "resumed")'
    BY <1>1, <2>1, ListAfterTail
  <2>5. \A h \in Caller : reactions'[h] = <<>>
    BY <2>1, NoPromiseIsNoCaller DEF WaitersQueuedOnce
  <2>6. \A d \in Caller : place'[d] # "awaiting"
    BY <1>1, <2>1 DEF WaitersQueuedOnce
  <2>7. \A h \in Caller : Lists(reactions[h], place, "awaiting")'
    BY <2>5, <2>6 DEF Lists
  <2> QED
    BY <2>1, <2>2, <2>3, <2>4, <2>5, <2>7, NoPromiseIsNoCaller DEF WaitersQueuedOnce
<1>3. CASE AwaitHolder(c)
  <2>1. /\ inflight # NoPromise /\ inflight' = inflight /\ inflight \in Caller
        /\ place' = [place EXCEPT ![c] = "awaiting"]
        /\ reactions' = [reactions EXCEPT ![inflight] = Append(@, c)]
        /\ reactions[inflight] \in Seq(Caller)
    BY <1>3 DEF AwaitHolder, LockTypeOK
  <2>2. LockTypeOK'
    BY <1>1, <2>1 DEF LockTypeOK
  <2>3. HolderHasEntry'
    BY <1>1, <2>1 DEF LockTypeOK, HolderHasEntry
  <2>4. Lists(jobs, place, "resumed")'
    BY <1>1, <2>1, ListAfterTail
  <2>5. Lists(reactions[inflight], place, "awaiting")'
    <3>1. Lists(reactions[inflight], place, "awaiting")
      BY <2>1 DEF WaitersQueuedOnce
    <3>2. reactions'[inflight'] = Append(reactions[inflight], c)
      BY <2>1 DEF LockTypeOK
    <3>3. /\ place \in [Caller -> Place] /\ place[c] # "awaiting" /\ "awaiting" \in Place
      BY <1>1, <2>1 DEF LockTypeOK
    <3>4. Lists(Append(reactions[inflight], c), [place EXCEPT ![c] = "awaiting"], "awaiting")
      BY <2>1, <3>1, <3>3, ListAfterAppend
    <3> QED
      BY <2>1, <3>2, <3>4
  <2>6. \A h \in Caller : h # inflight' => reactions'[h] = <<>>
    BY <2>1 DEF WaitersQueuedOnce, LockTypeOK
  <2> QED
    BY <2>1, <2>2, <2>3, <2>4, <2>5, <2>6 DEF WaitersQueuedOnce
<1> QED
  BY <1>2, <1>3 DEF Resume, TestAndSet

\* The holder's fn settles.
LEMMA SettleLockInv ==
    ASSUME LockInv, NEW c \in Caller, Settle(c)
    PROVE  LockInv'
<1> USE DEF LockInv, Place
<1> DEFINE q == reactions[c]
<1>1. /\ inflight = c /\ place[c] = "fn" /\ jobs = <<>>
      /\ inflight' = NoPromise /\ jobs' = q
      /\ reactions' = [reactions EXCEPT ![c] = <<>>]
      /\ place' = [d \in Caller |-> IF d = c THEN "settled"
                                    ELSE IF \E i \in DOMAIN q : q[i] = d
                                    THEN "resumed" ELSE place[d]]
      /\ place \in [Caller -> Place] /\ q \in Seq(Caller)
      /\ reactions \in [Caller -> Seq(Caller)]
      /\ Lists(q, place, "awaiting")
  BY DEF Settle, Release, LockTypeOK, HolderHasEntry, WaitersQueuedOnce
<1>2. LockTypeOK'
  BY <1>1 DEF LockTypeOK
<1>3. \A i \in DOMAIN q : q[i] \in Caller /\ q[i] # c
  BY <1>1 DEF Lists
<1>4. \A d \in Caller : place[d] # "resumed"
  BY <1>1 DEF WaitersQueuedOnce, Lists
<1>5. HolderHasEntry'
  BY <1>1, NoPromiseIsNoCaller DEF HolderHasEntry
<1>6. Lists(jobs, place, "resumed")'
  BY <1>1, <1>3, <1>4 DEF Lists
<1>7. \A h \in Caller : reactions'[h] = <<>>
  BY <1>1 DEF WaitersQueuedOnce
<1>8. \A d \in Caller : place'[d] # "awaiting"
  BY <1>1 DEF Lists
<1> QED
  BY <1>1, <1>2, <1>5, <1>6, <1>7, <1>8, NoPromiseIsNoCaller DEF WaitersQueuedOnce

LEMMA NextLockInv == LockInv /\ [LockNext]_lockVars => LockInv'
<1> SUFFICES ASSUME LockInv, [LockNext]_lockVars PROVE LockInv'
  OBVIOUS
<1>1. CASE LockNext
  BY <1>1, CallLockInv, ResumeLockInv, SettleLockInv DEF LockNext
<1>2. CASE UNCHANGED lockVars
  BY <1>2 DEF lockVars, LockInv, LockTypeOK, HolderHasEntry, WaitersQueuedOnce, Lists
<1> QED
  BY <1>1, <1>2

\* The entry of the map is the running call's promise, and every waiting call is
\* registered exactly once, in every reachable state of lock.ts.
THEOREM WithLockInvariant == LockSpec => []LockInv
BY InitLockInv, NextLockInv, PTL DEF LockSpec

-----------------------------------------------------------------------------
(* withLock implements Mutex *)

LEMMA InitImplementsMutex == LockInit => Exclusion!Init
BY DEF LockInit, Exclusion!Init, AbstractPhase

LEMMA StepImplementsMutex == LockInv /\ [LockNext]_lockVars => [Exclusion!Next]_AbstractPhase
<1> SUFFICES ASSUME LockInv, [LockNext]_lockVars
             PROVE  Exclusion!Next \/ AbstractPhase' = AbstractPhase
  OBVIOUS
<1> USE DEF Place
<1>1. place \in [Caller -> Place]
  BY DEF LockInv, LockTypeOK
<1>2. ASSUME NEW c \in Caller, TakeLock(c), place[c] \in {"new", "resumed"}
      PROVE  Exclusion!Enter(c)
  <2>1. Exclusion!Inside = {}
    BY <1>1, <1>2, NoPromiseIsNoCaller
       DEF LockInv, HolderHasEntry, Exclusion!Inside, AbstractPhase, TakeLock
  <2>2. AbstractPhase' = [AbstractPhase EXCEPT ![c] = "inside"]
    BY <1>1, <1>2 DEF AbstractPhase, TakeLock
  <2> QED
    BY <1>2, <2>1, <2>2 DEF Exclusion!Enter, AbstractPhase
<1>3. ASSUME NEW c \in Caller, AwaitHolder(c), place[c] = "new"
      PROVE  Exclusion!Wait(c)
  BY <1>1, <1>3 DEF AwaitHolder, Exclusion!Wait, AbstractPhase
<1>4. ASSUME NEW c \in Caller, AwaitHolder(c), place[c] = "resumed"
      PROVE  AbstractPhase' = AbstractPhase
  BY <1>1, <1>4 DEF AwaitHolder, AbstractPhase
<1>5. ASSUME NEW c \in Caller, Settle(c)
      PROVE  Exclusion!Leave(c)
  <2>1. \A i \in DOMAIN reactions[c] : place[reactions[c][i]] = "awaiting"
    BY <1>5 DEF LockInv, HolderHasEntry, WaitersQueuedOnce, Lists, Settle, Release
  <2>2. place[c] = "fn" /\ AbstractPhase' = [AbstractPhase EXCEPT ![c] = "left"]
    BY <1>1, <1>5, <2>1 DEF Settle, Release, AbstractPhase
  <2> QED
    BY <2>2 DEF Exclusion!Leave, AbstractPhase
<1>6. ASSUME NEW c \in Caller, Resume(c)
      PROVE  place[c] = "resumed"
  BY <1>6, TailOfList DEF Resume, LockInv, LockTypeOK, WaitersQueuedOnce, Lists
<1>7. CASE UNCHANGED lockVars
  BY <1>7 DEF lockVars, AbstractPhase
<1> QED
  BY <1>2, <1>3, <1>4, <1>5, <1>6, <1>7 DEF LockNext, Call, Resume, TestAndSet, Exclusion!Next

\* lock.ts implements the abstract mutex: the initial state and every step map
\* to one of Mutex, or to no change.
THEOREM WithLockImplementsMutex == LockSpec => ImplementsMutex
BY WithLockInvariant, InitImplementsMutex, StepImplementsMutex, PTL
   DEF LockSpec, ImplementsMutex, Exclusion!Spec

\* At most one fn runs at a time: no two requests sign and broadcast from the
\* relayer's wallet at once.
THEOREM WithLockExcludes == LockSpec => [](\A c, d \in Caller : place[c] = "fn" /\ place[d] = "fn" => c = d)
<1>1. LockInv => \A c, d \in Caller : place[c] = "fn" /\ place[d] = "fn" => c = d
  BY DEF LockInv, HolderHasEntry
<1> QED
  BY <1>1, WithLockInvariant, PTL

-----------------------------------------------------------------------------
(* Nobody overtakes *)

\* c is ahead of d in q.
Ahead(q, c, d) == \E i, j \in DOMAIN q : i < j /\ q[i] = c /\ q[j] = d

LEMMA BeforeMeans == \A c, d : Before(c, d) <=> Ahead(Line, c, d)
BY DEF Before, Ahead

\* Whoever leaves at the head of a line was ahead of the others, and they keep
\* their order.
LEMMA AheadAfterTail ==
    ASSUME NEW q \in Seq(Caller), q # <<>>, \A i, j \in DOMAIN q : q[i] = q[j] => i = j,
           NEW c, NEW d, Ahead(q, c, d)
    PROVE  d # Head(q) /\ (c # Head(q) => Ahead(Tail(q), c, d))
<1>1. PICK i \in DOMAIN q, j \in DOMAIN q : i < j /\ q[i] = c /\ q[j] = d
  BY DEF Ahead
<1>2. 1 \in DOMAIN q /\ i \in 1..Len(q) /\ j \in 1..Len(q) /\ Len(q) \in Nat
  BY TailOfList
<1>3. j # 1
  BY <1>1, <1>2
<1>4. d # Head(q)
  BY <1>1, <1>2, <1>3, TailOfList
<1>5. ASSUME c # Head(q) PROVE Ahead(Tail(q), c, d)
  <2>1. i # 1
    BY <1>1, <1>5, TailOfList
  <2>2. i - 1 \in 1..(Len(q) - 1) /\ j - 1 \in 1..(Len(q) - 1) /\ i - 1 < j - 1
        /\ (i - 1) + 1 = i /\ (j - 1) + 1 = j
    BY <1>1, <1>2, <1>3, <2>1
  <2>3. Tail(q)[i - 1] = c /\ Tail(q)[j - 1] = d
    BY <1>1, <2>2, TailOfList
  <2>4. i - 1 \in DOMAIN Tail(q) /\ j - 1 \in DOMAIN Tail(q)
    BY <2>2, TailOfList
  <2> QED
    BY <2>2, <2>3, <2>4 DEF Ahead
<1> QED
  BY <1>4, <1>5

\* A newcomer in the middle of a line changes nobody's order.
LEMMA AheadAfterInsert ==
    ASSUME NEW p \in Seq(Caller), NEW q \in Seq(Caller), NEW e \in Caller,
           NEW c, NEW d, Ahead(p \o q, c, d)
    PROVE  Ahead(Append(p, e) \o q, c, d)
<1> DEFINE old == p \o q
           new == Append(p, e) \o q
           To(i) == IF i <= Len(p) THEN i ELSE i + 1
<1>1. /\ Len(p) \in Nat /\ Len(q) \in Nat
      /\ DOMAIN old = 1..(Len(p) + Len(q))
      /\ DOMAIN new = 1..(Len(p) + 1 + Len(q))
  OBVIOUS
<1>2. \A i \in 1..(Len(p) + Len(q)) : To(i) \in 1..(Len(p) + 1 + Len(q))
  BY <1>1
<1>3. \A i \in 1..(Len(p) + Len(q)) : new[To(i)] = old[i]
  BY <1>1
<1>4. \A i, j \in 1..(Len(p) + Len(q)) : i < j => To(i) < To(j)
  BY <1>1
<1> HIDE DEF old, new, To
<1>5. PICK i \in DOMAIN old, j \in DOMAIN old : i < j /\ old[i] = c /\ old[j] = d
  BY DEF Ahead, old
<1>6. To(i) \in DOMAIN new /\ To(j) \in DOMAIN new
  BY <1>1, <1>2, <1>5
<1>7. To(i) < To(j) /\ new[To(i)] = c /\ new[To(j)] = d
  BY <1>1, <1>3, <1>4, <1>5
<1> QED
  BY <1>6, <1>7 DEF Ahead, new

\* The lists of a state with the invariant.
LEMMA LineShape ==
    ASSUME LockInv
    PROVE  /\ jobs \in Seq(Caller) /\ Lists(jobs, place, "resumed")
           /\ place \in [Caller -> Place]
           /\ inflight = NoPromise \/ inflight \in Caller
           /\ \A h \in Caller : reactions[h] \in Seq(Caller)
           /\ \A h \in Caller \ {inflight} : reactions[h] = <<>>
           /\ inflight \in Caller => Lists(reactions[inflight], place, "awaiting")
BY DEF LockInv, LockTypeOK, WaitersQueuedOnce

\* Whoever is in the line waits.
LEMMA LineWaits ==
    ASSUME LockInv
    PROVE  \A i \in DOMAIN Line : place[Line[i]] \in {"awaiting", "resumed"}
<1>1. CASE inflight = NoPromise
  <2>1. Line = jobs /\ \A i \in DOMAIN jobs : place[jobs[i]] = "resumed"
    BY <1>1, LineShape DEF Line, Lists
  <2> QED
    BY <2>1
<1>2. CASE inflight \in Caller
  <2> DEFINE p == reactions[inflight]
  <2>1. /\ p \in Seq(Caller) /\ jobs \in Seq(Caller)
        /\ \A i \in DOMAIN p : place[p[i]] = "awaiting"
        /\ \A i \in DOMAIN jobs : place[jobs[i]] = "resumed"
    BY <1>2, LineShape DEF Lists
  <2>2. Line = p \o jobs
    BY <1>2, NoPromiseIsNoCaller DEF Line
  <2> HIDE DEF p
  <2>3. \A i \in DOMAIN (p \o jobs) :
           \/ i \in DOMAIN p /\ (p \o jobs)[i] = p[i]
           \/ i - Len(p) \in DOMAIN jobs /\ (p \o jobs)[i] = jobs[i - Len(p)]
    BY <2>1
  <2> QED
    BY <2>1, <2>2, <2>3
<1> QED
  BY <1>1, <1>2, LineShape

\* A new caller that finds the lock free leaves the line as it is, and one that
\* does not goes behind those that await the same promise.
LEMMA CallKeepsOrder ==
    ASSUME LockInv, NEW e \in Caller, Call(e),
           NEW c \in Caller, NEW d \in Caller, Before(c, d)
    PROVE  place'[d] # "fn" /\ Before(c, d)'
<1>1. place[e] = "new" /\ place[d] \in {"awaiting", "resumed"} /\ jobs' = jobs
  BY LineWaits DEF Call, Before
<1>2. d # e /\ place[d] # "fn" /\ place \in [Caller -> Place]
  BY <1>1, LineShape
<1>3. Ahead(Line, c, d)
  BY BeforeMeans
<1>4. CASE TakeLock(e)
  <2>1. inflight = NoPromise /\ inflight' = e /\ reactions' = reactions
        /\ place' = [place EXCEPT ![e] = "fn"]
    BY <1>4 DEF TakeLock
  <2>2. reactions[e] = <<>> /\ jobs \in Seq(Caller)
    BY <2>1, LineShape, NoPromiseIsNoCaller
  <2>3. Line' = <<>> \o jobs /\ Line = jobs
    BY <1>1, <2>1, <2>2 DEF Line
  <2>4. Line' = Line
    BY <2>2, <2>3
  <2> QED
    BY <1>2, <1>3, <2>1, <2>4 DEF Before, Ahead
<1>5. CASE AwaitHolder(e)
  <2>1. /\ inflight # NoPromise /\ inflight' = inflight
        /\ reactions' = [reactions EXCEPT ![inflight] = Append(@, e)]
        /\ place' = [place EXCEPT ![e] = "awaiting"]
    BY <1>5 DEF AwaitHolder
  <2>2. inflight \in Caller /\ reactions[inflight] \in Seq(Caller) /\ jobs \in Seq(Caller)
    BY <2>1, LineShape
  <2>3. reactions'[inflight] = Append(reactions[inflight], e)
    BY <2>1, <2>2 DEF LockInv, LockTypeOK
  <2>4. /\ Line = reactions[inflight] \o jobs
        /\ Line' = Append(reactions[inflight], e) \o jobs
    BY <1>1, <2>1, <2>3 DEF Line
  <2>5. Ahead(Append(reactions[inflight], e) \o jobs, c, d)
    BY <1>3, <2>2, <2>4, AheadAfterInsert
  <2>6. Ahead(Line', c, d)
    BY <2>4, <2>5
  <2> QED
    BY <1>2, <2>1, <2>6 DEF Before, Ahead
<1> QED
  BY <1>4, <1>5 DEF Call, TestAndSet

\* The head of the queue of microtasks gets in, or goes from there to the end of
\* those that await the new promise: the same place of the line.
LEMMA ResumeKeepsOrder ==
    ASSUME LockInv, NEW e \in Caller, Resume(e),
           NEW c \in Caller, NEW d \in Caller, Before(c, d)
    PROVE  place'[d] # "fn" /\ (place'[c] # "fn" => Before(c, d)')
<1>1. /\ jobs # <<>> /\ e = Head(jobs) /\ jobs' = Tail(jobs) /\ jobs \in Seq(Caller)
      /\ place[d] \in {"awaiting", "resumed"} /\ place \in [Caller -> Place]
  BY LineWaits, LineShape DEF Resume, Before
<1>2. Ahead(Line, c, d)
  BY BeforeMeans
<1>3. CASE TakeLock(e)
  <2>1. inflight = NoPromise /\ inflight' = e /\ reactions' = reactions
        /\ place' = [place EXCEPT ![e] = "fn"]
    BY <1>3 DEF TakeLock
  <2>2. reactions[e] = <<>> /\ \A i, j \in DOMAIN jobs : jobs[i] = jobs[j] => i = j
    BY <2>1, LineShape, NoPromiseIsNoCaller DEF Lists
  <2>3. Line = jobs /\ Line' = <<>> \o Tail(jobs)
    BY <1>1, <2>1, <2>2 DEF Line
  <2>4. Line' = Tail(jobs)
    BY <1>1, <2>3, TailOfList
  <2>5. d # e /\ (c # e => Ahead(Tail(jobs), c, d))
    BY <1>1, <1>2, <2>2, <2>3, AheadAfterTail
  <2>6. c # e => Before(c, d)'
    BY <2>4, <2>5 DEF Before, Ahead
  <2>7. place'[d] # "fn" /\ place'[e] = "fn"
    BY <1>1, <2>1, <2>5
  <2> QED
    BY <2>6, <2>7
<1>4. CASE AwaitHolder(e)
  <2>1. /\ inflight # NoPromise /\ inflight' = inflight
        /\ reactions' = [reactions EXCEPT ![inflight] = Append(@, e)]
        /\ place' = [place EXCEPT ![e] = "awaiting"]
    BY <1>4 DEF AwaitHolder
  <2>2. inflight \in Caller /\ reactions[inflight] \in Seq(Caller)
    BY <2>1, LineShape
  <2>3. reactions'[inflight] = Append(reactions[inflight], e)
    BY <2>1, <2>2 DEF LockInv, LockTypeOK
  <2>4. /\ Line = reactions[inflight] \o jobs
        /\ Line' = Append(reactions[inflight], e) \o Tail(jobs)
    BY <1>1, <2>1, <2>3 DEF Line
  <2>5. \A p \in Seq(Caller), q \in Seq(Caller) :
           q # <<>> => Append(p, Head(q)) \o Tail(q) = p \o q
    OBVIOUS
  <2>6. Line' = Line
    BY <1>1, <2>2, <2>4, <2>5
  <2>7. place'[d] # "fn"
    BY <1>1, <2>1
  <2> QED
    BY <1>2, <2>6, <2>7 DEF Before, Ahead
<1> QED
  BY <1>3, <1>4 DEF Resume, TestAndSet

\* The line becomes the queue of microtasks.
LEMMA SettleKeepsOrder ==
    ASSUME LockInv, NEW e \in Caller, Settle(e),
           NEW c \in Caller, NEW d \in Caller, Before(c, d)
    PROVE  place'[d] # "fn" /\ Before(c, d)'
<1>1. /\ place[e] = "fn" /\ jobs = <<>> /\ inflight' = NoPromise /\ jobs' = reactions[e]
      /\ place' = [f \in Caller |-> IF f = e THEN "settled"
                                    ELSE IF \E i \in DOMAIN reactions[e] : reactions[e][i] = f
                                    THEN "resumed" ELSE place[f]]
  BY DEF Settle, Release
<1>2. inflight = e /\ inflight # NoPromise /\ reactions[e] \in Seq(Caller)
  BY <1>1, LineShape, NoPromiseIsNoCaller DEF LockInv, HolderHasEntry
<1>3. Line = reactions[e] \o <<>> /\ Line' = reactions[e]
  BY <1>1, <1>2 DEF Line
<1>4. Line' = Line
  BY <1>2, <1>3
<1>5. place'[d] # "fn"
  <2>1. place[d] # "fn"
    BY LineWaits DEF Before
  <2> QED
    BY <1>1, <2>1
<1> QED
  BY <1>4, <1>5 DEF Before

\* The loop of withLock lets its callers in one after the other, as they wait.
THEOREM WithLockIsFair == LockSpec => NoOvertaking
<1> DEFINE Step == \A c, d \in Caller :
                      Before(c, d) => /\ place'[d] # "fn"
                                      /\ place'[c] # "fn" => Before(c, d)'
<1>1. LockInv /\ [LockNext]_lockVars => [Step]_lockVars
  <2> SUFFICES ASSUME LockInv, LockNext, NEW c \in Caller, NEW d \in Caller, Before(c, d)
               PROVE  place'[d] # "fn" /\ (place'[c] # "fn" => Before(c, d)')
    OBVIOUS
  <2> QED
    BY CallKeepsOrder, ResumeKeepsOrder, SettleKeepsOrder DEF LockNext
<1> QED
  BY <1>1, WithLockInvariant, PTL DEF LockSpec, NoOvertaking
==============================================================================
