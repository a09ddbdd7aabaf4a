-------------------------------- MODULE MCReads --------------------------------
(***************************************************************************)
(* The read endpoints: the cached views of one wallet (WalletViews) and    *)
(* the reads of the indexer's tables (Ledger).                             *)
(*                                                                         *)
(* They share nothing, and within each of them neither do a wallet's       *)
(* policies and its bonds, or the bonds, the burns and the policies of the *)
(* indexer, so that a behaviour of two tells nothing that the behaviours   *)
(* of either do not: only one of the modules moves, and OneTopic keeps to  *)
(* the behaviours of one subject.                                          *)
(***************************************************************************)
EXTENDS WalletViews, TLC

CONSTANTS k1, p1, Holder, Zero, StartBlock, Window, MaxLag, LastTime, MaxBlocks, MaxRestarts

VARIABLES clock, mined, log, handled, synced, ledger, policy, flipped, asked, cutoff, part,
          reach, grown, waited, shaken, restarts

MCProductOf == k1 :> p1
MCDuration == p1 :> 2

ledgerVars ==
    <<clock, mined, log, handled, synced, ledger, policy, flipped, asked, cutoff, part, reach,
      grown, waited, shaken, restarts>>

L == INSTANCE Ledger WITH now <- clock, rows <- ledger, MaxTime <- LastTime, Unread <- Nothing

ASSUME ReadsAssumption == L!LedgerAssumption

ReadsInit == Init /\ L!Init

LedgerAtRest == mined = 0 /\ clock = 0 /\ asked = "none" /\ restarts = 0

ReadsNext ==
    \/ LedgerAtRest /\ Next /\ UNCHANGED ledgerVars
    \/ Init /\ L!Next /\ UNCHANGED vars

ReadsSpec == ReadsInit /\ [][ReadsNext]_<<vars, ledgerVars>>

\* At rest the ledger is as in its initial state, where all three hold.
LedgerInv == LedgerAtRest \/ L!LedgerInv
PartsAddUp == L!PartsAddUp
HealthIsHonest == L!HealthIsHonest

PoliciesAtRest ==
    /\ bought[k1] = 0 /\ catalog = Product
    /\ policies = Nothing /\ durations = Nothing
    /\ \A r \in Reader : pc[r] \notin {"policies", "abandoned"}

BondsAtRest ==
    /\ held = {} /\ \A e \in Epoch : heldAt[e] = 0
    /\ bonds = Nothing
    /\ \A r \in Reader : pc[r] \notin {"balances", "infos"}

LogOf(kinds) == \A n \in DOMAIN log : log[n].kind \in kinds

OneTopic ==
    /\ PoliciesAtRest \/ BondsAtRest
    /\ \/ LogOf({"transfer", "issued", "redeemed"}) /\ asked = "none" /\ clock = 0
       \/ LogOf({"burn"}) /\ asked \in {"none", "burns"} /\ synced = 0 /\ mined <= 3
       \/ LogOf({"policy", "trigger"}) /\ asked \in {"none", "protocol"} /\ clock = 0 /\ mined <= 3
       \/ LogOf({"burn", "policy"}) /\ asked \in {"none", "health"} /\ clock = 0 /\ mined <= 3

Symmetry == Permutations(Reader)
==============================================================================
