----------------------------- MODULE WalletViews -----------------------------
(***************************************************************************)
(* The by-wallet reads of one wallet: GET /public/policies/:wallet         *)
(* (getPoliciesByWallet, services/policies.ts), which joins the indexer's  *)
(* table with the cached catalogue of products, and GET /bonds/:wallet     *)
(* (getBondsByWallet, services/bonds.ts), which asks the chain.            *)
(*                                                                         *)
(* Answers are kept in makeCache (utils/cache.ts): a miss starts a fetch,  *)
(* whoever else is fetching, and its result is stored when it arrives,     *)
(* whatever was stored meanwhile.  Every answer is the live entry of a     *)
(* cache, so what is promised of answers is stated of live entries.        *)
(*                                                                         *)
(* Time is in ticks.                                                       *)
(***************************************************************************)
EXTENDS Integers

CONSTANTS
    Policy,     \* policies that the wallet may buy
    Product,
    ProductOf,  \* ProductOf[k]: the product of policy k
    Duration,   \* Duration[p]: the seconds of cover, which never change
    Epoch,      \* bonds
    Reader,     \* requests in flight together
    Nothing,    \* no entry, or a result that has not arrived
    DurationTtl,\* PRODUCT_DURATION_TTL_MS
    PolicyTtl,  \* POLICIES_BY_WALLET_TTL_MS
    BondTtl,    \* CACHE_TTL_MS of services/bonds.ts
    MaxTime,    \* bound on the clock
    MaxFaults   \* bound on the failed calls of a behaviour, and on the times that the
                \* indexer's schema is dropped

ASSUME WalletViewsAssumption ==
    /\ ProductOf \in [Policy -> Product]
    /\ Duration \in [Product -> Nat \ {0}]
    /\ DurationTtl \in Nat \ {0} /\ PolicyTtl \in Nat \ {0} /\ BondTtl \in Nat \ {0}
    /\ MaxTime \in Nat \ {0} /\ MaxFaults \in Nat
    /\ \A epochs \in SUBSET Epoch : epochs # Nothing

VARIABLES
    now,        \* the clock
    bought,     \* chain: when policy k was bought, 0 before it
    triggered,  \* chain: the policies that were triggered
    catalog,    \* chain: the products that listProducts returns
    held,       \* chain: the epochs of which the wallet has a balance
    table,      \* the indexer's table policy: "none", "active" or "triggered"
    outdated,   \* history: the fetches whose rows were read before it was dropped last
    durations,  \* cache: [data: the products of the map, until]
    policies,   \* cache: [data: the status of each policy, until, begun, late]
    bonds,      \* cache: [data: the epochs, until, begun, clean]
    pc,         \* pc[r]: "idle", "policies", "abandoned", "balances", "infos"
    rows,       \* rows[r]: the indexer's answer
    known,      \* known[r]: the products with a duration
    found,      \* found[r]: the epochs with a balance
    begun,      \* begun[r]: when the fetch began
    late,       \* history: late[r]: another fetch of the view stored since
    told,       \* history: the furthest status stored of each policy's row, as the
                \* present schema has it
    shortAt,    \* history: when a map without product p was last stored
    heldAt,     \* history: when epoch e was last held, and
    unheldAt,   \* when it was last not held
    clean,      \* history: clean[r]: no call of the fetch has failed
    faults

indexer == <<table, outdated>>
chain == <<bought, triggered, catalog, held, heldAt, unheldAt>>
caches == <<durations, policies, bonds, told, shortAt>>
readers == <<pc, rows, known, found, begun, late, clean>>
vars == <<now, chain, indexer, caches, readers, faults>>

Rank == [none |-> 0, active |-> 1, triggered |-> 2]

Init ==
    /\ now = 1
    /\ bought = [k \in Policy |-> 0] /\ triggered = {} /\ catalog = Product
    /\ held = {} /\ heldAt = [e \in Epoch |-> 0] /\ unheldAt = [e \in Epoch |-> 1]
    /\ table = [k \in Policy |-> "none"] /\ outdated = {}
    /\ durations = Nothing /\ policies = Nothing /\ bonds = Nothing
    /\ told = [k \in Policy |-> 0] /\ shortAt = [p \in Product |-> 0]
    /\ pc = [r \in Reader |-> "idle"]
    /\ rows = [r \in Reader |-> Nothing] /\ known = [r \in Reader |-> Nothing]
    /\ found = [r \in Reader |-> Nothing] /\ begun = [r \in Reader |-> 0]
    /\ late = [r \in Reader |-> FALSE] /\ clean = [r \in Reader |-> TRUE]
    /\ faults = 0

-----------------------------------------------------------------------------
(* The world *)

Tick ==
    /\ now < MaxTime
    /\ now' = now + 1
    /\ heldAt' = [e \in Epoch |-> IF e \in held THEN now + 1 ELSE heldAt[e]]
    /\ unheldAt' = [e \in Epoch |-> IF e \in held THEN unheldAt[e] ELSE now + 1]
    /\ UNCHANGED <<bought, triggered, catalog, held, indexer, caches, readers, faults>>

BuyPolicy ==
    /\ \E k \in Policy : bought[k] = 0 /\ bought' = [bought EXCEPT ![k] = now]
    /\ UNCHANGED <<now, triggered, catalog, held, heldAt, unheldAt, indexer, caches, readers, faults>>

Trigger ==
    /\ \E k \in Policy \ triggered : bought[k] > 0 /\ triggered' = triggered \cup {k}
    /\ UNCHANGED <<now, bought, catalog, held, heldAt, unheldAt, indexer, caches, readers, faults>>

\* A product is removed from the catalogue, or registered again.
CatalogChanges ==
    /\ \E p \in Product : catalog' = IF p \in catalog THEN catalog \ {p} ELSE catalog \cup {p}
    /\ UNCHANGED <<now, bought, triggered, held, heldAt, unheldAt, indexer, caches, readers, faults>>

BalanceChanges ==
    /\ \E e \in Epoch :
          IF e \in held
          THEN held' = held \ {e} /\ unheldAt' = [unheldAt EXCEPT ![e] = now] /\ UNCHANGED heldAt
          ELSE held' = held \cup {e} /\ heldAt' = [heldAt EXCEPT ![e] = now] /\ UNCHANGED unheldAt
    /\ UNCHANGED <<now, bought, triggered, catalog, indexer, caches, readers, faults>>

\* The handlers of PolicyPurchased and TriggerSubmitted.
Index ==
    /\ \E k \in Policy :
          \/ bought[k] > 0 /\ table[k] = "none" /\ table' = [table EXCEPT ![k] = "active"]
          \/ k \in triggered /\ table[k] = "active" /\ table' = [table EXCEPT ![k] = "triggered"]
    /\ UNCHANGED <<now, chain, outdated, caches, readers, faults>>

Fault == faults < MaxFaults /\ faults' = faults + 1

\* The indexer's supervisor drops the schema, and the handlers start over.  (Until
\* they do there is no table, and a query of it fails: QueryFails.)
DropSchema ==
    /\ Fault
    /\ table' = [k \in Policy |-> "none"]
    /\ outdated' = {r \in Reader : rows[r] # Nothing}
    /\ told' = [k \in Policy |-> 0]
    /\ UNCHANGED <<now, chain, durations, policies, bonds, shortAt, readers>>

-----------------------------------------------------------------------------
(* makeCache *)

\* Mutant: an entry is checked only for being there.
Present(entry) == entry # Nothing

Live(entry) == entry # Nothing /\ now < entry.until

\* get: an expired entry is deleted.
Pruned(entry) == IF Live(entry) THEN entry ELSE Nothing

-----------------------------------------------------------------------------
(* getPoliciesByWallet and getProductDurations *)

Fetching(r, what) ==
    /\ pc[r] = "idle"
    /\ pc' = [pc EXCEPT ![r] = what]
    /\ begun' = [begun EXCEPT ![r] = now]
    /\ late' = [late EXCEPT ![r] = FALSE]
    /\ clean' = [clean EXCEPT ![r] = TRUE]

\* A live entry is the answer.  Otherwise the table and, if it is not cached,
\* the catalogue are asked together.
ReadPolicies(r) ==
    /\ ~Live(policies)
    /\ Fetching(r, "policies")
    /\ policies' = Nothing
    /\ durations' = Pruned(durations)
    /\ known' = [known EXCEPT ![r] = IF Live(durations) THEN durations.data ELSE Nothing]
    /\ UNCHANGED <<now, chain, indexer, bonds, told, shortAt, rows, found, faults>>

RowsArrive(r) ==
    /\ pc[r] = "policies" /\ rows[r] = Nothing
    /\ rows' = [rows EXCEPT ![r] = table]
    /\ UNCHANGED <<now, chain, indexer, caches, pc, known, found, begun, late, clean, faults>>

\* Mutant: the listing of a fetch that has failed is still kept for its answer.
StoreForNobody(r, map) ==
    /\ pc[r] \in {"policies", "abandoned"} /\ known[r] = Nothing
    /\ durations' = [data |-> map, until |-> now + DurationTtl]
    /\ shortAt' = [p \in Product |-> IF p \in map THEN shortAt[p] ELSE now]
    /\ known' = [known EXCEPT ![r] = map]
    /\ pc' = [pc EXCEPT ![r] = IF @ = "policies" THEN @ ELSE "idle"]
    /\ UNCHANGED <<now, chain, indexer, policies, bonds, told, rows, found, begun, late, clean>>

\* The map is cached before anything else runs.
StoreDurations(r, map) ==
    /\ pc[r] \in {"policies", "abandoned"} /\ known[r] = Nothing
    /\ durations' = [data |-> map, until |-> now + DurationTtl]
    /\ shortAt' = [p \in Product |-> IF p \in map THEN shortAt[p] ELSE now]
    /\ known' = [known EXCEPT ![r] = IF pc[r] = "policies" THEN map ELSE Nothing]
    /\ pc' = [pc EXCEPT ![r] = IF @ = "policies" THEN @ ELSE "idle"]
    /\ UNCHANGED <<now, chain, indexer, policies, bonds, told, rows, found, begun, late, clean>>

ListingArrives(r) == StoreDurations(r, catalog) /\ UNCHANGED faults

\* listProducts fails: the empty map is stored like a full one.
ListingFails(r) == StoreDurations(r, {}) /\ Fault

\* Mutant: the failed query counts as an answer without rows.
QueryFailsEmpty(r) ==
    /\ Fault
    /\ pc[r] = "policies" /\ rows[r] = Nothing
    /\ rows' = [rows EXCEPT ![r] = [k \in Policy |-> "none"]]
    /\ UNCHANGED <<now, chain, indexer, caches, pc, known, found, begun, late, clean>>

\* The query of the table fails: an error.  The listing, if it is under way,
\* goes on for nobody but the cache.
QueryFails(r) ==
    /\ Fault
    /\ pc[r] = "policies" /\ rows[r] = Nothing
    /\ pc' = [pc EXCEPT ![r] = IF known[r] = Nothing THEN "abandoned" ELSE "idle"]
    /\ known' = [known EXCEPT ![r] = Nothing]
    /\ UNCHANGED <<now, chain, indexer, caches, rows, found, begun, late, clean>>

Expiry(k) == bought[k] + Duration[ProductOf[k]]

\* Mutant: the time is taken when the fetch begins.
StatusAsOfFetch(r, k) ==
    CASE rows[r][k] = "none" -> "absent"
      [] rows[r][k] = "triggered" -> "triggered"
      [] rows[r][k] = "active" ->
           IF ProductOf[k] \notin known[r] \/ begun[r] >= Expiry(k) THEN "expired" ELSE "active"

Status(r, k) ==
    CASE rows[r][k] = "none" -> "absent"
      [] rows[r][k] = "triggered" -> "triggered"
      [] rows[r][k] = "active" ->
           IF ProductOf[k] \notin known[r] \/ now >= Expiry(k) THEN "expired" ELSE "active"

\* Other fetches of the view that are in flight when r stores are late.
LateBut(r, phases) == [q \in Reader |-> IF q # r /\ pc[q] \in phases THEN TRUE ELSE late[q]]

\* Both have arrived: compute the statuses, store, answer.
Assemble(r) ==
    /\ pc[r] = "policies" /\ rows[r] # Nothing /\ known[r] # Nothing
    /\ policies' = [data |-> [k \in Policy |-> Status(r, k)], until |-> now + PolicyTtl,
                    begun |-> begun[r], late |-> late[r]]
    /\ told' = [k \in Policy |->
                  IF r \notin outdated /\ Rank[rows[r][k]] > told[k] THEN Rank[rows[r][k]] ELSE told[k]]
    /\ late' = LateBut(r, {"policies"})
    /\ outdated' = outdated \ {r}
    /\ pc' = [pc EXCEPT ![r] = "idle"]
    /\ rows' = [rows EXCEPT ![r] = Nothing] /\ known' = [known EXCEPT ![r] = Nothing]
    /\ UNCHANGED <<now, chain, table, durations, bonds, shortAt, found, begun, clean, faults>>

-----------------------------------------------------------------------------
(* getBondsByWallet *)

ReadBonds(r) ==
    /\ ~Live(bonds)
    /\ Fetching(r, "balances")
    /\ bonds' = Nothing
    /\ UNCHANGED <<now, chain, indexer, durations, policies, told, shortAt, rows, known, found, faults>>

\* Mutant: the epochs without a balance are not dropped.
BalancesOfAll(r, epochs) ==
    /\ pc[r] = "balances"
    /\ found' = [found EXCEPT ![r] = Epoch]
    /\ pc' = [pc EXCEPT ![r] = "infos"]
    /\ UNCHANGED <<now, chain, indexer, caches, rows, known, begun, late>>

\* Only the epochs with a balance are looked at further.
Balances(r, epochs) ==
    /\ pc[r] = "balances"
    /\ found' = [found EXCEPT ![r] = epochs]
    /\ pc' = [pc EXCEPT ![r] = "infos"]
    /\ UNCHANGED <<now, chain, indexer, caches, rows, known, begun, late>>

\* balanceOfBatch
BalancesArrive(r) == Balances(r, held) /\ UNCHANGED <<clean, faults>>

\* balanceOfBatch fails, and so may the calls of single epochs: no balance.
BatchFails(r) ==
    /\ Fault
    /\ clean' = [clean EXCEPT ![r] = FALSE]
    /\ \E epochs \in SUBSET held : Balances(r, epochs)

StoreBonds(r, epochs, ok) ==
    /\ pc[r] = "infos"
    /\ bonds' = [data |-> epochs, until |-> now + BondTtl, begun |-> begun[r], clean |-> ok]
    /\ pc' = [pc EXCEPT ![r] = "idle"]
    /\ found' = [found EXCEPT ![r] = Nothing]
    /\ UNCHANGED <<now, chain, indexer, durations, policies, told, shortAt, rows, known, begun, late, clean>>

InfosArrive(r) == StoreBonds(r, found[r], clean[r]) /\ UNCHANGED faults

\* buildBondInfo fails for some epochs, which are left out.
InfosFail(r) ==
    /\ Fault
    /\ pc[r] = "infos"
    /\ \E epochs \in SUBSET found[r] : StoreBonds(r, epochs, FALSE)

-----------------------------------------------------------------------------

World == Tick \/ BuyPolicy \/ Trigger \/ CatalogChanges \/ BalanceChanges \/ Index

Serve(r) ==
    \/ ReadPolicies(r) \/ RowsArrive(r) \/ ListingArrives(r) \/ ListingFails(r)
    \/ QueryFails(r) \/ Assemble(r)
    \/ ReadBonds(r) \/ BalancesArrive(r) \/ BatchFails(r) \/ InfosArrive(r) \/ InfosFail(r)

Next == World \/ DropSchema \/ \E r \in Reader : Serve(r)

Spec == Init /\ [][Next]_vars

-----------------------------------------------------------------------------
(* Properties *)

Time == 0..MaxTime
Statuses == {"absent", "active", "expired", "triggered"}

TypeOK ==
    /\ now \in Time
    /\ bought \in [Policy -> Time] /\ triggered \subseteq Policy
    /\ catalog \subseteq Product /\ held \subseteq Epoch
    /\ heldAt \in [Epoch -> Time] /\ unheldAt \in [Epoch -> Time]
    /\ table \in [Policy -> {"none", "active", "triggered"}]
    /\ outdated \subseteq Reader
    /\ durations = Nothing \/ durations \in [data : SUBSET Product, until : Nat]
    /\ policies = Nothing \/ policies \in
          [data : [Policy -> Statuses], until : Nat, begun : Time, late : BOOLEAN]
    /\ bonds = Nothing \/ bonds \in
          [data : SUBSET Epoch, until : Nat, begun : Time, clean : BOOLEAN]
    /\ told \in [Policy -> 0..2] /\ shortAt \in [Product -> Time]
    /\ pc \in [Reader -> {"idle", "policies", "abandoned", "balances", "infos"}]
    /\ rows \in [Reader -> {Nothing} \cup [Policy -> {"none", "active", "triggered"}]]
    /\ known \in [Reader -> {Nothing} \cup SUBSET Product]
    /\ found \in [Reader -> {Nothing} \cup SUBSET Epoch]
    /\ begun \in [Reader -> Time]
    /\ late \in [Reader -> BOOLEAN] /\ clean \in [Reader -> BOOLEAN]
    /\ faults \in 0..MaxFaults

\* The variables that a phase uses.
InPhase ==
    \A r \in Reader :
        /\ (rows[r] # Nothing \/ known[r] # Nothing) => pc[r] = "policies"
        /\ found[r] # Nothing <=> pc[r] = "infos"
        /\ r \in outdated => rows[r] # Nothing

\* The rows that a fetch holds are behind the table, unless that was dropped since,
\* and, unless the fetch was overtaken, not behind what was stored before.
InOrder ==
    \A r \in Reader : rows[r] # Nothing => \A k \in Policy :
        /\ r \notin outdated => Rank[rows[r][k]] <= Rank[table[k]]
        /\ ~late[r] => told[k] <= Rank[rows[r][k]]

\* The invariant of the fetches in flight: types, phases, and their order.
ViewInv == TypeOK /\ InPhase /\ InOrder

\* A policy is never shown as active later than one TTL after it expired,
\* however slow the fetch was and however the fetches raced.
ActiveIsTimely ==
    \A k \in Policy :
        Live(policies) /\ policies.data[k] = "active" => now < Expiry(k) + PolicyTtl

\* A policy that is shown as expired has expired, or its product was missing
\* from a catalogue stored at most one DurationTtl before the fetch began: a
\* failed listing is believed for that long, and no longer.
ExpiredIsExplained ==
    \A k \in Policy :
        Live(policies) /\ policies.data[k] = "expired" /\ now < Expiry(k) =>
            /\ shortAt[ProductOf[k]] > 0
            /\ policies.begun < shortAt[ProductOf[k]] + DurationTtl

\* But for a schema that is dropped, which takes everything back until it is
\* indexed anew, only a fetch that was overtaken by another takes anything back:
\* otherwise a policy once shown stays, and a triggered one stays triggered.  (What
\* a fetch shows that read the table before the drop may be taken back too.)
ForwardUnlessOvertaken ==
    Live(policies) /\ ~policies.late =>
        \A k \in Policy :
            /\ told[k] >= 1 => policies.data[k] # "absent"
            /\ told[k] = 2 => policies.data[k] = "triggered"

\* A bond that is shown was held, and one that is not, after calls that all
\* succeeded, was not, at some time since the fetch began, which is at most
\* the duration of the fetch and one TTL ago.
BondsAreRecent ==
    Live(bonds) => \A e \in Epoch :
        /\ e \in bonds.data => bonds.begun <= heldAt[e]
        /\ e \notin bonds.data /\ bonds.clean => bonds.begun <= unheldAt[e]
==============================================================================
