---------------------------- MODULE MCReads_proofs ----------------------------
(***************************************************************************)
(* The read endpoints, for any number of policies, bonds, holders, blocks  *)
(* and requests, and any TTLs.                                             *)
(*                                                                         *)
(* WalletViews: what a live entry says is inductive once it is known of    *)
(* the answers that a fetch has in hand (Fetched) and of what was stored   *)
(* (..Stored), with the times at which they were true.                     *)
(*                                                                         *)
(* Ledger: the rows are the legs of the indexed events one to one, since   *)
(* their keys differ; no holder's balance is negative, nor was it at the   *)
(* start block; what the checkpoint covers is in the tables; and a query   *)
(* that was answered lies within what was handled since.                   *)
(***************************************************************************)
EXTENDS MCReads, FiniteSetTheorems, SequenceTheorems, TLAPS

RowsType == [Policy -> {"none", "active", "triggered"}]

WorldTypes ==
    /\ now \in Time
    /\ bought \in [Policy -> Time] /\ triggered \subseteq Policy
    /\ catalog \subseteq Product /\ held \subseteq Epoch
    /\ heldAt \in [Epoch -> Time] /\ unheldAt \in [Epoch -> Time]
    /\ table \in RowsType

CacheTypes ==
    /\ durations = Nothing \/ durations \in [data : SUBSET Product, until : Nat]
    /\ policies = Nothing \/ policies \in
          [data : [Policy -> Statuses], until : Nat, begun : Time, late : BOOLEAN]
    /\ bonds = Nothing \/ bonds \in
          [data : SUBSET Epoch, until : Nat, begun : Time, clean : BOOLEAN]
    /\ told \in [Policy -> 0..2] /\ shortAt \in [Product -> Time]

ReaderTypes ==
    /\ pc \in [Reader -> {"idle", "policies", "abandoned", "balances", "infos"}]
    /\ rows \in [Reader -> {Nothing} \cup RowsType]
    /\ known \in [Reader -> {Nothing} \cup SUBSET Product]
    /\ found \in [Reader -> {Nothing} \cup SUBSET Epoch]
    /\ begun \in [Reader -> Time]
    /\ late \in [Reader -> BOOLEAN] /\ clean \in [Reader -> BOOLEAN]
    /\ outdated \subseteq Reader

LEMMA TypesMean ==
    TypeOK <=> WorldTypes /\ CacheTypes /\ ReaderTypes /\ faults \in 0..MaxFaults
BY DEF TypeOK, WorldTypes, CacheTypes, ReaderTypes, RowsType

LEMMA WorldTypesStep ==
    ASSUME TypeOK, World
    PROVE  WorldTypes' /\ UNCHANGED <<caches, readers, outdated, faults>>
<1> USE TypesMean, WalletViewsAssumption DEF WorldTypes, Time, indexer
<1>1. CASE Tick
  <2>1. now' \in Time
    BY <1>1 DEF Tick
  <2>2. heldAt' \in [Epoch -> Time] /\ unheldAt' \in [Epoch -> Time]
    BY <1>1, <2>1 DEF Tick
  <2> QED BY <1>1, <2>1, <2>2 DEF Tick
<1>2. CASE BuyPolicy
  BY <1>2 DEF BuyPolicy
<1>3. CASE Trigger
  BY <1>3 DEF Trigger
<1>4. CASE CatalogChanges
  BY <1>4 DEF CatalogChanges
<1>5. CASE BalanceChanges
  BY <1>5 DEF BalanceChanges
<1>6. CASE Index
  BY <1>6 DEF Index, chain, RowsType
<1> QED BY <1>1, <1>2, <1>3, <1>4, <1>5, <1>6 DEF World

LEMMA ServeTypesStep ==
    ASSUME TypeOK, InPhase, NEW r \in Reader, Serve(r)
    PROVE  CacheTypes' /\ ReaderTypes' /\ faults' \in 0..MaxFaults /\ UNCHANGED <<now, chain, table>>
<1> USE TypesMean, WalletViewsAssumption DEF indexer
<1>1. CASE ReadPolicies(r)
  BY <1>1 DEF ReadPolicies, Fetching, Pruned, Live, CacheTypes, ReaderTypes, WorldTypes
<1>2. CASE RowsArrive(r)
  BY <1>2 DEF RowsArrive, caches, CacheTypes, ReaderTypes, WorldTypes
<1>3. CASE ListingArrives(r) \/ ListingFails(r)
  BY <1>3 DEF ListingArrives, ListingFails, StoreDurations, Fault, Time, CacheTypes,
        ReaderTypes, WorldTypes
<1>4. CASE QueryFails(r)
  BY <1>4 DEF QueryFails, Fault, caches, CacheTypes, ReaderTypes
<1>5. CASE Assemble(r)
  <2>1. rows[r] \in RowsType /\ known[r] \in SUBSET Product
    BY <1>5 DEF Assemble, ReaderTypes
  <2>2. \A k \in Policy : Status(r, k) \in Statuses
    BY <2>1 DEF Status, Statuses, RowsType
  <2>3. now + PolicyTtl \in Nat /\ begun[r] \in Time /\ late[r] \in BOOLEAN
    BY DEF WorldTypes, ReaderTypes, Time
  <2>4. policies' \in [data : [Policy -> Statuses], until : Nat, begun : Time, late : BOOLEAN]
    BY <1>5, <2>2, <2>3 DEF Assemble
  <2>5. \A k \in Policy : Rank[rows[r][k]] \in 0..2
    BY <2>1 DEF Rank, RowsType
  <2>6. told' \in [Policy -> 0..2]
    BY <1>5, <2>5 DEF Assemble, CacheTypes
  <2>7. CacheTypes'
    BY <1>5, <2>4, <2>6 DEF Assemble, CacheTypes
  <2>8. late' \in [Reader -> BOOLEAN]
    BY <1>5 DEF Assemble, LateBut, ReaderTypes
  <2>9. ReaderTypes'
    BY <1>5, <2>8 DEF Assemble, ReaderTypes
  <2> QED BY <1>5, <2>7, <2>9 DEF Assemble
<1>6. CASE ReadBonds(r)
  BY <1>6 DEF ReadBonds, Fetching, CacheTypes, ReaderTypes, WorldTypes
<1>7. CASE BalancesArrive(r)
  BY <1>7 DEF BalancesArrive, Balances, caches, CacheTypes, ReaderTypes, WorldTypes
<1>8. CASE BatchFails(r)
  BY <1>8 DEF BatchFails, Balances, Fault, caches, CacheTypes, ReaderTypes, WorldTypes
<1>9. ASSUME NEW epochs \in SUBSET Epoch, NEW ok \in BOOLEAN, StoreBonds(r, epochs, ok)
      PROVE  CacheTypes' /\ ReaderTypes' /\ UNCHANGED <<now, chain, table>>
  <2>1. now + BondTtl \in Nat /\ begun[r] \in Time
    BY DEF WorldTypes, ReaderTypes, Time
  <2>2. bonds' \in [data : SUBSET Epoch, until : Nat, begun : Time, clean : BOOLEAN]
    BY <1>9, <2>1 DEF StoreBonds
  <2>3. CacheTypes'
    BY <1>9, <2>2 DEF StoreBonds, CacheTypes
  <2>4. ReaderTypes'
    BY <1>9 DEF StoreBonds, ReaderTypes
  <2> QED BY <1>9, <2>3, <2>4 DEF StoreBonds
<1>10. CASE InfosArrive(r) \/ InfosFail(r)
  <2>1. ASSUME pc[r] = "infos" PROVE found[r] \in SUBSET Epoch
    BY <2>1 DEF ReaderTypes, InPhase
  <2>2. CASE InfosArrive(r)
    <3>1. clean[r] \in BOOLEAN
      BY DEF ReaderTypes
    <3> QED BY <1>9, <2>1, <2>2, <3>1 DEF InfosArrive, StoreBonds
  <2>3. CASE InfosFail(r)
    <3>1. PICK epochs \in SUBSET found[r] : StoreBonds(r, epochs, FALSE)
      BY <2>3 DEF InfosFail
    <3>2. epochs \in SUBSET Epoch
      BY <2>1, <3>1 DEF StoreBonds
    <3>3. faults' \in 0..MaxFaults
      BY <2>3 DEF InfosFail, Fault
    <3> QED BY <1>9, <3>1, <3>2, <3>3
  <2> QED BY <1>10, <2>2, <2>3
<1> QED BY <1>1, <1>2, <1>3, <1>4, <1>5, <1>6, <1>7, <1>8, <1>9, <1>10 DEF Serve

LEMMA TypesStep ==
    ASSUME TypeOK, InPhase, [Next]_vars
    PROVE  TypeOK'
<1>1. CASE World
  BY <1>1, WorldTypesStep, TypesMean DEF caches, readers, CacheTypes, ReaderTypes, TypeOK,
       WorldTypes, RowsType
<1>2. ASSUME NEW r \in Reader, Serve(r) PROVE TypeOK'
  BY <1>2, ServeTypesStep, TypesMean DEF chain, TypeOK, WorldTypes, CacheTypes, ReaderTypes, RowsType
<1>3. CASE DropSchema
  <2>1. /\ UNCHANGED <<now, chain, durations, policies, bonds, shortAt, readers>>
        /\ faults' = faults + 1 /\ faults < MaxFaults
        /\ table' = [k \in Policy |-> "none"] /\ told' = [k \in Policy |-> 0]
        /\ outdated' = {r \in Reader : rows[r] # Nothing}
    BY <1>3 DEF DropSchema, Fault
  <2>2. WorldTypes'
    BY <2>1, TypesMean DEF chain, WorldTypes, RowsType
  <2>3. CacheTypes'
    BY <2>1, TypesMean DEF CacheTypes
  <2>4. ReaderTypes'
    BY <2>1, TypesMean DEF readers, ReaderTypes
  <2>5. faults' \in 0..MaxFaults
    BY <2>1, TypesMean, WalletViewsAssumption
  <2> QED BY <2>2, <2>3, <2>4, <2>5 DEF TypeOK, WorldTypes, CacheTypes, ReaderTypes, RowsType
<1>4. CASE UNCHANGED vars
  BY <1>4 DEF vars, chain, indexer, caches, readers, TypeOK
<1> QED BY <1>1, <1>2, <1>3, <1>4 DEF Next

-----------------------------------------------------------------------------

\* The rows, of whatever schema, are of policies that were bought.
RowsBought(answer) == \A k \in Policy : answer[k] # "none" => bought[k] > 0

\* What the world has been: the table follows the chain, what was stored follows
\* the table, and nothing is dated in the future.
History ==
    /\ now > 0
    /\ \A r \in Reader : begun[r] <= now
    /\ \A p \in Product : shortAt[p] <= now
    /\ \A e \in Epoch : heldAt[e] <= now /\ unheldAt[e] <= now
    /\ \A e \in Epoch : IF e \in held THEN heldAt[e] = now ELSE unheldAt[e] = now
    /\ \A k \in Policy : table[k] # "none" => bought[k] > 0
    /\ \A k \in Policy : told[k] <= Rank[table[k]]
    /\ \A r \in Reader : rows[r] # Nothing => RowsBought(rows[r])

\* A map without product p was stored, and was still alive at time t.
Explained(p, t) == shortAt[p] > 0 /\ t < shortAt[p] + DurationTtl

\* Epoch e was seen held, or not, at time t or later.
Seen(e, epochs, t, all) ==
    /\ e \in epochs => t <= heldAt[e]
    /\ e \notin epochs /\ all => t <= unheldAt[e]

\* What the fetches have in hand.
Fetched ==
    \A r \in Reader :
        /\ known[r] # Nothing => \A p \in Product \ known[r] : Explained(p, begun[r])
        /\ found[r] # Nothing => \A e \in Epoch : Seen(e, found[r], begun[r], clean[r])

\* What the caches hold, dead or alive.
DurationsStored ==
    durations # Nothing => \A p \in Product \ durations.data : Explained(p, durations.until - 1)

PoliciesStored ==
    policies # Nothing => \A k \in Policy :
        /\ policies.data[k] = "active" => policies.until < Expiry(k) + PolicyTtl
        /\ policies.data[k] = "expired" =>
              bought[k] > 0 /\ (Expiry(k) <= now \/ Explained(ProductOf[k], policies.begun))
        /\ ~policies.late =>
              /\ told[k] >= 1 => policies.data[k] # "absent"
              /\ told[k] = 2 => policies.data[k] = "triggered"

BondsStored ==
    bonds # Nothing => \A e \in Epoch : Seen(e, bonds.data, bonds.begun, bonds.clean)

ViewIInv ==
    /\ TypeOK /\ InPhase /\ InOrder
    /\ History /\ Fetched
    /\ DurationsStored /\ PoliciesStored /\ BondsStored

\* The clock and the dates only go on, and a purchase is dated once.
Later ==
    /\ now <= now'
    /\ \A e \in Epoch : heldAt[e] <= heldAt'[e] /\ unheldAt[e] <= unheldAt'[e]
    /\ \A k \in Policy : bought[k] <= bought'[k] /\ (bought[k] > 0 => bought'[k] = bought[k])
    /\ \A p \in Product : shortAt[p] <= shortAt'[p]

\* So do the rows of the indexer, but for a schema that is dropped.
TableGrows ==
    \A k \in Policy : Rank[table[k]] <= Rank[table'[k]] /\ Rank[table[k]] \in 0..2
                      /\ Rank[table'[k]] \in 0..2

\* A balance of the owner changes.
LEMMA BalanceGoesOn ==
    ASSUME ViewIInv, BalanceChanges
    PROVE  Later /\ TableGrows /\ History' /\ UNCHANGED <<caches, readers, outdated>>
<1>1. PICK e \in Epoch :
        IF e \in held
        THEN held' = held \ {e} /\ unheldAt' = [unheldAt EXCEPT ![e] = now] /\ UNCHANGED heldAt
        ELSE held' = held \cup {e} /\ heldAt' = [heldAt EXCEPT ![e] = now] /\ UNCHANGED unheldAt
  BY DEF BalanceChanges
<1>2. UNCHANGED <<now, bought, triggered, catalog, table, outdated, caches, readers>>
  BY DEF BalanceChanges, indexer
<1>3. TypeOK /\ History
  BY DEF ViewIInv
<1>4. heldAt \in [Epoch -> Time] /\ unheldAt \in [Epoch -> Time] /\ now \in Time
  BY <1>3 DEF TypeOK
<1>5. now \in Nat /\ \A x \in Epoch : heldAt[x] \in Nat /\ unheldAt[x] \in Nat
  BY <1>4, WalletViewsAssumption DEF Time
<1>6. \A x \in Epoch : /\ heldAt[x] <= now /\ unheldAt[x] <= now
                      /\ IF x \in held THEN heldAt[x] = now ELSE unheldAt[x] = now
  BY <1>3 DEF History
<1>7. \A x \in Epoch : /\ heldAt[x] <= heldAt'[x] /\ unheldAt[x] <= unheldAt'[x]
                      /\ heldAt'[x] <= now /\ unheldAt'[x] <= now
                      /\ IF x \in held' THEN heldAt'[x] = now ELSE unheldAt'[x] = now
  <2>1. CASE e \in held
    <3>1. \A x \in Epoch : heldAt'[x] = heldAt[x] /\ unheldAt'[x] = IF x = e THEN now ELSE unheldAt[x]
      BY <1>1, <1>4, <2>1
    <3>2. held' = held \ {e}
      BY <1>1, <2>1
    <3> QED BY <1>5, <1>6, <3>1, <3>2
  <2>2. CASE e \notin held
    <3>1. \A x \in Epoch : unheldAt'[x] = unheldAt[x] /\ heldAt'[x] = IF x = e THEN now ELSE heldAt[x]
      BY <1>1, <1>4, <2>2
    <3>2. held' = held \cup {e}
      BY <1>1, <2>2
    <3> QED BY <1>5, <1>6, <3>1, <3>2
  <2> QED BY <2>1, <2>2
<1>8. Later /\ TableGrows
  <2>1. now' = now /\ bought' = bought /\ table' = table /\ shortAt' = shortAt
    BY <1>2 DEF caches
  <2>2. /\ \A k \in Policy : bought[k] \in Nat /\ Rank[table[k]] \in 0..2
        /\ \A p \in Product : shortAt[p] \in Nat
    BY <1>3, WalletViewsAssumption DEF TypeOK, Time, Rank
  <2> QED BY <1>5, <1>7, <2>1, <2>2 DEF Later, TableGrows
<1>9. History'
  <2>1. /\ now' = now /\ bought' = bought /\ table' = table /\ shortAt' = shortAt
        /\ told' = told /\ begun' = begun /\ rows' = rows
    BY <1>2 DEF caches, readers
  <2>2. /\ now > 0 /\ \A r \in Reader : begun[r] <= now
        /\ \A p \in Product : shortAt[p] <= now
        /\ \A k \in Policy : table[k] # "none" => bought[k] > 0
        /\ \A k \in Policy : told[k] <= Rank[table[k]]
        /\ \A r \in Reader : rows[r] # Nothing => RowsBought(rows[r])
    BY <1>3 DEF History
  <2> QED BY <1>7, <2>1, <2>2 DEF History, RowsBought
<1> QED BY <1>2, <1>8, <1>9

\* A handler of the indexer writes the status of a policy.
LEMMA IndexGoesOn ==
    ASSUME ViewIInv, Index
    PROVE  Later /\ TableGrows /\ History' /\ UNCHANGED <<caches, readers, outdated>>
<1>1. PICK k \in Policy :
        \/ bought[k] > 0 /\ table[k] = "none" /\ table' = [table EXCEPT ![k] = "active"]
        \/ k \in triggered /\ table[k] = "active" /\ table' = [table EXCEPT ![k] = "triggered"]
  BY DEF Index
<1>2. UNCHANGED <<now, chain, outdated, caches, readers>>
  BY DEF Index
<1>3. TypeOK /\ History
  BY DEF ViewIInv
<1>4. /\ now' = now /\ bought' = bought /\ shortAt' = shortAt /\ told' = told /\ begun' = begun
      /\ rows' = rows /\ held' = held /\ heldAt' = heldAt /\ unheldAt' = unheldAt
  BY <1>2 DEF chain, caches, readers
<1>5. table \in [Policy -> {"none", "active", "triggered"}]
  BY <1>3 DEF TypeOK
<1>6. Rank["none"] = 0 /\ Rank["active"] = 1 /\ Rank["triggered"] = 2
  BY DEF Rank
<1> HIDE DEF Rank
<1>7. ASSUME NEW x \in Policy
      PROVE  /\ Rank[table[x]] <= Rank[table'[x]]
             /\ Rank[table[x]] \in 0..2 /\ Rank[table'[x]] \in 0..2
             /\ table'[x] # "none" => bought[x] > 0
             /\ told[x] <= Rank[table'[x]]
  <2>1. \/ table'[x] = table[x]
        \/ bought[x] > 0 /\ table[x] = "none" /\ table'[x] = "active"
        \/ table[x] = "active" /\ table'[x] = "triggered"
    BY <1>1, <1>5
  <2>2. table[x] \in {"none", "active", "triggered"}
    BY <1>5
  <2>3. told[x] \in Int /\ (table[x] # "none" => bought[x] > 0) /\ told[x] <= Rank[table[x]]
    BY <1>3 DEF TypeOK, History
  <2>4. Rank[table[x]] \in 0..2 /\ Rank[table'[x]] \in 0..2 /\ Rank[table[x]] <= Rank[table'[x]]
    BY <1>6, <2>1, <2>2
  <2>5. told[x] <= Rank[table'[x]]
    BY <2>3, <2>4
  <2>6. table'[x] # "none" => bought[x] > 0
    BY <2>1, <2>3
  <2> QED BY <2>4, <2>5, <2>6
<1>8. Later /\ TableGrows
  <2>1. now \in Nat
    BY <1>3, WalletViewsAssumption DEF TypeOK, Time
  <2>2. \A x \in Epoch : heldAt[x] \in Nat /\ unheldAt[x] \in Nat
    BY <1>3, WalletViewsAssumption DEF TypeOK, Time
  <2>3. \A x \in Policy : bought[x] \in Nat
    BY <1>3, WalletViewsAssumption DEF TypeOK, Time
  <2>4. \A x \in Product : shortAt[x] \in Nat
    BY <1>3, WalletViewsAssumption DEF TypeOK, Time
  <2>5. \A x \in Policy : /\ Rank[table[x]] <= Rank[table'[x]]
                         /\ Rank[table[x]] \in 0..2 /\ Rank[table'[x]] \in 0..2
    BY <1>7
  <2> QED BY <1>4, <2>1, <2>2, <2>3, <2>4, <2>5 DEF Later, TableGrows
<1>9. History'
  <2>1. \A x \in Policy : table'[x] # "none" => bought'[x] > 0
    BY <1>4, <1>7
  <2>2. \A x \in Policy : told'[x] <= Rank[table'[x]]
    BY <1>4, <1>7
  <2> QED BY <1>3, <1>4, <2>1, <2>2 DEF History, RowsBought
<1> QED BY <1>2, <1>8, <1>9

LEMMA WorldGoesOn ==
    ASSUME ViewIInv, World
    PROVE  Later /\ TableGrows /\ History' /\ UNCHANGED <<caches, readers, outdated>>
<1> USE WalletViewsAssumption DEF ViewIInv, TypeOK, History, RowsBought, Later, TableGrows, Time, Rank, indexer, caches, readers
<1>1. CASE Tick
  BY SMTT(30), <1>1 DEF Tick
<1>2. CASE BuyPolicy
  BY SMTT(30), <1>2 DEF BuyPolicy
<1>3. CASE Trigger
  BY <1>3 DEF Trigger
<1>4. CASE CatalogChanges
  BY <1>4 DEF CatalogChanges
<1>5. CASE BalanceChanges
  BY <1>5, BalanceGoesOn
<1>6. CASE Index
  BY <1>6, IndexGoesOn
<1> QED BY <1>1, <1>2, <1>3, <1>4, <1>5, <1>6 DEF World

\* What was explained, or seen, stays so.
LEMMA StaysExplained ==
    ASSUME TypeOK, TypeOK', Later, NEW p \in Product, NEW t \in Int, Explained(p, t)
    PROVE  Explained(p, t)'
BY WalletViewsAssumption DEF Explained, Later, TypeOK, Time

LEMMA StaysSeen ==
    ASSUME TypeOK, TypeOK', Later, NEW e \in Epoch, NEW epochs, NEW t \in Time, NEW all,
           Seen(e, epochs, t, all)
    PROVE  Seen(e, epochs, t, all)'
BY DEF Seen, Later, TypeOK, Time

LEMMA ExpiryGrows ==
    ASSUME TypeOK, TypeOK', Later, NEW k \in Policy
    PROVE  /\ Expiry(k) \in Int /\ Expiry(k)' \in Int /\ Expiry(k) <= Expiry(k)'
           /\ bought[k] > 0 => Expiry(k)' = Expiry(k)
BY WalletViewsAssumption DEF Expiry, Later, TypeOK, Time

\* What is left alone stays true of the later world.
LEMMA FetchStands ==
    ASSUME TypeOK, TypeOK', Fetched, Later, NEW r \in Reader,
           known'[r] = known[r] \/ known'[r] = Nothing,
           found'[r] = found[r] \/ found'[r] = Nothing,
           begun'[r] = begun[r], clean'[r] = clean[r]
    PROVE  /\ known'[r] # Nothing => \A p \in Product \ known'[r] : Explained(p, begun[r])'
           /\ found'[r] # Nothing => \A e \in Epoch : Seen(e, found[r], begun[r], clean[r])'
<1>1. begun[r] \in Time /\ begun[r] \in Int
  BY DEF TypeOK, Time
<1>2. ASSUME known'[r] # Nothing, NEW p \in Product \ known'[r] PROVE Explained(p, begun[r])'
  BY <1>1, <1>2, StaysExplained DEF Fetched
<1>3. ASSUME found'[r] # Nothing, NEW e \in Epoch PROVE Seen(e, found[r], begun[r], clean[r])'
  BY <1>1, <1>3, StaysSeen DEF Fetched
<1> QED BY <1>2, <1>3

LEMMA DurationsStand ==
    ASSUME TypeOK, TypeOK', DurationsStored, Later,
           durations' = durations \/ durations' = Nothing
    PROVE  DurationsStored'
<1>1. SUFFICES ASSUME durations' # Nothing, NEW p \in Product \ durations'.data
               PROVE  Explained(p, durations.until - 1)'
  BY DEF DurationsStored
<1>2. durations' = durations /\ durations.until - 1 \in Int
  BY <1>1 DEF TypeOK
<1> QED BY <1>1, <1>2, StaysExplained DEF DurationsStored

LEMMA PoliciesStand ==
    ASSUME TypeOK, TypeOK', PoliciesStored, Later, UNCHANGED told,
           policies' = policies \/ policies' = Nothing
    PROVE  PoliciesStored'
<1>1. SUFFICES ASSUME policies' # Nothing, NEW k \in Policy
               PROVE  /\ policies'.data[k] = "active" => policies'.until < Expiry(k)' + PolicyTtl
                      /\ policies'.data[k] = "expired" =>
                            /\ bought'[k] > 0
                            /\ Expiry(k)' <= now' \/ Explained(ProductOf[k], policies.begun)'
                      /\ ~policies'.late =>
                            /\ told'[k] >= 1 => policies'.data[k] # "absent"
                            /\ told'[k] = 2 => policies'.data[k] = "triggered"
  BY DEF PoliciesStored
<1>2. /\ policies' = policies /\ policies # Nothing
      /\ policies.until \in Int /\ policies.begun \in Int
      /\ ProductOf[k] \in Product /\ now \in Int /\ now' \in Int
      /\ bought[k] \in Int /\ bought'[k] \in Int
  BY <1>1, WalletViewsAssumption DEF TypeOK, Time
<1>3. /\ Expiry(k) \in Int /\ Expiry(k)' \in Int /\ Expiry(k) <= Expiry(k)'
      /\ bought[k] > 0 => Expiry(k)' = Expiry(k)
  BY ExpiryGrows
<1>4. policies'.data[k] = "active" => policies'.until < Expiry(k)' + PolicyTtl
  BY <1>2, <1>3, WalletViewsAssumption DEF PoliciesStored
<1>5. ASSUME policies'.data[k] = "expired"
      PROVE  bought'[k] > 0 /\ (Expiry(k)' <= now' \/ Explained(ProductOf[k], policies.begun)')
  <2>1. bought[k] > 0 /\ (Expiry(k) <= now \/ Explained(ProductOf[k], policies.begun))
    BY <1>2, <1>5 DEF PoliciesStored
  <2>2. bought'[k] > 0 /\ now <= now'
    BY <1>2, <2>1 DEF Later
  <2>3. CASE Expiry(k) <= now
    BY <1>2, <1>3, <2>1, <2>2, <2>3
  <2>4. CASE Explained(ProductOf[k], policies.begun)
    BY <1>2, <2>2, <2>4, StaysExplained
  <2> QED BY <2>1, <2>3, <2>4
<1>6. ~policies'.late => /\ told'[k] >= 1 => policies'.data[k] # "absent"
                         /\ told'[k] = 2 => policies'.data[k] = "triggered"
  BY <1>2 DEF PoliciesStored
<1> QED BY <1>4, <1>5, <1>6

LEMMA BondsStand ==
    ASSUME TypeOK, TypeOK', BondsStored, Later, bonds' = bonds \/ bonds' = Nothing
    PROVE  BondsStored'
<1>1. SUFFICES ASSUME bonds' # Nothing, NEW e \in Epoch
               PROVE  Seen(e, bonds.data, bonds.begun, bonds.clean)'
  BY DEF BondsStored
<1>2. bonds' = bonds /\ bonds.begun \in Time
  BY <1>1 DEF TypeOK
<1> QED BY <1>1, <1>2, StaysSeen DEF BondsStored

\* A fetch that only moves on, or ends, and whatever the world does, keep it all
\* as long as the caches lose entries only.
LEMMA Stands ==
    ASSUME ViewIInv, TypeOK', Later, UNCHANGED told,
           \A r \in Reader : /\ known'[r] = known[r] \/ known'[r] = Nothing
                             /\ found'[r] = found[r] \/ found'[r] = Nothing
                             /\ begun'[r] = begun[r] /\ clean'[r] = clean[r],
           durations' = durations \/ durations' = Nothing,
           policies' = policies \/ policies' = Nothing,
           bonds' = bonds \/ bonds' = Nothing
    PROVE  Fetched' /\ DurationsStored' /\ PoliciesStored' /\ BondsStored'
<1>1. Fetched'
  BY FetchStands DEF Fetched, ViewIInv
<1> QED BY <1>1, DurationsStand, PoliciesStand, BondsStand DEF ViewIInv

LEMMA WorldStep ==
    ASSUME ViewIInv, World
    PROVE  ViewIInv'
<1>1. TypeOK'
  BY TypesStep DEF ViewIInv, Next
<1>2. Later /\ TableGrows /\ History' /\ UNCHANGED <<caches, readers, outdated>>
  BY WorldGoesOn
<1>3. Fetched' /\ DurationsStored' /\ PoliciesStored' /\ BondsStored'
  BY <1>1, <1>2, Stands DEF caches, readers
<1>4. InPhase'
  BY <1>2 DEF ViewIInv, InPhase, readers
<1>5. InOrder'
  <2>1. SUFFICES ASSUME NEW r \in Reader, rows'[r] # Nothing, NEW k \in Policy
                 PROVE  /\ r \notin outdated' => Rank[rows'[r][k]] <= Rank[table'[k]]
                        /\ ~late'[r] => told'[k] <= Rank[rows'[r][k]]
    BY DEF InOrder
  <2>2. rows[r] \in RowsType /\ UNCHANGED <<rows, late, told, outdated>>
    BY <1>2, <2>1 DEF ViewIInv, TypeOK, RowsType, readers, caches
  <2>3. Rank[rows[r][k]] \in 0..2
    BY <2>2 DEF RowsType, Rank
  <2>4. /\ r \notin outdated => Rank[rows[r][k]] <= Rank[table[k]]
        /\ ~late[r] => told[k] <= Rank[rows[r][k]]
    BY <2>1, <2>2 DEF ViewIInv, InOrder
  <2> QED BY <1>2, <2>2, <2>3, <2>4 DEF TableGrows
<1> QED BY <1>1, <1>2, <1>3, <1>4, <1>5 DEF ViewIInv

\* A request moves neither the world nor the clock; a map that it stores is
\* dated now.
LEMMA ServeGoesOn ==
    ASSUME ViewIInv, TypeOK', UNCHANGED <<now, chain, table>>,
           \A p \in Product : shortAt'[p] = shortAt[p] \/ shortAt'[p] = now
    PROVE  Later
BY DEF Later, ViewIInv, TypeOK, History, Time, chain

\* The dates of a step of a request.
LEMMA ServeHistory ==
    ASSUME ViewIInv, UNCHANGED <<now, chain, table>>, TypeOK',
           \A p \in Product : shortAt'[p] = shortAt[p] \/ shortAt'[p] = now,
           \A r \in Reader : begun'[r] = begun[r] \/ begun'[r] = now,
           \A q \in Reader : rows'[q] \in {rows[q], Nothing, table},
           \A k \in Policy : told'[k] <= Rank[table[k]]
    PROVE  History'
<1>1. /\ now' = now /\ now \in Int
      /\ UNCHANGED <<bought, triggered, catalog, held, heldAt, unheldAt, table>>
  BY DEF chain, ViewIInv, TypeOK, Time
<1>2. /\ now' > 0
      /\ \A r \in Reader : begun'[r] <= now'
      /\ \A p \in Product : shortAt'[p] <= now'
  BY <1>1 DEF ViewIInv, History
<1>3. /\ \A e \in Epoch : heldAt'[e] <= now' /\ unheldAt'[e] <= now'
      /\ \A e \in Epoch : IF e \in held' THEN heldAt'[e] = now' ELSE unheldAt'[e] = now'
  BY <1>1 DEF ViewIInv, History
<1>4. \A k \in Policy : (table'[k] # "none" => bought'[k] > 0) /\ told'[k] <= Rank[table'[k]]
  BY <1>1 DEF ViewIInv, History
<1>5. ASSUME NEW q \in Reader, rows'[q] # Nothing PROVE RowsBought(rows[q])'
  BY <1>1, <1>5 DEF ViewIInv, History, RowsBought
<1> QED BY <1>2, <1>3, <1>4, <1>5 DEF History

LEMMA ReadPoliciesStep ==
    ASSUME ViewIInv, NEW r \in Reader, ReadPolicies(r)
    PROVE  ViewIInv'
<1>1. TypeOK'
  BY TypesStep DEF ViewIInv, Next, Serve
<1>2. UNCHANGED <<now, chain, table, outdated, bonds, told, shortAt, rows, found, faults>>
      /\ policies' = Nothing /\ pc[r] = "idle"
      /\ durations' = Pruned(durations)
  BY DEF ReadPolicies, Fetching, indexer
<1>3. Later
  BY <1>1, <1>2, ServeGoesOn
<1>4. History'
  <2>1. \A q \in Reader : begun'[q] = begun[q] \/ begun'[q] = now
    BY DEF ReadPolicies, Fetching, ViewIInv, TypeOK
  <2> QED BY <1>1, <1>2, <2>1, ServeHistory DEF ViewIInv, History
<1>5. InPhase' /\ InOrder'
  BY <1>2 DEF ReadPolicies, Fetching, ViewIInv, TypeOK, InPhase, InOrder
<1>6. DurationsStored' /\ PoliciesStored' /\ BondsStored'
  BY <1>1, <1>2, <1>3, DurationsStand, PoliciesStand, BondsStand DEF ViewIInv, Pruned
<1>7. ASSUME NEW q \in Reader, q # r
      PROVE /\ known'[q] # Nothing => \A p \in Product \ known'[q] : Explained(p, begun[q])'
            /\ found'[q] # Nothing => \A e \in Epoch : Seen(e, found[q], begun[q], clean[q])'
  <2>1. known'[q] = known[q] /\ found'[q] = found[q] /\ begun'[q] = begun[q] /\ clean'[q] = clean[q]
    BY <1>7 DEF ReadPolicies, Fetching, ViewIInv, TypeOK
  <2> QED BY <1>1, <1>3, <2>1, FetchStands DEF ViewIInv
<1>8. found'[r] = Nothing
  BY <1>2 DEF ViewIInv, InPhase
<1>9. ASSUME known'[r] # Nothing, NEW p \in Product \ known'[r] PROVE Explained(p, begun[r])'
  <2>1. Live(durations) /\ known'[r] = durations.data /\ begun'[r] = now
    BY <1>9 DEF ReadPolicies, Fetching, ViewIInv, TypeOK
  <2>2. Explained(p, durations.until - 1) /\ durations.until \in Nat /\ now < durations.until
    BY <1>9, <2>1 DEF ViewIInv, DurationsStored, Live, TypeOK
  <2>3. Explained(p, now)
    BY <2>2, WalletViewsAssumption DEF Explained, ViewIInv, TypeOK, Time
  <2> QED BY <1>2, <2>1, <2>3 DEF Explained
<1>10. Fetched'
  BY <1>7, <1>8, <1>9 DEF Fetched
<1> QED BY <1>1, <1>4, <1>5, <1>6, <1>10 DEF ViewIInv

LEMMA RowsArriveStep ==
    ASSUME ViewIInv, NEW r \in Reader, RowsArrive(r)
    PROVE  ViewIInv'
<1>1. TypeOK'
  BY TypesStep DEF ViewIInv, Next, Serve
<1>2. UNCHANGED <<now, chain, table, outdated, caches, pc, known, found, begun, late, clean, faults>>
      /\ rows' = [rows EXCEPT ![r] = table] /\ pc[r] = "policies" /\ rows[r] = Nothing
  BY DEF RowsArrive, indexer
<1>3. UNCHANGED <<durations, policies, bonds, told, shortAt>>
  BY <1>2 DEF caches
<1>4. Later /\ History'
  BY <1>1, <1>2, <1>3, ServeGoesOn, ServeHistory DEF ViewIInv, History
<1>5. InPhase'
  BY <1>2 DEF ViewIInv, TypeOK, InPhase
<1>6. InOrder'
  BY <1>2, <1>3 DEF ViewIInv, TypeOK, InOrder, History, Rank
<1>7. Fetched' /\ DurationsStored' /\ PoliciesStored' /\ BondsStored'
  BY <1>1, <1>2, <1>3, <1>4, Stands
<1> QED BY <1>1, <1>4, <1>5, <1>6, <1>7 DEF ViewIInv

LEMMA StoreDurationsStep ==
    ASSUME ViewIInv, NEW r \in Reader, ListingArrives(r) \/ ListingFails(r)
    PROVE  ViewIInv'
<1>1. TypeOK'
  BY TypesStep DEF ViewIInv, Next, Serve
<1>2. PICK map \in SUBSET Product : StoreDurations(r, map)
  BY DEF ListingArrives, ListingFails, ViewIInv, TypeOK
<1>3. /\ UNCHANGED <<now, chain, table, outdated, policies, bonds, told, rows, found, begun, late, clean>>
      /\ known[r] = Nothing
  BY <1>2 DEF StoreDurations, indexer
<1>4. \A p \in Product : shortAt'[p] = IF p \in map THEN shortAt[p] ELSE now
  BY <1>2 DEF StoreDurations
<1>5. Later /\ History'
  BY <1>1, <1>3, <1>4, ServeGoesOn, ServeHistory DEF ViewIInv, History
<1>6. InPhase'
  BY <1>2, <1>3 DEF StoreDurations, ViewIInv, TypeOK, InPhase
<1>7. InOrder'
  BY <1>3 DEF ViewIInv, InOrder
<1>8. PoliciesStored' /\ BondsStored'
  BY <1>1, <1>3, <1>5, PoliciesStand, BondsStand DEF ViewIInv
<1>9. now \in Nat /\ now > 0 /\ DurationTtl \in Nat \ {0} /\ now' = now
  BY <1>3, WalletViewsAssumption DEF ViewIInv, TypeOK, Time, History
<1>10. ASSUME NEW p \in Product \ map, NEW t \in Int, t <= now PROVE Explained(p, t)'
  BY <1>4, <1>9, <1>10 DEF Explained
<1>11. ASSUME NEW p \in Product \ map PROVE Explained(p, now + DurationTtl - 1)'
  BY <1>4, <1>9 DEF Explained
<1>12. DurationsStored'
  <2>1. durations' = [data |-> map, until |-> now + DurationTtl]
    BY <1>2 DEF StoreDurations
  <2>2. durations'.data = map /\ durations'.until = now + DurationTtl
    BY <2>1
  <2> QED BY <1>9, <1>11, <2>2 DEF DurationsStored, Explained
<1>13. ASSUME NEW q \in Reader, q # r
      PROVE /\ known'[q] # Nothing => \A p \in Product \ known'[q] : Explained(p, begun[q])'
            /\ found'[q] # Nothing => \A e \in Epoch : Seen(e, found[q], begun[q], clean[q])'
  <2>1. known'[q] = known[q]
    BY <1>2, <1>13 DEF StoreDurations, ViewIInv, TypeOK
  <2> QED BY <1>1, <1>3, <1>5, <2>1, FetchStands DEF ViewIInv
<1>14. known'[r] # Nothing => \A p \in Product \ known'[r] : Explained(p, begun[r])'
  <2>1. known'[r] = map \/ known'[r] = Nothing
    BY <1>2 DEF StoreDurations, ViewIInv, TypeOK
  <2>2. begun[r] \in Int /\ begun[r] <= now /\ begun' = begun
    BY <1>3 DEF ViewIInv, History, TypeOK, Time
  <2> QED BY <1>10, <2>1, <2>2
<1>15. found'[r] # Nothing => \A e \in Epoch : Seen(e, found[r], begun[r], clean[r])'
  <2>1. begun[r] \in Time
    BY DEF ViewIInv, TypeOK
  <2> QED BY <1>1, <1>3, <1>5, <2>1, StaysSeen DEF ViewIInv, Fetched
<1>16. Fetched'
  BY <1>13, <1>14, <1>15 DEF Fetched
<1> QED BY <1>1, <1>5, <1>6, <1>7, <1>8, <1>12, <1>16 DEF ViewIInv

LEMMA QueryFailsStep ==
    ASSUME ViewIInv, NEW r \in Reader, QueryFails(r)
    PROVE  ViewIInv'
<1>1. TypeOK'
  BY TypesStep DEF ViewIInv, Next, Serve
<1>2. /\ UNCHANGED <<now, chain, table, outdated, caches, rows, found, begun, late, clean>>
      /\ \A q \in Reader : known'[q] = known[q] \/ known'[q] = Nothing
  BY DEF QueryFails, ViewIInv, TypeOK, indexer
<1>3. UNCHANGED <<durations, policies, bonds, told, shortAt>>
  BY <1>2 DEF caches
<1>4. Later /\ History'
  BY <1>1, <1>2, <1>3, ServeGoesOn, ServeHistory DEF ViewIInv, History
<1>5. InPhase'
  BY <1>2 DEF QueryFails, ViewIInv, TypeOK, InPhase
<1>6. InOrder'
  BY <1>2, <1>3 DEF ViewIInv, InOrder
<1>7. Fetched' /\ DurationsStored' /\ PoliciesStored' /\ BondsStored'
  BY <1>1, <1>2, <1>3, <1>4, Stands
<1> QED BY <1>1, <1>4, <1>5, <1>6, <1>7 DEF ViewIInv

\* What is stored was computed now, of rows that are behind the table and of a
\* map that is whole or explained.
LEMMA AssembleStep ==
    ASSUME ViewIInv, NEW r \in Reader, Assemble(r)
    PROVE  ViewIInv'
<1>1. TypeOK'
  BY TypesStep DEF ViewIInv, Next, Serve
<1>2. /\ UNCHANGED <<now, chain, table, durations, bonds, shortAt, found, begun, clean, faults>>
      /\ pc[r] = "policies" /\ rows[r] # Nothing /\ known[r] # Nothing
  BY DEF Assemble
<1>3. /\ rows[r] \in RowsType /\ known[r] \in SUBSET Product
      /\ \A k \in Policy : Rank[rows[r][k]] \in 0..2 /\ told[k] \in 0..2 /\ Rank[table[k]] \in 0..2
  BY <1>2 DEF ViewIInv, TypeOK, RowsType, Rank
<1>4. \A k \in Policy : /\ told'[k] = IF r \notin outdated /\ Rank[rows[r][k]] > told[k]
                                      THEN Rank[rows[r][k]] ELSE told[k]
                        /\ told'[k] <= Rank[table[k]]
  BY <1>2, <1>3 DEF Assemble, ViewIInv, InOrder, History
<1>5. Later /\ History'
  <2>1. \A q \in Reader : rows'[q] \in {rows[q], Nothing}
    BY DEF Assemble, ViewIInv, TypeOK
  <2> QED BY <1>1, <1>2, <1>4, <2>1, ServeGoesOn, ServeHistory DEF ViewIInv, History
<1>6. InPhase'
  BY <1>2 DEF Assemble, ViewIInv, TypeOK, InPhase
<1>7. ASSUME NEW q \in Reader, rows'[q] # Nothing, NEW k \in Policy
      PROVE  (q \notin outdated' => Rank[rows'[q][k]] <= Rank[table'[k]]) /\ late'[q]
  <2>1. q # r /\ rows'[q] = rows[q]
    BY <1>7 DEF Assemble, ViewIInv, TypeOK
  <2>2. pc[q] = "policies"
    BY <1>7, <2>1 DEF ViewIInv, InPhase
  <2>3. late'[q]
    BY <2>1, <2>2 DEF Assemble, LateBut
  <2>4. q \notin outdated' => q \notin outdated
    BY <2>1 DEF Assemble
  <2> QED BY <1>2, <1>7, <2>1, <2>3, <2>4 DEF ViewIInv, InOrder
<1>8. InOrder'
  BY <1>7 DEF InOrder
<1>9. \A q \in Reader : known'[q] = known[q] \/ known'[q] = Nothing
  BY DEF Assemble, ViewIInv, TypeOK
<1>10. Fetched'
  BY <1>1, <1>2, <1>5, <1>9, FetchStands DEF Fetched, ViewIInv
<1>11. DurationsStored' /\ BondsStored'
  BY <1>1, <1>2, <1>5, DurationsStand, BondsStand DEF ViewIInv
<1>12. /\ policies'.until = now + PolicyTtl /\ policies'.begun = begun[r]
       /\ policies'.late = late[r]
       /\ \A k \in Policy : policies'.data[k] = Status(r, k)
  BY DEF Assemble
<1>13. \A k \in Policy : Expiry(k)' = Expiry(k) /\ Expiry(k) \in Int
  BY <1>2, WalletViewsAssumption DEF Expiry, chain, ViewIInv, TypeOK, Time
<1>14. ASSUME NEW k \in Policy
       PROVE  /\ Status(r, k) = "absent" => rows[r][k] = "none"
              /\ rows[r][k] = "triggered" => Status(r, k) = "triggered"
              /\ Status(r, k) = "active" => now < Expiry(k)
              /\ Status(r, k) = "expired" =>
                    rows[r][k] = "active" /\ (ProductOf[k] \notin known[r] \/ now >= Expiry(k))
  <2>1. rows[r][k] \in {"none", "active", "triggered"} /\ Expiry(k) \in Int /\ now \in Int
    BY <1>3, <1>13 DEF RowsType, ViewIInv, TypeOK, Time
  <2> QED BY <2>1 DEF Status
<1>15. ASSUME NEW k \in Policy
       PROVE  /\ policies'.data[k] = "active" => policies'.until < Expiry(k)' + PolicyTtl
              /\ policies'.data[k] = "expired" =>
                    /\ bought'[k] > 0
                    /\ Expiry(k)' <= now' \/ Explained(ProductOf[k], policies.begun)'
              /\ ~policies'.late =>
                    /\ told'[k] >= 1 => policies'.data[k] # "absent"
                    /\ told'[k] = 2 => policies'.data[k] = "triggered"
  <2>1. policies'.data[k] = "active" => policies'.until < Expiry(k)' + PolicyTtl
    BY <1>12, <1>13, <1>14, WalletViewsAssumption DEF ViewIInv, TypeOK, Time
  <2>2. ASSUME policies'.data[k] = "expired"
        PROVE  bought'[k] > 0 /\ (Expiry(k)' <= now' \/ Explained(ProductOf[k], policies.begun)')
    <3>1. Status(r, k) = "expired" /\ rows[r][k] = "active"
      BY <1>12, <1>14, <2>2
    <3>3. bought'[k] > 0
      BY <1>2, <3>1 DEF ViewIInv, History, RowsBought, chain
    <3>4. CASE now >= Expiry(k)
      BY <1>2, <1>13, <3>3, <3>4 DEF ViewIInv, TypeOK, Time
    <3>5. CASE ProductOf[k] \notin known[r]
      <4>1. Explained(ProductOf[k], begun[r])
        BY <1>2, <3>5, WalletViewsAssumption DEF ViewIInv, Fetched
      <4> QED BY <1>2, <1>12, <3>3, <4>1 DEF Explained
    <3> QED BY <1>14, <3>1, <3>4, <3>5
  <2>3. ASSUME ~policies'.late
        PROVE  /\ told'[k] >= 1 => policies'.data[k] # "absent"
               /\ told'[k] = 2 => policies'.data[k] = "triggered"
    <3>1. told[k] <= Rank[rows[r][k]]
      BY <1>2, <1>12, <2>3 DEF ViewIInv, InOrder
    <3>2. told'[k] \in 0..2 /\ told'[k] <= Rank[rows[r][k]]
      BY <1>3, <1>4, <3>1
    <3>3. rows[r][k] \in {"none", "active", "triggered"}
      BY <1>3 DEF RowsType
    <3> QED BY <1>12, <1>14, <3>2, <3>3 DEF Rank
  <2> QED BY <2>1, <2>2, <2>3
<1>16. PoliciesStored'
  BY <1>15 DEF PoliciesStored
<1> QED BY <1>1, <1>5, <1>6, <1>8, <1>10, <1>11, <1>16 DEF ViewIInv

LEMMA ReadBondsStep ==
    ASSUME ViewIInv, NEW r \in Reader, ReadBonds(r)
    PROVE  ViewIInv'
<1>1. TypeOK'
  BY TypesStep DEF ViewIInv, Next, Serve
<1>2. /\ UNCHANGED <<now, chain, table, outdated, durations, policies, told, shortAt>>
      /\ UNCHANGED <<rows, known, found, faults>>
      /\ bonds' = Nothing /\ pc[r] = "idle"
  BY DEF ReadBonds, Fetching, indexer
<1>3. \A q \in Reader : IF q = r THEN begun'[q] = now
                        ELSE begun'[q] = begun[q] /\ clean'[q] = clean[q]
                                                           /\ late'[q] = late[q]
  BY DEF ReadBonds, Fetching, ViewIInv, TypeOK
<1>4. Later /\ History'
  BY <1>1, <1>2, <1>3, ServeGoesOn, ServeHistory DEF ViewIInv, History
<1>5. rows[r] = Nothing /\ known[r] = Nothing /\ found[r] = Nothing
  BY <1>2 DEF ViewIInv, InPhase
<1>6. InPhase'
  BY <1>2, <1>5 DEF ReadBonds, Fetching, ViewIInv, TypeOK, InPhase
<1>7. InOrder'
  BY <1>2, <1>3, <1>5 DEF ViewIInv, InOrder
<1>8. DurationsStored' /\ PoliciesStored' /\ BondsStored'
  BY <1>1, <1>2, <1>4, DurationsStand, PoliciesStand, BondsStand DEF ViewIInv
<1>9. ASSUME NEW q \in Reader, q # r
      PROVE /\ known'[q] # Nothing => \A p \in Product \ known'[q] : Explained(p, begun[q])'
            /\ found'[q] # Nothing => \A e \in Epoch : Seen(e, found[q], begun[q], clean[q])'
  BY <1>1, <1>2, <1>3, <1>4, <1>9, FetchStands DEF ViewIInv
<1>10. Fetched'
  BY <1>2, <1>5, <1>9 DEF Fetched
<1> QED BY <1>1, <1>4, <1>6, <1>7, <1>8, <1>10 DEF ViewIInv

\* What the wallet holds now is seen now.
LEMMA BalancesStep ==
    ASSUME ViewIInv, NEW r \in Reader, BalancesArrive(r) \/ BatchFails(r)
    PROVE  ViewIInv'
<1>1. TypeOK'
  BY TypesStep DEF ViewIInv, Next, Serve
<1>2. PICK epochs \in SUBSET held :
        /\ Balances(r, epochs)
        /\ (epochs = held /\ clean' = clean) \/ clean' = [clean EXCEPT ![r] = FALSE]
  BY DEF BalancesArrive, BatchFails
<1>3. UNCHANGED <<now, chain, table, outdated, caches, rows, known, begun, late>> /\ pc[r] = "balances"
  BY <1>2 DEF Balances, indexer
<1>4. UNCHANGED <<durations, policies, bonds, told, shortAt, held, heldAt, unheldAt>>
  BY <1>3 DEF caches, chain
<1>5. Later /\ History'
  BY <1>1, <1>3, <1>4, ServeGoesOn, ServeHistory DEF ViewIInv, History
<1>6. InPhase'
  BY <1>2, <1>3, WalletViewsAssumption DEF Balances, ViewIInv, TypeOK, InPhase
<1>7. InOrder'
  BY <1>3, <1>4 DEF ViewIInv, InOrder
<1>8. DurationsStored' /\ PoliciesStored' /\ BondsStored'
  BY <1>1, <1>4, <1>5, DurationsStand, PoliciesStand, BondsStand DEF ViewIInv
<1>9. ASSUME NEW q \in Reader, q # r
      PROVE /\ known'[q] # Nothing => \A p \in Product \ known'[q] : Explained(p, begun[q])'
            /\ found'[q] # Nothing => \A e \in Epoch : Seen(e, found[q], begun[q], clean[q])'
  <2>1. known'[q] = known[q] /\ found'[q] = found[q] /\ begun'[q] = begun[q] /\ clean'[q] = clean[q]
    BY <1>2, <1>3, <1>9 DEF Balances, ViewIInv, TypeOK
  <2> QED BY <1>1, <1>5, <2>1, FetchStands DEF ViewIInv
<1>10. known'[r] = Nothing
  BY <1>3 DEF ViewIInv, InPhase
<1>11. ASSUME NEW e \in Epoch PROVE Seen(e, found[r], begun[r], clean[r])'
  <2>1. found'[r] = epochs /\ begun'[r] = begun[r] /\ (epochs = held \/ ~clean'[r])
    BY <1>2, <1>3 DEF Balances, ViewIInv, TypeOK
  <2>2. begun[r] <= now /\ (IF e \in held THEN heldAt[e] = now ELSE unheldAt[e] = now)
    BY DEF ViewIInv, History
  <2> QED BY <1>2, <1>4, <2>1, <2>2 DEF Seen
<1>12. Fetched'
  BY <1>9, <1>10, <1>11 DEF Fetched
<1> QED BY <1>1, <1>5, <1>6, <1>7, <1>8, <1>12 DEF ViewIInv

LEMMA StoreBondsStep ==
    ASSUME ViewIInv, NEW r \in Reader, InfosArrive(r) \/ InfosFail(r)
    PROVE  ViewIInv'
<1>1. TypeOK'
  BY TypesStep DEF ViewIInv, Next, Serve
<1>2. pc[r] = "infos" /\ found[r] # Nothing
  BY DEF InfosArrive, InfosFail, StoreBonds, ViewIInv, InPhase
<1>3. PICK epochs \in SUBSET found[r], ok \in BOOLEAN :
        StoreBonds(r, epochs, ok) /\ (ok => epochs = found[r] /\ clean[r])
  <2>1. CASE InfosArrive(r)
    BY <2>1 DEF InfosArrive, ViewIInv, TypeOK
  <2>2. CASE InfosFail(r)
    BY <2>2 DEF InfosFail
  <2> QED BY <2>1, <2>2
<1>4. /\ UNCHANGED <<now, chain, table, outdated, durations, policies, told, shortAt>>
      /\ UNCHANGED <<rows, known, begun, late, clean>>
  BY <1>3 DEF StoreBonds, indexer
<1>5. UNCHANGED <<heldAt, unheldAt>>
  BY <1>4 DEF chain
<1>6. Later /\ History'
  BY <1>1, <1>4, ServeGoesOn, ServeHistory DEF ViewIInv, History
<1>7. InPhase'
  BY <1>2, <1>3, <1>4 DEF StoreBonds, ViewIInv, TypeOK, InPhase
<1>8. InOrder'
  BY <1>4 DEF ViewIInv, InOrder
<1>9. DurationsStored' /\ PoliciesStored'
  BY <1>1, <1>4, <1>6, DurationsStand, PoliciesStand DEF ViewIInv
<1>10. \A q \in Reader : found'[q] = found[q] \/ found'[q] = Nothing
  BY <1>3 DEF StoreBonds, ViewIInv, TypeOK
<1>11. Fetched'
  BY <1>1, <1>4, <1>6, <1>10, FetchStands DEF Fetched, ViewIInv
<1>12. ASSUME NEW e \in Epoch PROVE Seen(e, bonds.data, bonds.begun, bonds.clean)'
  <2>1. bonds'.data = epochs /\ bonds'.begun = begun[r] /\ bonds'.clean = ok
    BY <1>3 DEF StoreBonds
  <2>2. Seen(e, found[r], begun[r], clean[r])
    BY <1>2 DEF ViewIInv, Fetched
  <2> QED BY <1>3, <1>5, <2>1, <2>2 DEF Seen
<1>13. BondsStored'
  BY <1>12 DEF BondsStored
<1> QED BY <1>1, <1>6, <1>7, <1>8, <1>9, <1>11, <1>13 DEF ViewIInv

-----------------------------------------------------------------------------

LEMMA ViewInit ==
    ASSUME Init
    PROVE  ViewIInv
<1> USE WalletViewsAssumption DEF Init
<1>1. TypeOK
  BY DEF TypeOK, Time
<1>2. InPhase /\ InOrder
  BY DEF InPhase, InOrder
<1>3. History
  BY DEF History, RowsBought, Rank
<1>4. Fetched /\ DurationsStored /\ PoliciesStored /\ BondsStored
  BY DEF Fetched, DurationsStored, PoliciesStored, BondsStored
<1> QED BY <1>1, <1>2, <1>3, <1>4 DEF ViewIInv

\* A schema that is dropped leaves nothing to be told, and the fetches that have
\* read it hold what they hold.
LEMMA SchemaDropStep ==
    ASSUME ViewIInv, DropSchema
    PROVE  ViewIInv'
<1>1. TypeOK'
  BY TypesStep DEF ViewIInv, Next
<1>2. /\ UNCHANGED <<now, chain, durations, policies, bonds, shortAt, readers>>
      /\ \A k \in Policy : table'[k] = "none" /\ told'[k] = 0
      /\ outdated' = {r \in Reader : rows[r] # Nothing}
  BY DEF DropSchema
<1>3. /\ UNCHANGED <<bought, held, heldAt, unheldAt>>
      /\ UNCHANGED <<pc, rows, known, found, begun, late, clean>>
  BY <1>2 DEF chain, readers
<1>4. Later
  BY <1>2, <1>3 DEF Later, ViewIInv, TypeOK, Time
<1>5. History'
  BY <1>2, <1>3 DEF ViewIInv, History, RowsBought, Rank
<1>6. InPhase'
  BY <1>2, <1>3 DEF ViewIInv, InPhase
<1>7. InOrder'
  <2>1. ASSUME NEW r \in Reader, rows[r] # Nothing, NEW k \in Policy PROVE Rank[rows[r][k]] \in 0..2
    BY <2>1 DEF ViewIInv, TypeOK, Rank
  <2> QED BY <1>2, <1>3, <2>1 DEF InOrder
<1>8. Fetched'
  BY <1>1, <1>3, <1>4, FetchStands DEF Fetched, ViewIInv
<1>9. DurationsStored' /\ BondsStored'
  BY <1>1, <1>2, <1>4, DurationsStand, BondsStand DEF ViewIInv
<1>10. PoliciesStored'
  BY <1>2, <1>3 DEF ViewIInv, PoliciesStored, Explained, Expiry
<1> QED BY <1>1, <1>5, <1>6, <1>7, <1>8, <1>9, <1>10 DEF ViewIInv

LEMMA ViewStep ==
    ASSUME ViewIInv, [Next]_vars
    PROVE  ViewIInv'
<1>1. CASE World
  BY <1>1, WorldStep
<1>2. ASSUME NEW r \in Reader, Serve(r) PROVE ViewIInv'
  BY <1>2, ReadPoliciesStep, RowsArriveStep, StoreDurationsStep, QueryFailsStep, AssembleStep,
     ReadBondsStep, BalancesStep, StoreBondsStep DEF Serve
<1>3. CASE DropSchema
  BY <1>3, SchemaDropStep
<1>4. CASE UNCHANGED vars
  <2>1. /\ now' = now /\ table' = table /\ UNCHANGED <<chain, caches, readers>> /\ faults' = faults
        /\ outdated' = outdated
    BY <1>4 DEF vars, indexer
  <2>2. TypeOK'
    BY <2>1 DEF chain, caches, readers, ViewIInv, TypeOK
  <2>3. InPhase' /\ InOrder'
    BY <2>1 DEF chain, caches, readers, ViewIInv, InPhase, InOrder
  <2>4. History'
    BY <2>1 DEF chain, caches, readers, ViewIInv, History, RowsBought
  <2>5. Fetched'
    BY <2>1 DEF chain, caches, readers, ViewIInv, Fetched, Explained, Seen
  <2>6. DurationsStored' /\ BondsStored'
    BY <2>1 DEF chain, caches, readers, ViewIInv, DurationsStored, BondsStored, Explained, Seen
  <2>7. PoliciesStored'
    BY <2>1 DEF chain, caches, readers, ViewIInv, PoliciesStored, Explained, Expiry
  <2> QED BY <2>2, <2>3, <2>4, <2>5, <2>6, <2>7 DEF ViewIInv
<1> QED BY <1>1, <1>2, <1>3, <1>4 DEF Next

LEMMA ViewAlways == Spec => []ViewIInv
  BY ViewInit, ViewStep, PTL DEF Spec

\* Fetches in flight hold rows that are behind the indexer's table, unless its schema
\* was dropped since, and, unless another one stored meanwhile, not behind what was
\* shown of it (makeCache and getPoliciesByWallet).
THEOREM ViewInvariant == Spec => []ViewInv
<1>1. ViewIInv => ViewInv
  BY DEF ViewIInv, ViewInv
<1> QED BY <1>1, ViewAlways, PTL

\* No policy is shown as active later than a TTL after its end, for the status is
\* computed when it is stored.
THEOREM ActiveIsShownInTime == Spec => []ActiveIsTimely
<1>1. ASSUME ViewIInv, NEW k \in Policy, Live(policies), policies.data[k] = "active"
      PROVE  now < Expiry(k) + PolicyTtl
  <2>1. policies.until < Expiry(k) + PolicyTtl /\ now < policies.until
    BY <1>1 DEF ViewIInv, PoliciesStored, Live
  <2>2. policies.until \in Nat /\ now \in Nat /\ Expiry(k) \in Int /\ PolicyTtl \in Nat
    BY <1>1, WalletViewsAssumption DEF ViewIInv, TypeOK, Time, Live, Expiry
  <2> QED BY <2>1, <2>2
<1>2. ViewIInv => ActiveIsTimely
  BY <1>1 DEF ActiveIsTimely
<1> QED BY <1>2, ViewAlways, PTL

\* A policy shown as expired too early had its product missing from a catalogue
\* that was stored at most one TTL before the fetch began.
THEOREM EarlyExpiryIsExplained == Spec => []ExpiredIsExplained
<1>1. ASSUME ViewIInv, NEW k \in Policy, Live(policies), policies.data[k] = "expired",
             now < Expiry(k)
      PROVE  shortAt[ProductOf[k]] > 0 /\ policies.begun < shortAt[ProductOf[k]] + DurationTtl
  <2>1. Expiry(k) <= now \/ Explained(ProductOf[k], policies.begun)
    BY <1>1 DEF ViewIInv, PoliciesStored, Live
  <2>2. Expiry(k) \in Int /\ now \in Int
    BY WalletViewsAssumption, <1>1 DEF ViewIInv, TypeOK, Time, Expiry
  <2> QED BY <1>1, <2>1, <2>2 DEF Explained
<1>2. ViewIInv => ExpiredIsExplained
  BY <1>1 DEF ExpiredIsExplained
<1> QED BY <1>2, ViewAlways, PTL

\* Only a fetch that was overtaken takes back what was shown since the schema was
\* dropped last.
THEOREM OnlyOvertakenGoBack == Spec => []ForwardUnlessOvertaken
<1>1. ViewIInv => ForwardUnlessOvertaken
  BY DEF ViewIInv, PoliciesStored, ForwardUnlessOvertaken, Live
<1> QED BY <1>1, ViewAlways, PTL

\* What a bond answer says was so at some time since its fetch began.
THEOREM BondsAreOfTheirFetch == Spec => []BondsAreRecent
<1>1. ViewIInv => BondsAreRecent
  BY DEF ViewIInv, BondsStored, Seen, BondsAreRecent, Live
<1> QED BY <1>1, ViewAlways, PTL

-----------------------------------------------------------------------------
(* The indexer's tables *)

Kind == {"transfer", "issued", "redeemed", "burn", "policy", "trigger"}

\* The events that are alone in their transaction.
Lone == {"burn", "policy", "trigger"}

Entry == [kind : Kind, from : Holder \cup {Zero}, to : Holder \cup {Zero},
          of : Seq(Epoch \cup Policy \cup {Zero}), tx : Nat, index : Nat, at : Int]

EntryShape(l) ==
    /\ Len(l.of) = 1 \/ (Len(l.of) = 2 /\ l.kind = "transfer")
    /\ l.kind \in {"policy", "trigger"} => l.of[1] \in Policy

LogShape == log \in Seq(Entry) /\ \A n \in DOMAIN log : EntryShape(log[n])

LogOrder ==
    /\ \A n \in DOMAIN log : log[n].tx \in 1..mined
    /\ \A m, n \in DOMAIN log : m < n =>
          \/ log[m].tx < log[n].tx
          \/ /\ log[m].tx = log[n].tx /\ log[m].index < log[n].index
             /\ log[m].kind \notin Lone /\ log[n].kind \notin Lone

LogOnce ==
    /\ \A m, n \in DOMAIN log :
          log[m].kind = log[n].kind /\ log[m].kind \in {"policy", "trigger"}
            /\ log[m].of[1] = log[n].of[1] => m = n
    /\ \A n \in DOMAIN log : log[n].kind = "trigger" =>
          \E m \in 1..n-1 : log[m].kind = "policy" /\ log[m].of[1] = log[n].of[1]

\* The events before the start block, which no handler sees.
Unseen == {n \in DOMAIN log : log[n].tx < StartBlock}

Solvent ==
    \A h \in Holder, e \in Epoch :
        L!Balance(h, e, DOMAIN log) >= 0 /\ L!Balance(h, e, Unseen) >= 0

\* What the checkpoint covers is in the tables.
Covered == \A n \in DOMAIN log : log[n].tx <= synced => n <= reach

RowsSound ==
    /\ IsFiniteSet(ledger)
    /\ \A r \in ledger : \E n \in L!Indexed(reach) :
          log[n].kind # "policy" /\ \E i \in DOMAIN log[n].of : r = L!Row(log[n], i)
    /\ \A n \in L!Indexed(reach) : log[n].kind # "policy" =>
          \A i \in DOMAIN log[n].of : L!Row(log[n], i) \in ledger

InIndex(kind, p) == \E n \in L!Indexed(reach) : log[n].kind = kind /\ log[n].of[1] = p

PoliciesSound ==
    \A p \in Policy :
        /\ policy[p] # 0 => \E n \in L!Indexed(reach) :
              log[n].kind = "policy" /\ log[n].of[1] = p /\ policy[p] = log[n].tx
        /\ policy[p] = 0 => ~InIndex("policy", p)
        /\ p \in flipped <=> InIndex("policy", p) /\ InIndex("trigger", p)

Near(q, v) == part[q] # Nothing => part[q] <= v /\ v <= part[q] + grown

DashboardsSound ==
    ~shaken =>
        /\ asked = "burns" => /\ Near("total", L!Burned)
                              /\ Near("recent", L!BurnedSince(cutoff))
                              /\ Near("byDay", L!BurnedSince(cutoff))
        /\ asked = "protocol" => /\ Near("written", L!Written)
                                 /\ part["active"] # Nothing => part["active"] <= L!Written

HealthSound ==
    asked = "health" /\ ~shaken =>
        /\ part["head"] # Nothing => mined <= part["head"] + waited
        /\ part["synced"] # Nothing => part["synced"] <= L!Height

Unasked == asked = "none" => \A q \in L!Query : part[q] = Nothing

ChainIInv == LogShape /\ LogOrder /\ LogOnce /\ Solvent

TablesIInv == Covered /\ RowsSound /\ PoliciesSound

AnswersIInv == DashboardsSound /\ HealthSound /\ Unasked

LedgerIInv == L!TypeOK /\ ChainIInv /\ TablesIInv /\ AnswersIInv

-----------------------------------------------------------------------------
(* Counting events and rows *)

LEMMA CountsMean == \A S : L!Counts(S) = Cardinality(S)
BY DEF L!Counts, L!Cardinality, Cardinality

LEMMA LogType ==
    ASSUME LogShape
    PROVE  /\ Len(log) \in Nat /\ DOMAIN log = 1..Len(log)
           /\ \A n \in DOMAIN log :
                 /\ log[n] \in Entry /\ log[n].of \in Seq(Epoch \cup Policy \cup {Zero})
                 /\ log[n].kind \in Kind /\ log[n].tx \in Nat /\ log[n].index \in Nat
                 /\ log[n].at \in Int
                 /\ EntryShape(log[n])
                 /\ DOMAIN log[n].of = 1..Len(log[n].of)
                 /\ DOMAIN log[n].of \in {{1}, {1, 2}}
                 /\ log[n].kind # "transfer" => DOMAIN log[n].of = {1}
<1>1. Len(log) \in Nat /\ DOMAIN log = 1..Len(log)
  BY DEF LogShape
<1>2. ASSUME NEW n \in DOMAIN log
      PROVE  /\ log[n] \in Entry /\ log[n].of \in Seq(Epoch \cup Policy \cup {Zero})
             /\ log[n].kind \in Kind /\ log[n].tx \in Nat /\ log[n].index \in Nat
             /\ log[n].at \in Int
             /\ EntryShape(log[n])
  <2>1. log[n] \in Entry /\ EntryShape(log[n])
    BY DEF LogShape
  <2> QED BY <2>1 DEF Entry
<1>3. ASSUME NEW n \in DOMAIN log
      PROVE  /\ DOMAIN log[n].of = 1..Len(log[n].of)
             /\ DOMAIN log[n].of \in {{1}, {1, 2}}
             /\ log[n].kind # "transfer" => DOMAIN log[n].of = {1}
  <2>1. DOMAIN log[n].of = 1..Len(log[n].of)
    BY <1>2
  <2>2. 1..1 = {1} /\ 1..2 = {1, 2}
    OBVIOUS
  <2> QED BY <1>2, <2>1, <2>2 DEF EntryShape
<1> QED BY <1>1, <1>2, <1>3

LEMMA KeysDiffer ==
    ASSUME LogShape, LogOrder, NEW m \in DOMAIN log, NEW n \in DOMAIN log,
           NEW i \in DOMAIN log[m].of, NEW j \in DOMAIN log[n].of,
           L!Key(log[m], i) = L!Key(log[n], j)
    PROVE  m = n /\ i = j
<1>1. log[m].tx = log[n].tx /\ log[m].index = log[n].index
  <2>1. L!Key(log[m], i)[1] = log[m].tx /\ L!Key(log[m], i)[2] = log[m].index
    BY DEF L!Key
  <2>2. L!Key(log[n], j)[1] = log[n].tx /\ L!Key(log[n], j)[2] = log[n].index
    BY DEF L!Key
  <2> QED BY <2>1, <2>2
<1>2. m \in Nat /\ n \in Nat /\ log[m].tx \in Nat /\ log[m].index \in Nat
  BY LogType
<1>3. m = n
  BY <1>1, <1>2 DEF LogOrder
<1>4. CASE Len(log[m].of) = 1
  BY <1>3, <1>4, LogType
<1>5. CASE Len(log[m].of) # 1
  <2>1. L!Key(log[m], i)[3] = i /\ L!Key(log[m], j)[3] = j
    BY <1>5 DEF L!Key
  <2> QED BY <2>1, <1>3
<1> QED BY <1>3, <1>4, <1>5

LEMMA EventsAreFinite ==
    ASSUME L!TypeOK, LogShape
    PROVE  /\ reach \in Nat /\ reach <= Len(log)
           /\ L!Indexed(reach) \subseteq DOMAIN log
           /\ IsFiniteSet(DOMAIN log) /\ IsFiniteSet(L!Indexed(reach))
           /\ IsFiniteSet(L!Indexed(reach) \X {1, 2}) /\ IsFiniteSet((DOMAIN log) \X {1, 2})
<1>1. reach \in Nat /\ reach <= Len(log) /\ handled \in Nat
  BY LogType DEF L!TypeOK
<1>2. L!Indexed(reach) \subseteq DOMAIN log
  BY <1>1, LogType DEF L!Indexed
<1>3. IsFiniteSet(DOMAIN log)
  BY LogType, FS_Interval
<1>4. IsFiniteSet(L!Indexed(reach))
  BY <1>2, <1>3, FS_Subset
<1>5. IsFiniteSet({1, 2})
  <2>1. IsFiniteSet({1}) /\ {1} \cup {2} = {1, 2}
    BY FS_Singleton
  <2> QED BY <2>1, FS_AddElement
<1> QED BY <1>1, <1>2, <1>3, <1>4, <1>5, FS_Product

\* Rows are as many as the legs they were made from.
LEMMA CountLegs ==
    ASSUME L!TypeOK, LogShape, LogOrder,
           NEW T \in SUBSET ((DOMAIN log) \X {1, 2}), NEW R,
           \A x \in T : x[2] \in DOMAIN log[x[1]].of /\ L!Row(log[x[1]], x[2]) \in R,
           \A r \in R : \E x \in T : r = L!Row(log[x[1]], x[2])
    PROVE  /\ IsFiniteSet(R) /\ IsFiniteSet(T)
           /\ Cardinality(R) = Cardinality(T) /\ Cardinality(T) \in Nat
<1> DEFINE f == [x \in T |-> L!Row(log[x[1]], x[2])]
<1>1. IsFiniteSet(T)
  BY EventsAreFinite, FS_Subset
<1>2. f \in [T -> R]
  OBVIOUS
<1>3. ASSUME NEW x \in T, NEW y \in T, f[x] = f[y] PROVE x = y
  <2>1. x[1] \in DOMAIN log /\ y[1] \in DOMAIN log
    OBVIOUS
  <2>2. L!Row(log[x[1]], x[2]) = L!Row(log[y[1]], y[2])
    BY <1>3
  <2>3. L!Key(log[x[1]], x[2]) = L!Key(log[y[1]], y[2])
    BY <2>2 DEF L!Row
  <2>4. x[1] = y[1] /\ x[2] = y[2]
    BY <2>1, <2>3, KeysDiffer
  <2>5. x = <<x[1], x[2]>> /\ y = <<y[1], y[2]>>
    OBVIOUS
  <2> QED BY <2>4, <2>5
<1>4. \A r \in R : \E x \in T : f[x] = r
  OBVIOUS
<1>5. f \in Bijection(T, R)
  BY <1>2, <1>3, <1>4 DEF Bijection, Injection, Surjection, IsInjective
<1> QED
  <2>1. ExistsBijection(T, R)
    BY <1>5 DEF ExistsBijection
  <2> QED BY <1>1, <2>1, FS_Bijection, FS_CardinalityType

LEMMA TableOfKind ==
    ASSUME NEW k \in Kind
    PROVE  /\ L!Table(k) = "bond_transfer" <=> k = "transfer"
           /\ L!Table(k) = "bond" <=> k \in {"issued", "redeemed"}
           /\ L!Table(k) = "burn" <=> k = "burn"
           /\ L!Table(k) = "trigger" <=> k = "trigger"
BY DEF Kind, L!Table

\* The rows that come from events other than transfers are as many as these.
LEMMA CountEvents ==
    ASSUME L!TypeOK, LogShape, LogOrder,
           NEW T \in SUBSET DOMAIN log, NEW R,
           \A n \in T : log[n].kind # "transfer" /\ L!Row(log[n], 1) \in R,
           \A r \in R : \E n \in T : r = L!Row(log[n], 1)
    PROVE  /\ IsFiniteSet(R) /\ IsFiniteSet(T)
           /\ Cardinality(R) = Cardinality(T) /\ Cardinality(T) \in Nat
<1> DEFINE U == T \X {1}
<1>1. IsFiniteSet(T) /\ Cardinality(T) \in Nat
  BY EventsAreFinite, FS_Subset, FS_CardinalityType
<1>2. Cardinality(U) = Cardinality(T)
  <2>1. IsFiniteSet({1}) /\ Cardinality({1}) = 1
    BY FS_Singleton
  <2> QED BY <1>1, <2>1, FS_Product
<1>3. U \in SUBSET ((DOMAIN log) \X {1, 2})
  OBVIOUS
<1>4. \A x \in U : x[2] \in DOMAIN log[x[1]].of /\ L!Row(log[x[1]], x[2]) \in R
  <2> TAKE x \in U
  <2>1. x[1] \in T /\ x[2] = 1
    OBVIOUS
  <2> QED BY <2>1, LogType
<1>5. \A r \in R : \E x \in U : r = L!Row(log[x[1]], x[2])
  <2> TAKE r \in R
  <2>1. PICK n \in T : r = L!Row(log[n], 1)
    OBVIOUS
  <2>2. <<n, 1>> \in U /\ <<n, 1>>[1] = n /\ <<n, 1>>[2] = 1
    OBVIOUS
  <2> QED BY <2>1, <2>2
<1> HIDE DEF U
<1>6. IsFiniteSet(R) /\ Cardinality(R) = Cardinality(U)
  BY <1>3, <1>4, <1>5, CountLegs
<1> QED BY <1>1, <1>2, <1>6

\* The rows made from events S of some kinds.
LEMMA RowsOfKinds ==
    ASSUME L!TypeOK, LogShape, LogOrder, RowsSound,
           NEW K \in SUBSET (Kind \ {"transfer", "policy"}),
           NEW R, R = {r \in ledger : r.kind \in K}
    PROVE  /\ IsFiniteSet(R) /\ Cardinality(R) \in Nat
           /\ Cardinality(R) = Cardinality({n \in L!Indexed(reach) : log[n].kind \in K})
<1> DEFINE T == {n \in L!Indexed(reach) : log[n].kind \in K}
<1>1. T \in SUBSET DOMAIN log
  BY EventsAreFinite
<1>2. ASSUME NEW n \in T PROVE log[n].kind # "transfer" /\ L!Row(log[n], 1) \in R
  <2>1. n \in DOMAIN log /\ n \in L!Indexed(reach) /\ log[n].kind \in K
    BY <1>1
  <2>2. log[n].kind # "transfer" /\ log[n].kind # "policy"
    BY <2>1
  <2>3. 1 \in DOMAIN log[n].of
    BY <2>1, LogType
  <2>4. L!Row(log[n], 1) \in ledger
    BY <2>1, <2>2, <2>3 DEF RowsSound
  <2>5. L!Row(log[n], 1).kind = log[n].kind
    BY DEF L!Row
  <2> QED BY <2>1, <2>2, <2>4, <2>5
<1>3. ASSUME NEW r \in R PROVE \E n \in T : r = L!Row(log[n], 1)
  <2>1. PICK n \in L!Indexed(reach) :
           log[n].kind # "policy" /\ \E i \in DOMAIN log[n].of : r = L!Row(log[n], i)
    BY DEF RowsSound
  <2>2. PICK i \in DOMAIN log[n].of : r = L!Row(log[n], i)
    BY <2>1
  <2>3. r.kind = log[n].kind /\ r.kind \in K
    BY <2>2 DEF L!Row
  <2>4. n \in T /\ n \in DOMAIN log /\ log[n].kind # "transfer"
    BY <2>3, EventsAreFinite
  <2>5. i = 1
    BY <2>4, LogType
  <2> QED BY <2>2, <2>4, <2>5
<1> HIDE DEF T
<1>4. IsFiniteSet(R) /\ Cardinality(R) = Cardinality(T) /\ Cardinality(T) \in Nat
  BY <1>1, <1>2, <1>3, CountEvents
<1> QED BY <1>4 DEF T

LEMMA KindsOfTables ==
    ASSUME L!TypeOK, LogShape, RowsSound
    PROVE  /\ L!InTable("burn") = {r \in ledger : r.kind \in {"burn"}}
           /\ {r \in L!InTable("bond") : r.kind = "issued"} = {r \in ledger : r.kind \in {"issued"}}
           /\ {r \in L!InTable("bond") : r.kind # "issued"} = {r \in ledger : r.kind \in {"redeemed"}}
<1>1. ASSUME NEW r \in ledger
      PROVE  r.kind \in Kind /\ r.table = L!Table(r.kind)
  <2>1. PICK n \in L!Indexed(reach) :
           log[n].kind # "policy" /\ \E i \in DOMAIN log[n].of : r = L!Row(log[n], i)
    BY DEF RowsSound
  <2>2. r.table = L!Table(log[n].kind) /\ r.kind = log[n].kind
    BY <2>1 DEF L!Row
  <2> QED BY <2>2, LogType, EventsAreFinite
<1>2. \A r \in ledger : /\ r.table = "bond" <=> r.kind \in {"issued", "redeemed"}
                        /\ r.table = "burn" <=> r.kind = "burn"
  BY <1>1, TableOfKind
<1> QED BY <1>2 DEF L!InTable

LEMMA SumsAreRight ==
    ASSUME L!TypeOK, LogShape, LogOrder, RowsSound
    PROVE  LET S == L!Indexed(reach)
           IN  /\ L!Outstanding = L!Counts(L!OfKind("issued", S)) - L!Counts(L!OfKind("redeemed", S))
               /\ L!Burned = L!Counts(L!OfKind("burn", S))
<1> DEFINE S == L!Indexed(reach)
<1>1. ASSUME NEW k \in {"issued", "redeemed", "burn"}
      PROVE  Cardinality({r \in ledger : r.kind \in {k}}) =
            Cardinality({n \in S : log[n].kind \in {k}})
  <2>1. {k} \in SUBSET (Kind \ {"transfer", "policy"})
    BY DEF Kind
  <2> HIDE DEF S
  <2> QED BY <2>1, RowsOfKinds DEF S
<1>2. ASSUME NEW k PROVE L!OfKind(k, S) = {n \in S : log[n].kind \in {k}}
  BY DEF L!OfKind
<1>3. L!Counts(L!OfKind("burn", S)) = L!Counts({r \in ledger : r.kind \in {"burn"}})
  BY <1>1, <1>2, CountsMean
<1>4. L!Counts(L!OfKind("issued", S)) = L!Counts({r \in ledger : r.kind \in {"issued"}})
  BY <1>1, <1>2, CountsMean
<1>5. L!Counts(L!OfKind("redeemed", S)) = L!Counts({r \in ledger : r.kind \in {"redeemed"}})
  BY <1>1, <1>2, CountsMean
<1> QED BY <1>3, <1>4, <1>5, KindsOfTables DEF L!Outstanding, L!Burned

LEMMA HoldingsAreRight ==
    ASSUME L!TypeOK, LogShape, LogOrder, RowsSound, NEW h, NEW e
    PROVE  L!Holdings(h, e) = L!Balance(h, e, L!Indexed(reach))
<1> DEFINE S == L!Indexed(reach)
<1>1. S \subseteq DOMAIN log
  BY EventsAreFinite
<1>2. ASSUME NEW x \in L!Legs(e, S)
      PROVE  /\ x \in (DOMAIN log) \X {1, 2} /\ x[2] \in DOMAIN log[x[1]].of
             /\ L!Row(log[x[1]], x[2]) \in L!InTable("bond_transfer")
             /\ L!Row(log[x[1]], x[2]).of = e
             /\ L!Row(log[x[1]], x[2]).to = log[x[1]].to
             /\ L!Row(log[x[1]], x[2]).from = log[x[1]].from
  <2>1. x \in S \X {1, 2} /\ log[x[1]].kind = "transfer"
        /\ x[2] \in DOMAIN log[x[1]].of /\ log[x[1]].of[x[2]] = e
    BY DEF L!Legs
  <2>2. L!Row(log[x[1]], x[2]) \in ledger
    BY <2>1 DEF RowsSound
  <2>3. L!Row(log[x[1]], x[2]).table = "bond_transfer"
    BY <2>1 DEF L!Row, L!Table
  <2> QED BY <1>1, <2>1, <2>2, <2>3 DEF L!Row, L!InTable
<1>3. ASSUME NEW r \in L!InTable("bond_transfer"), r.of = e
      PROVE  \E x \in L!Legs(e, S) : /\ r = L!Row(log[x[1]], x[2])
                                     /\ r.to = log[x[1]].to /\ r.from = log[x[1]].from
  <2>1. PICK n \in S :
           log[n].kind # "policy" /\ \E i \in DOMAIN log[n].of : r = L!Row(log[n], i)
    BY DEF RowsSound, L!InTable
  <2>2. PICK i \in DOMAIN log[n].of : r = L!Row(log[n], i)
    BY <2>1
  <2>3. /\ r.table = L!Table(log[n].kind) /\ r.of = log[n].of[i]
        /\ r.to = log[n].to /\ r.from = log[n].from
    BY <2>2 DEF L!Row
  <2>4. n \in DOMAIN log /\ log[n].kind \in Kind /\ DOMAIN log[n].of \in {{1}, {1, 2}}
    BY <1>1, LogType
  <2>5. log[n].kind = "transfer"
    BY <2>3, <2>4, TableOfKind DEF L!InTable
  <2>6. <<n, i>> \in L!Legs(e, S)
    BY <1>3, <2>3, <2>4, <2>5 DEF L!Legs
  <2> QED BY <2>2, <2>3, <2>6
<1> HIDE DEF S
<1>4. L!Counts({r \in L!InTable("bond_transfer") : r.to = h /\ r.of = e}) =
          L!Counts(L!Received(h, e, S))
  <2> DEFINE R == {r \in L!InTable("bond_transfer") : r.to = h /\ r.of = e}
             T == L!Received(h, e, S)
  <2>1. T \in SUBSET ((DOMAIN log) \X {1, 2})
    BY <1>2 DEF L!Received
  <2>2. \A x \in T : x[2] \in DOMAIN log[x[1]].of /\ L!Row(log[x[1]], x[2]) \in R
    BY <1>2 DEF L!Received
  <2>3. \A r \in R : \E x \in T : r = L!Row(log[x[1]], x[2])
    BY <1>3 DEF L!Received
  <2> HIDE DEF R, T
  <2>4. Cardinality(R) = Cardinality(T)
    BY <2>1, <2>2, <2>3, CountLegs
  <2> QED BY <2>4, CountsMean DEF R, T
<1>5. L!Counts({r \in L!InTable("bond_transfer") : r.from = h /\ r.of = e}) =
          L!Counts(L!Sent(h, e, S))
  <2> DEFINE R == {r \in L!InTable("bond_transfer") : r.from = h /\ r.of = e}
             T == L!Sent(h, e, S)
  <2>1. T \in SUBSET ((DOMAIN log) \X {1, 2})
    BY <1>2 DEF L!Sent
  <2>2. \A x \in T : x[2] \in DOMAIN log[x[1]].of /\ L!Row(log[x[1]], x[2]) \in R
    BY <1>2 DEF L!Sent
  <2>3. \A r \in R : \E x \in T : r = L!Row(log[x[1]], x[2])
    BY <1>3 DEF L!Sent
  <2> HIDE DEF R, T
  <2>4. Cardinality(R) = Cardinality(T)
    BY <2>1, <2>2, <2>3, CountLegs
  <2> QED BY <2>4, CountsMean DEF R, T
<1> QED BY <1>4, <1>5 DEF L!Holdings, L!Balance, S

\* Balances of disjoint parts of the history add up.
LEMMA CountsAdd ==
    ASSUME NEW A, NEW B, IsFiniteSet(A), IsFiniteSet(B), A \cap B = {}
    PROVE  /\ L!Counts(A \cup B) = L!Counts(A) + L!Counts(B)
           /\ L!Counts(A) \in Nat /\ L!Counts(B) \in Nat
<1>1. Cardinality({}) = 0 /\ Cardinality(A) \in Nat /\ Cardinality(B) \in Nat
  BY FS_EmptySet, FS_CardinalityType
<1>2. Cardinality(A \cup B) = Cardinality(A) + Cardinality(B) - Cardinality(A \cap B)
  BY FS_Union
<1>3. Cardinality(A \cap B) = 0
  BY <1>1
<1> HIDE DEF L!Counts
<1>4. Cardinality(A \cup B) = Cardinality(A) + Cardinality(B)
  BY <1>1, <1>2, <1>3
<1> QED BY <1>1, <1>4, CountsMean

LEMMA BalancesAdd ==
    ASSUME LogShape, NEW A \in SUBSET DOMAIN log, NEW B \in SUBSET DOMAIN log,
           A \cap B = {}, NEW h, NEW e
    PROVE  /\ L!Balance(h, e, A \cup B) = L!Balance(h, e, A) + L!Balance(h, e, B)
           /\ L!Balance(h, e, A) \in Int /\ L!Balance(h, e, B) \in Int
<1>1. IsFiniteSet((DOMAIN log) \X {1, 2})
  <2>1. IsFiniteSet({1}) /\ {1} \cup {2} = {1, 2}
    BY FS_Singleton
  <2>2. IsFiniteSet({1, 2})
    BY <2>1, FS_AddElement
  <2>3. IsFiniteSet(DOMAIN log)
    BY LogType, FS_Interval
  <2> QED BY <2>2, <2>3, FS_Product
<1>2. ASSUME NEW C \in SUBSET DOMAIN log
      PROVE  IsFiniteSet(L!Received(h, e, C)) /\ IsFiniteSet(L!Sent(h, e, C))
  <2>1. /\ L!Received(h, e, C) \subseteq (DOMAIN log) \X {1, 2}
        /\ L!Sent(h, e, C) \subseteq (DOMAIN log) \X {1, 2}
    BY DEF L!Received, L!Sent, L!Legs
  <2> QED BY <1>1, <2>1, FS_Subset
<1>3. /\ L!Received(h, e, A \cup B) = L!Received(h, e, A) \cup L!Received(h, e, B)
      /\ L!Sent(h, e, A \cup B) = L!Sent(h, e, A) \cup L!Sent(h, e, B)
  BY DEF L!Received, L!Sent, L!Legs
<1>4. /\ L!Received(h, e, A) \cap L!Received(h, e, B) = {}
      /\ L!Sent(h, e, A) \cap L!Sent(h, e, B) = {}
  BY DEF L!Received, L!Sent, L!Legs
<1>5. /\ L!Counts(L!Received(h, e, A \cup B)) =
             L!Counts(L!Received(h, e, A)) + L!Counts(L!Received(h, e, B))
      /\ L!Counts(L!Received(h, e, A)) \in Nat /\ L!Counts(L!Received(h, e, B)) \in Nat
  BY <1>2, <1>3, <1>4, CountsAdd
<1>6. /\ L!Counts(L!Sent(h, e, A \cup B)) = L!Counts(L!Sent(h, e, A)) + L!Counts(L!Sent(h, e, B))
      /\ L!Counts(L!Sent(h, e, A)) \in Nat /\ L!Counts(L!Sent(h, e, B)) \in Nat
  BY <1>2, <1>3, <1>4, CountsAdd
<1> QED BY <1>5, <1>6 DEF L!Balance

\* No events bring a balance.
LEMMA NoLegsNoBalance ==
    ASSUME LogShape, NEW h, NEW e
    PROVE  L!Balance(h, e, {}) = 0
<1> DEFINE x == L!Balance(h, e, {})
<1>1. {} \cup {} = {} /\ {} \cap {} = {} /\ {} \in SUBSET DOMAIN log
  OBVIOUS
<1>2. L!Balance(h, e, {} \cup {}) = x + x /\ x \in Int
  BY <1>1, BalancesAdd
<1>3. x = x + x /\ x \in Int
  BY <1>1, <1>2
<1> HIDE DEF x
<1>4. x = 0
  BY <1>3
<1> QED BY <1>4 DEF x

LEMMA OwnersHold ==
    ASSUME LedgerIInv, NEW h \in Holder, NEW e \in L!ByOwner(h)
    PROVE  L!Balance(h, e, 1..reach) > 0
<1> USE DEF LedgerIInv, ChainIInv, TablesIInv
<1> DEFINE S == L!Indexed(reach)
<1>1. L!Holdings(h, e) > 0 /\ L!Holdings(h, e) = L!Balance(h, e, S) /\ e \in Epoch
  BY HoldingsAreRight DEF L!ByOwner
<1>2. S \in SUBSET DOMAIN log /\ reach \in Nat /\ reach <= Len(log)
  BY EventsAreFinite
<1>3. Unseen \in SUBSET DOMAIN log /\ S \cap Unseen = {}
  <2>1. \A n \in DOMAIN log : log[n].tx \in Nat
    BY LogType
  <2> QED BY <1>2, <2>1, ReadsAssumption DEF Unseen, L!Indexed, L!LedgerAssumption
<1>4. CASE S = {}
  <2>1. L!Balance(h, e, {}) = 0
    BY NoLegsNoBalance
  <2> QED BY <1>1, <1>4, <2>1
<1>5. CASE S # {}
  <2>1. PICK s \in S : TRUE
    BY <1>5
  <2>2. s \in 1..reach /\ s \in DOMAIN log /\ log[s].tx >= StartBlock
    BY <1>2 DEF L!Indexed
  <2>3. ASSUME NEW n \in Unseen PROVE n \in 1..reach
    <3>1. n \in DOMAIN log /\ log[n].tx < StartBlock /\ log[n].tx \in Nat /\ log[s].tx \in Nat
      BY <2>2, LogType DEF Unseen
    <3>2. StartBlock \in Nat /\ n \in Nat /\ s \in Nat /\ n >= 1
      BY <2>2, <3>1, LogType, ReadsAssumption DEF L!LedgerAssumption
    <3>3. ~(s < n)
      BY <2>2, <3>1, <3>2 DEF LogOrder
    <3> QED BY <1>2, <2>2, <3>2, <3>3
  <2>4. ASSUME NEW n \in 1..reach PROVE n \in S \cup Unseen
    <3>1. n \in DOMAIN log /\ log[n].tx \in Nat /\ StartBlock \in Nat
      BY SMTT(30), <1>2, LogType, ReadsAssumption DEF L!LedgerAssumption
    <3> QED BY <3>1 DEF L!Indexed, Unseen
  <2>5. S \subseteq 1..reach
    BY DEF L!Indexed
  <2>6. S \cup Unseen = 1..reach
    BY <2>3, <2>4, <2>5
  <2>7. L!Balance(h, e, S \cup Unseen) = L!Balance(h, e, S) + L!Balance(h, e, Unseen)
        /\ L!Balance(h, e, S) \in Int /\ L!Balance(h, e, Unseen) \in Int
    BY <1>2, <1>3, BalancesAdd
  <2>8. L!Balance(h, e, Unseen) >= 0
    BY <1>1 DEF Solvent
  <2>9. L!Balance(h, e, S) > 0
    BY <1>1
  <2>10. L!Balance(h, e, S \cup Unseen) > 0
    BY <2>7, <2>8, <2>9
  <2> QED BY <2>6, <2>10
<1> QED BY <1>4, <1>5

\* The policies that the index knows are as many as their events.
LEMMA PolicyEvents ==
    ASSUME L!TypeOK, LogShape, LogOnce, NEW kind \in {"policy", "trigger"},
           NEW P, NEW T \in SUBSET L!OfKind(kind, L!Indexed(reach)),
           \A n \in T : log[n].of[1] \in P,
           \A p \in P : \E n \in T : log[n].of[1] = p
    PROVE  IsFiniteSet(P) /\ Cardinality(P) = Cardinality(T) /\ Cardinality(P) \in Nat
<1> DEFINE f == [n \in T |-> log[n].of[1]]
<1>1. T \subseteq DOMAIN log /\ IsFiniteSet(T)
  <2>1. T \subseteq L!Indexed(reach)
    BY DEF L!OfKind
  <2> QED BY <2>1, EventsAreFinite, FS_Subset
<1>2. \A n \in T : log[n].kind = kind
  BY DEF L!OfKind
<1>3. f \in [T -> P]
  OBVIOUS
<1>4. \A m, n \in T : f[m] = f[n] => m = n
  BY <1>1, <1>2 DEF LogOnce
<1>5. \A p \in P : \E n \in T : f[n] = p
  OBVIOUS
<1>6. f \in Bijection(T, P)
  BY <1>3, <1>4, <1>5 DEF Bijection, Injection, Surjection, IsInjective
<1>7. ExistsBijection(T, P)
  BY <1>6 DEF ExistsBijection
<1> QED BY <1>1, <1>7, FS_Bijection, FS_CardinalityType

LEMMA PoliciesAreRight ==
    ASSUME L!TypeOK, LogShape, LogOnce, PoliciesSound
    PROVE  LET S == L!Indexed(reach)
           IN  /\ IsFiniteSet({p \in Policy : policy[p] # 0})
               /\ L!Written \in Nat /\ L!Active \in Nat /\ L!Active <= L!Written
               /\ L!Written = L!Counts(L!OfKind("policy", S))
               /\ L!Written - L!Active = L!Counts({i \in L!OfKind("trigger", S) :
                                              \E j \in L!OfKind("policy", S) : log[j].of = log[i].of})
<1> DEFINE S == L!Indexed(reach)
           P == {p \in Policy : policy[p] # 0}
           Q == {p \in P : p \in flipped}
           T == L!OfKind("policy", S)
           U == {i \in L!OfKind("trigger", S) :
                     \E j \in L!OfKind("policy", S) : log[j].of = log[i].of}
<1>1. \A n \in T : log[n].of[1] \in P
  <2> TAKE n \in T
  <2>1. n \in L!Indexed(reach) /\ log[n].kind = "policy" /\ n \in DOMAIN log
    BY EventsAreFinite DEF L!OfKind
  <2>2. log[n].of[1] \in Policy
    BY <2>1, LogType DEF EntryShape
  <2> QED BY <2>1, <2>2 DEF PoliciesSound, InIndex
<1>2. \A p \in P : \E n \in T : log[n].of[1] = p
  BY DEF PoliciesSound, L!OfKind
<1>3. IsFiniteSet(P) /\ Cardinality(P) = Cardinality(T) /\ Cardinality(P) \in Nat
  <2>1. T \in SUBSET L!OfKind("policy", L!Indexed(reach))
    OBVIOUS
  <2> HIDE DEF T, P
  <2> QED BY <1>1, <1>2, <2>1, PolicyEvents
<1>4. \A i \in U : i \in L!OfKind("trigger", S) /\ \E j \in T : log[j].of[1] = log[i].of[1]
  OBVIOUS
<1>5. \A i \in U : log[i].of[1] \in Q
  <2> TAKE i \in U
  <2>1. i \in L!Indexed(reach) /\ log[i].kind = "trigger"
    BY <1>4 DEF L!OfKind
  <2>2. PICK j \in T : log[j].of[1] = log[i].of[1]
    BY <1>4
  <2>3. log[i].of[1] \in P /\ log[i].of[1] \in Policy
    BY <1>1, <2>2
  <2>4. InIndex("trigger", log[i].of[1]) /\ InIndex("policy", log[i].of[1])
    BY <2>1, <2>2 DEF InIndex, L!OfKind
  <2> QED BY <2>3, <2>4 DEF PoliciesSound
<1>6. \A p \in Q : \E i \in U : log[i].of[1] = p
  <2> TAKE p \in Q
  <2>1. InIndex("policy", p) /\ InIndex("trigger", p)
    BY DEF PoliciesSound
  <2>2. PICK i \in S : log[i].kind = "trigger" /\ log[i].of[1] = p
    BY <2>1 DEF InIndex
  <2>3. PICK j \in S : log[j].kind = "policy" /\ log[j].of[1] = p
    BY <2>1 DEF InIndex
  <2>4. log[j].of = log[i].of
    <3>1. i \in DOMAIN log /\ j \in DOMAIN log
      BY EventsAreFinite
    <3>2. /\ log[i].of \in Seq(Epoch \cup Policy \cup {Zero}) /\ Len(log[i].of) = 1
          /\ log[j].of \in Seq(Epoch \cup Policy \cup {Zero}) /\ Len(log[j].of) = 1
      BY <2>2, <2>3, <3>1, LogType DEF EntryShape
    <3> QED BY <2>2, <2>3, <3>2
  <2> QED BY <2>2, <2>3, <2>4 DEF L!OfKind
<1>7. Cardinality(Q) = Cardinality(U)
  <2>1. U \in SUBSET L!OfKind("trigger", L!Indexed(reach))
    OBVIOUS
  <2> HIDE DEF U, Q
  <2> QED BY <1>5, <1>6, <2>1, PolicyEvents
<1>8. {p \in Policy : policy[p] # 0 /\ p \notin flipped} = P \ Q
  OBVIOUS
<1>9. IsFiniteSet(P \ Q) /\ Cardinality(P \ Q) = Cardinality(P) - Cardinality(Q)
      /\ Cardinality(Q) \in Nat /\ Cardinality(P \ Q) \in Nat
  <2>1. IsFiniteSet(Q) /\ P \cap Q = Q
    BY <1>3, FS_Subset
  <2>2. IsFiniteSet(P \ Q) /\ Cardinality(P \ Q) = Cardinality(P) - Cardinality(P \cap Q)
    <3> HIDE DEF Q, P
    <3> QED BY <1>3, FS_Difference
  <2> QED BY <2>1, <2>2, FS_CardinalityType
<1>10. L!Written = Cardinality(P) /\ L!Active = Cardinality(P \ Q)
  BY <1>8, CountsMean DEF L!Written, L!Active
<1> HIDE DEF P, Q
<1>11. L!Written \in Nat /\ L!Active \in Nat /\ L!Active <= L!Written /\
      L!Written - L!Active = Cardinality(Q)
  BY <1>3, <1>9, <1>10
<1> QED BY <1>3, <1>7, <1>10, <1>11, CountsMean DEF P

LEMMA MomentIsOne == LedgerIInv => L!OneMoment
<1> SUFFICES ASSUME LedgerIInv PROVE L!OneMoment
  OBVIOUS
<1> USE DEF LedgerIInv, ChainIInv, TablesIInv
<1>1. \A h \in Holder, e \in Epoch :
          /\ L!Holdings(h, e) = L!Balance(h, e, L!Indexed(reach))
          /\ e \in L!ByOwner(h) => L!Balance(h, e, 1..reach) > 0
  BY HoldingsAreRight, OwnersHold
<1> QED BY <1>1, SumsAreRight, PoliciesAreRight DEF L!OneMoment

-----------------------------------------------------------------------------
(* The chain *)

Draft == [kind : Kind, from : Holder \cup {Zero}, to : Holder \cup {Zero},
          of : Seq(Epoch \cup Policy \cup {Zero})]

\* The log has all the events of one kind about p before the next one.
Logged(kind, p) == \E n \in DOMAIN log : log[n].kind = kind /\ log[n].of[1] = p

\* What the contracts let one transaction emit.
Allowed(events) ==
    /\ events \in Seq(Draft)
    /\ \A i \in DOMAIN events : EntryShape(events[i])
    /\ \A i, j \in DOMAIN events : i # j => events[i].kind \notin Lone
    /\ \A i \in DOMAIN events :
          /\ events[i].kind = "policy" => ~Logged("policy", events[i].of[1])
          /\ events[i].kind = "trigger" => /\ Logged("policy", events[i].of[1])
                                           /\ ~Logged("trigger", events[i].of[1])
          /\ events[i].kind = "transfer" =>
                 i = 1 /\ (events[i].from \in Holder => L!Holds(events[i].from, events[i].of))

\* The log goes on with these events, in one block.
Grows(events) ==
    /\ log' \in Seq(Entry)
    /\ DOMAIN log' = 1..Len(log') /\ Len(log') = Len(log) + Len(events)
    /\ Len(events) \in Nat /\ DOMAIN events = 1..Len(events)
    /\ \A n \in DOMAIN log : n \in DOMAIN log' /\ log'[n] = log[n]
    /\ \A i \in DOMAIN events :
          LET l == log'[Len(log) + i] IN
          /\ l.kind = events[i].kind /\ l.from = events[i].from /\ l.to = events[i].to
          /\ l.of = events[i].of /\ l.tx = mined + 1 /\ l.index = i
    /\ \A n \in DOMAIN log' \ DOMAIN log : \E i \in DOMAIN events : n = Len(log) + i

LEMMA MineGrows ==
    ASSUME L!TypeOK, LogShape, NEW events \in Seq(Draft), L!Mine(events)
    PROVE  Grows(events)
<1> DEFINE new == [i \in DOMAIN events |->
                        [kind |-> events[i].kind, from |-> events[i].from, to |-> events[i].to,
                         of |-> events[i].of, tx |-> mined + 1, index |-> i,
                         at |-> IF events[i].kind = "burn" THEN clock ELSE 0]]
<1>1. Len(events) \in Nat /\ DOMAIN events = 1..Len(events)
      /\ \A i \in DOMAIN events : events[i] \in Draft
  OBVIOUS
<1>2. mined + 1 \in Nat /\ clock \in Int
  BY ReadsAssumption DEF L!TypeOK, L!LedgerAssumption
<1>3. ASSUME NEW i \in DOMAIN events PROVE new[i] \in Entry
  <2>1. events[i] \in Draft /\ i \in Nat
    BY <1>1
  <2> QED BY <1>2, <2>1 DEF Draft, Entry
<1>4. new \in Seq(Entry) /\ Len(new) = Len(events)
  BY <1>1, <1>3
<1>5. log' = log \o new /\ log \in Seq(Entry)
  BY DEF L!Mine, LogShape
<1>6. \A i \in DOMAIN events :
          /\ new[i].kind = events[i].kind /\ new[i].from = events[i].from
          /\ new[i].to = events[i].to
          /\ new[i].of = events[i].of /\ new[i].tx = mined + 1 /\ new[i].index = i
  OBVIOUS
<1> HIDE DEF new
<1>7. /\ log' \in Seq(Entry) /\ Len(log') = Len(log) + Len(events)
      /\ \A i \in 1..Len(log) + Len(events) :
            log'[i] = IF i <= Len(log) THEN log[i] ELSE new[i - Len(log)]
  <2>1. /\ log \o new \in Seq(Entry) /\ Len(log \o new) = Len(log) + Len(new)
        /\ \A i \in 1..Len(log) + Len(new) :
              (log \o new)[i] = IF i <= Len(log) THEN log[i] ELSE new[i - Len(log)]
    BY <1>4, <1>5, ConcatProperties
  <2> QED BY <1>4, <1>5, <2>1
<1>8. DOMAIN log' = 1..Len(log') /\ DOMAIN log = 1..Len(log) /\ Len(log) \in Nat
  BY <1>5, <1>7
<1>9. \A n \in DOMAIN log : n \in DOMAIN log' /\ log'[n] = log[n]
  BY <1>1, <1>7, <1>8
<1>10. \A i \in DOMAIN events : log'[Len(log) + i] = new[i]
  <2> TAKE i \in DOMAIN events
  <2>1. Len(log) + i \in 1..Len(log) + Len(events) /\ ~(Len(log) + i <= Len(log))
        /\ Len(log) + i - Len(log) = i
    BY <1>1, <1>8
  <2> QED BY <1>7, <2>1
<1>11. \A n \in DOMAIN log' \ DOMAIN log : \E i \in DOMAIN events : n = Len(log) + i
  <2> TAKE n \in DOMAIN log' \ DOMAIN log
  <2>1. n - Len(log) \in DOMAIN events /\ n = Len(log) + (n - Len(log))
    BY <1>1, <1>7, <1>8
  <2> QED BY <2>1
<1> QED BY <1>1, <1>6, <1>7, <1>8, <1>9, <1>10, <1>11 DEF Grows

LEMMA GrowingOrder ==
    ASSUME L!TypeOK, LogShape, LogOrder, LogOnce, NEW events, Allowed(events), Grows(events),
           mined' = mined + 1
    PROVE  LogShape' /\ LogOrder' /\ LogOnce'
<1> DEFINE N == Len(log)
<1>1. /\ N \in Nat /\ DOMAIN log = 1..N /\ mined \in Nat
      /\ \A n \in DOMAIN log : n \in DOMAIN log' /\ log'[n] = log[n] /\ log[n].tx \in 1..mined
  <2>1. mined \in Nat
    BY ReadsAssumption DEF L!TypeOK, L!LedgerAssumption
  <2> QED BY <2>1, LogType DEF Grows, LogOrder
<1>2. ASSUME NEW n \in DOMAIN log', n \notin DOMAIN log
      PROVE  \E i \in DOMAIN events :
                /\ n = N + i /\ i \in 1..Len(events) /\ Len(events) \in Nat
                /\ log'[n].kind = events[i].kind /\ log'[n].of = events[i].of
                /\ log'[n].tx = mined + 1 /\ log'[n].index = i
  <2>1. PICK i \in DOMAIN events : n = N + i
    BY <1>2 DEF Grows
  <2> QED BY <2>1 DEF Grows
<1>3. LogShape'
  <2>1. ASSUME NEW n \in DOMAIN log' PROVE EntryShape(log'[n])
    <3>1. CASE n \in DOMAIN log
      BY <3>1, <1>1 DEF LogShape
    <3>2. CASE n \notin DOMAIN log
      <4>1. PICK i \in DOMAIN events : log'[n].kind = events[i].kind /\ log'[n].of = events[i].of
        BY <3>2, <1>2
      <4> QED BY <4>1 DEF Allowed, EntryShape
    <3> QED BY <3>1, <3>2
  <2> QED BY <2>1 DEF LogShape, Grows, EntryShape
<1>4. LogOrder'
  <2>1. ASSUME NEW n \in DOMAIN log' PROVE log'[n].tx \in 1..mined'
    <3>1. CASE n \in DOMAIN log
      BY <3>1, <1>1
    <3>2. CASE n \notin DOMAIN log
      BY <3>2, <1>1, <1>2
    <3> QED BY <3>1, <3>2
  <2>2. ASSUME NEW m \in DOMAIN log', NEW n \in DOMAIN log', m < n
        PROVE  \/ log'[m].tx < log'[n].tx
               \/ /\ log'[m].tx = log'[n].tx /\ log'[m].index < log'[n].index
                  /\ log'[m].kind \notin Lone /\ log'[n].kind \notin Lone
    <3>1. CASE n \in DOMAIN log
      <4>1. m \in DOMAIN log
        BY <1>1, <2>2, <3>1 DEF Grows
      <4> QED BY <1>1, <2>2, <3>1, <4>1 DEF LogOrder
    <3>2. CASE n \notin DOMAIN log /\ m \in DOMAIN log
      <4>1. log'[n].tx = mined + 1 /\ log'[m].tx \in 1..mined
        BY <1>1, <1>2, <3>2
      <4> QED BY <1>1, <4>1
    <3>3. CASE n \notin DOMAIN log /\ m \notin DOMAIN log
      <4>1. PICK i \in DOMAIN events :
                /\ m = N + i /\ i \in 1..Len(events) /\ Len(events) \in Nat
                /\ log'[m].kind = events[i].kind
                /\ log'[m].tx = mined + 1 /\ log'[m].index = i
        BY <1>2, <3>3
      <4>2. PICK j \in DOMAIN events :
                /\ n = N + j /\ j \in 1..Len(events)
                /\ log'[n].kind = events[j].kind
                /\ log'[n].tx = mined + 1 /\ log'[n].index = j
        BY <1>2, <3>3
      <4>3. i < j
        BY <1>1, <2>2, <4>1, <4>2
      <4>4. events[i].kind \notin Lone /\ events[j].kind \notin Lone
        BY <4>3 DEF Allowed
      <4> QED BY <4>1, <4>2, <4>3, <4>4
    <3> QED BY <3>1, <3>2, <3>3
  <2> QED BY <2>1, <2>2 DEF LogOrder
<1>5. ASSUME NEW m \in DOMAIN log', NEW n \in DOMAIN log', n \notin DOMAIN log,
             log'[m].kind = log'[n].kind, log'[m].kind \in {"policy", "trigger"},
             log'[m].of[1] = log'[n].of[1]
      PROVE  m = n
  <2>1. PICK j \in DOMAIN events :
            n = N + j /\ log'[n].kind = events[j].kind /\ log'[n].of = events[j].of
    BY <1>2, <1>5
  <2>2. ~Logged(log'[n].kind, log'[n].of[1])
    BY <1>5, <2>1 DEF Allowed
  <2>3. m \notin DOMAIN log
    BY <1>1, <1>5, <2>2 DEF Logged
  <2>4. PICK i \in DOMAIN events : m = N + i /\ log'[m].kind = events[i].kind
    BY <1>2, <2>3
  <2>5. i = j
    BY <1>5, <2>1, <2>4 DEF Allowed, Lone
  <2> QED BY <2>1, <2>4, <2>5
<1>6. LogOnce'
  <2>1. ASSUME NEW m \in DOMAIN log', NEW n \in DOMAIN log',
             log'[m].kind = log'[n].kind, log'[m].kind \in {"policy", "trigger"},
             log'[m].of[1] = log'[n].of[1]
        PROVE  m = n
    <3>1. CASE m \in DOMAIN log /\ n \in DOMAIN log
      BY <1>1, <2>1, <3>1 DEF LogOnce
    <3>2. CASE n \notin DOMAIN log
      BY <2>1, <3>2, <1>5
    <3>3. CASE m \notin DOMAIN log
      BY <2>1, <3>3, <1>5
    <3> QED BY <3>1, <3>2, <3>3
  <2>2. ASSUME NEW n \in DOMAIN log', log'[n].kind = "trigger"
        PROVE  \E m \in 1..n-1 : log'[m].kind = "policy" /\ log'[m].of[1] = log'[n].of[1]
    <3>1. CASE n \in DOMAIN log
      <4>1. PICK m \in 1..n-1 : log[m].kind = "policy" /\ log[m].of[1] = log[n].of[1]
        BY <1>1, <2>2, <3>1 DEF LogOnce
      <4>2. m \in DOMAIN log
        BY <1>1, <3>1
      <4> QED BY <1>1, <3>1, <4>1, <4>2
    <3>2. CASE n \notin DOMAIN log
      <4>1. PICK j \in DOMAIN events :
                n = N + j /\ j \in 1..Len(events) /\ Len(events) \in Nat
                  /\ log'[n].kind = events[j].kind /\ log'[n].of = events[j].of
        BY <1>2, <3>2
      <4>2. Logged("policy", log'[n].of[1])
        BY <2>2, <4>1 DEF Allowed
      <4>3. PICK m \in DOMAIN log : log[m].kind = "policy" /\ log[m].of[1] = log'[n].of[1]
        BY <4>2 DEF Logged
      <4>4. m \in 1..n-1
        BY <1>1, <4>1
      <4> QED BY <1>1, <4>3, <4>4
    <3> QED BY <3>1, <3>2
  <2> QED BY <2>1, <2>2 DEF LogOnce
<1> QED BY <1>3, <1>4, <1>6

LEMMA FiniteLegs ==
    ASSUME NEW n \in Nat, NEW S \in SUBSET ((1..n) \X {1, 2})
    PROVE  IsFiniteSet(S) /\ Cardinality(S) \in Nat
<1>1. IsFiniteSet({1, 2})
  <2>1. IsFiniteSet({1}) /\ {1} \cup {2} = {1, 2}
    BY FS_Singleton
  <2> QED BY <2>1, FS_AddElement
<1>2. IsFiniteSet(1..n)
  BY FS_Interval
<1>3. IsFiniteSet(S)
  BY <1>1, <1>2, FS_Product, FS_Subset
<1> QED BY <1>3, FS_CardinalityType

\* A transfer takes no more from its sender than the sender has.
LEMMA GrowingBalance ==
    ASSUME L!TypeOK, LogShape, LogShape', Solvent, NEW events, Allowed(events), Grows(events),
           NEW h \in Holder, NEW e \in Epoch
    PROVE  L!Balance(h, e, DOMAIN log)' >= 0
<1> DEFINE N == Len(log)
           J == {j \in DOMAIN events[1].of : events[1].of[j] = e}
           was == L!Sent(h, e, DOMAIN log)
           is == L!Sent(h, e, DOMAIN log)'
           got == L!Received(h, e, DOMAIN log)
           gets == L!Received(h, e, DOMAIN log)'
<1>1. /\ \A n \in DOMAIN log : n \in DOMAIN log' /\ log'[n] = log[n]
      /\ N \in Nat /\ DOMAIN log = 1..N /\ DOMAIN log' = 1..Len(log') /\ Len(log') \in Nat
      /\ Len(events) \in Nat
  BY LogType DEF Grows
<1>2. /\ was \in SUBSET ((1..N) \X {1, 2}) /\ got \in SUBSET ((1..N) \X {1, 2})
      /\ is \in SUBSET ((1..Len(log')) \X {1, 2})
      /\ gets \in SUBSET ((1..Len(log')) \X {1, 2})
  BY <1>1 DEF L!Received, L!Sent, L!Legs
<1>3. /\ IsFiniteSet(was) /\ IsFiniteSet(got) /\ IsFiniteSet(is) /\ IsFiniteSet(gets)
      /\ Cardinality(was) \in Nat /\ Cardinality(got) \in Nat
      /\ Cardinality(is) \in Nat /\ Cardinality(gets) \in Nat
  <2> HIDE DEF was, is, got, gets
  <2> QED BY <1>1, <1>2, FiniteLegs
<1>4. got \subseteq gets /\ Cardinality(got) <= Cardinality(gets)
  <2>1. got \subseteq gets
    BY <1>1 DEF L!Received, L!Legs
  <2> HIDE DEF got, gets
  <2> QED BY <1>3, <2>1, FS_Subset
<1>5. ASSUME NEW x \in is, x \notin was
      PROVE  /\ x[1] = N + 1 /\ x[2] \in J /\ x = <<x[1], x[2]>>
             /\ events # <<>> /\ events[1].kind = "transfer" /\ events[1].from = h
  <2>1. /\ x[1] \in DOMAIN log' /\ x[2] \in {1, 2} /\ x = <<x[1], x[2]>>
        /\ log'[x[1]].kind = "transfer" /\ log'[x[1]].from = h
        /\ x[2] \in DOMAIN log'[x[1]].of /\ log'[x[1]].of[x[2]] = e
    BY DEF L!Sent, L!Legs
  <2>2. x[1] \notin DOMAIN log
    BY <1>1, <1>5, <2>1 DEF L!Sent, L!Legs
  <2>3. PICK i \in DOMAIN events :
            /\ x[1] = N + i /\ log'[x[1]].kind = events[i].kind
            /\ log'[x[1]].from = events[i].from /\ log'[x[1]].of = events[i].of
    BY SMTT(30), <2>1, <2>2 DEF Grows
  <2>4. i = 1
    BY <2>1, <2>3 DEF Allowed
  <2>5. events # <<>>
    BY <2>3
  <2> QED BY <2>1, <2>3, <2>4, <2>5
<1>6. Cardinality(got) - Cardinality(was) >= 0
  BY <1>3, CountsMean DEF Solvent, L!Balance
<1>7. CASE is \subseteq was
  <2>1. Cardinality(is) <= Cardinality(was)
    <3> HIDE DEF is, was
    <3> QED BY <1>3, <1>7, FS_Subset
  <2>2. Cardinality(gets) - Cardinality(is) >= 0
    <3> HIDE DEF is, was, got, gets
    <3> QED BY <1>3, <1>4, <1>6, <2>1
  <2> QED BY <2>2, CountsMean DEF L!Balance
<1>8. CASE ~(is \subseteq was)
  <2>1. PICK y \in is : y \notin was
    BY <1>8
  <2>2. 1 \in DOMAIN events /\ events[1].kind = "transfer" /\ events[1].from = h
    <3>1. events # <<>> /\ events \in Seq(Draft)
      BY <1>5, <2>1 DEF Allowed
    <3> QED BY <3>1, <1>5, <2>1
  <2>3. L!Holds(h, events[1].of)
    BY <2>2 DEF Allowed
  <2>4. L!Balance(h, e, DOMAIN log) >= Cardinality(J)
    BY <2>3, CountsMean DEF L!Holds
  <2>5. IsFiniteSet(J) /\ Cardinality(J) \in Nat
    <3>1. DOMAIN events[1].of \in {{1}, {1, 2}}
      <4>1. 1..1 = {1} /\ 1..2 = {1, 2}
        OBVIOUS
      <4>2. events[1] \in Draft /\ EntryShape(events[1])
        BY <2>2 DEF Allowed
      <4>3. events[1].of \in Seq(Epoch \cup Policy \cup {Zero})
        BY <4>2 DEF Draft
      <4> QED BY <4>1, <4>2, <4>3 DEF EntryShape
    <3>2. IsFiniteSet({1, 2})
      <4>1. IsFiniteSet({1}) /\ {1} \cup {2} = {1, 2}
        BY FS_Singleton
      <4> QED BY <4>1, FS_AddElement
    <3>3. J \subseteq {1, 2}
      BY <3>1
    <3> HIDE DEF J
    <3> QED BY <3>2, <3>3, FS_Subset, FS_CardinalityType
  <2>6. is \subseteq was \cup ({N + 1} \X J)
    <3>1. ASSUME NEW x \in is, x \notin was PROVE x \in {N + 1} \X J
      <4>1. x[1] = N + 1 /\ x[2] \in J /\ x = <<x[1], x[2]>>
        BY <1>5, <3>1
      <4> HIDE DEF J, is, was
      <4> QED BY <4>1
    <3> QED BY <3>1
  <2>7. /\ IsFiniteSet({N + 1} \X J)
        /\ Cardinality({N + 1} \X J) = Cardinality(J)
    <3>1. IsFiniteSet({N + 1}) /\ Cardinality({N + 1}) = 1
      BY FS_Singleton
    <3> HIDE DEF J
    <3>2. IsFiniteSet({N + 1} \X J) /\ Cardinality({N + 1} \X J) = 1 * Cardinality(J)
      BY <2>5, <3>1, FS_Product
    <3> QED BY <2>5, <3>2
  <2>8. Cardinality(is) <= Cardinality(was) + Cardinality(J)
    <3> HIDE DEF J, is, was
    <3> DEFINE K == {N + 1} \X J
    <3>1. IsFiniteSet(K) /\ Cardinality(K) = Cardinality(J)
      BY <2>7
    <3> HIDE DEF K
    <3>2. IsFiniteSet(was \cup K)
          /\ Cardinality(was \cup K) = Cardinality(was) + Cardinality(K) - Cardinality(was \cap K)
      BY <1>3, <3>1, FS_Union
    <3>3. IsFiniteSet(was \cap K)
      BY <1>3, FS_Intersection
    <3>4. Cardinality(was \cap K) \in Nat
      BY <3>3, FS_CardinalityType
    <3>5. Cardinality(is) <= Cardinality(was \cup K)
      BY <2>6, <3>2, FS_Subset DEF K
    <3> QED BY <1>3, <2>5, <3>1, <3>2, <3>4, <3>5
  <2>9. Cardinality(got) - Cardinality(was) >= Cardinality(J)
    BY <2>4, CountsMean DEF L!Balance
  <2>10. Cardinality(gets) - Cardinality(is) >= 0
    <3> HIDE DEF is, was, got, gets, J
    <3> QED BY <1>3, <1>4, <2>5, <2>8, <2>9
  <2> QED BY <2>10, CountsMean DEF L!Balance
<1> QED BY <1>7, <1>8

LEMMA GrowingSolvent ==
    ASSUME L!TypeOK, LogShape, LogOrder, LogOnce, Solvent, NEW events, Allowed(events), Grows(events),
           mined' = mined + 1
    PROVE  Solvent'
<1>1. LogShape' /\ LogOrder'
  BY GrowingOrder
<1>2. /\ \A n \in DOMAIN log : n \in DOMAIN log' /\ log'[n] = log[n] /\ log[n].tx \in 1..mined
      /\ mined \in Nat /\ StartBlock \in Nat
      /\ \A n \in DOMAIN log' : log'[n].tx \in 1..mined + 1
      /\ \A n \in DOMAIN log' \ DOMAIN log : log'[n].tx = mined + 1
  <2>1. mined \in Nat /\ StartBlock \in Nat
    BY ReadsAssumption DEF L!TypeOK, L!LedgerAssumption
  <2>2. \A n \in DOMAIN log' \ DOMAIN log : log'[n].tx = mined + 1
    BY DEF Grows
  <2> QED BY <1>1, <2>1, <2>2 DEF Grows, LogOrder
<1>3. ASSUME NEW h \in Holder, NEW e \in Epoch PROVE L!Balance(h, e, DOMAIN log)' >= 0
  BY <1>1, <1>3, GrowingBalance
<1>4. ASSUME NEW h \in Holder, NEW e \in Epoch PROVE L!Balance(h, e, Unseen)' >= 0
  <2>1. CASE mined + 1 < StartBlock
    <3>1. Unseen' = DOMAIN log'
      BY <1>2, <2>1 DEF Unseen
    <3> QED BY <1>3, <3>1 DEF L!Balance, L!Received, L!Sent, L!Legs
  <2>2. CASE ~(mined + 1 < StartBlock)
    <3>1. Unseen' = Unseen /\ Unseen \subseteq DOMAIN log
      BY <1>2, <2>2 DEF Unseen
    <3>2. L!Received(h, e, Unseen)' = L!Received(h, e, Unseen) /\
          L!Sent(h, e, Unseen)' = L!Sent(h, e, Unseen)
      BY <1>2, <3>1 DEF L!Received, L!Sent, L!Legs
    <3>3. L!Balance(h, e, Unseen) >= 0
      BY DEF Solvent
    <3> QED BY <3>2, <3>3, CountsMean DEF L!Balance
  <2> QED BY <2>1, <2>2
<1> QED BY <1>3, <1>4 DEF Solvent

\* What is in the tables stays as it is when the chain goes on.
LEMMA GrowingTables ==
    ASSUME L!TypeOK, LogShape, TablesIInv, NEW events, Grows(events), mined' = mined + 1,
           UNCHANGED <<L!tables, reach>>
    PROVE  TablesIInv' /\ L!Indexed(reach)' = L!Indexed(reach)
<1> USE DEF TablesIInv
<1>1. /\ \A n \in DOMAIN log : n \in DOMAIN log' /\ log'[n] = log[n]
      /\ \A n \in DOMAIN log' \ DOMAIN log : log'[n].tx = mined + 1
  BY DEF Grows
<1>2. /\ reach' = reach /\ 1..reach \subseteq DOMAIN log /\ mined \in Nat /\ synced \in 0..mined
      /\ ledger' = ledger /\ policy' = policy /\ flipped' = flipped /\ synced' = synced
  <2>1. mined \in Nat
    BY ReadsAssumption DEF L!TypeOK, L!LedgerAssumption
  <2>2. reach \in Nat /\ reach <= Len(log) /\ DOMAIN log = 1..Len(log) /\ Len(log) \in Nat
    BY EventsAreFinite, LogType
  <2> QED BY <2>1, <2>2 DEF L!TypeOK, L!tables
<1>3. L!Indexed(reach)' = L!Indexed(reach) /\ L!Indexed(reach) \subseteq DOMAIN log
  BY <1>1, <1>2 DEF L!Indexed
<1>4. Covered'
  BY <1>1, <1>2 DEF Covered
<1>5. RowsSound'
  <2>1. ASSUME NEW r \in ledger' PROVE \E n \in L!Indexed(reach)' :
          log'[n].kind # "policy" /\ \E i \in DOMAIN log'[n].of : r = L!Row(log'[n], i)
    BY <1>1, <1>2, <1>3 DEF RowsSound
  <2>2. ASSUME NEW n \in L!Indexed(reach)', log'[n].kind # "policy", NEW i \in DOMAIN log'[n].of
        PROVE  L!Row(log'[n], i) \in ledger'
    BY <1>1, <1>2, <1>3, <2>2 DEF RowsSound
  <2> QED BY <1>2, <2>1, <2>2 DEF RowsSound
<1>6. ASSUME NEW kind, NEW p PROVE InIndex(kind, p)' <=> InIndex(kind, p)
  BY <1>1, <1>3 DEF InIndex
<1>7. PoliciesSound'
  <2>1. ASSUME NEW p \in Policy, policy[p] # 0
        PROVE  \E n \in L!Indexed(reach)' :
                  log'[n].kind = "policy" /\ log'[n].of[1] = p /\ policy[p] = log'[n].tx
    BY <1>1, <1>3, <2>1 DEF PoliciesSound
  <2> QED BY <1>2, <1>6, <2>1 DEF PoliciesSound
<1> QED BY <1>3, <1>4, <1>5, <1>7

LEMMA Positions ==
    ASSUME LogShape, NEW n \in Nat, 0 < n, n <= Len(log)
    PROVE  n \in DOMAIN log
<1>1. Len(log) \in Nat /\ n \in 1..Len(log)
  BY DEF LogShape
<1>2. DOMAIN log = 1..Len(log)
  BY DEF LogShape
<1> QED BY <1>1, <1>2

LEMMA GrowingHeight ==
    ASSUME L!TypeOK, LogShape, LogOrder, NEW events, Grows(events), mined' = mined + 1, reach' = reach
    PROVE  L!Height \in Int /\ L!Height' \in Int /\ L!Height <= L!Height'
<1>1. reach \in Nat /\ reach <= Len(log) /\ Len(log) \in Nat /\ mined \in Nat
  BY EventsAreFinite, LogType, ReadsAssumption DEF L!TypeOK, L!LedgerAssumption
<1>2. /\ \A n \in DOMAIN log : log'[n] = log[n] /\ log[n].tx \in Nat
      /\ Len(log') = Len(log) + Len(events) /\ Len(events) \in Nat
  BY LogType DEF Grows
<1>3. CASE reach < Len(log)
  <2>1. reach + 1 \in Nat /\ 0 < reach + 1 /\ reach + 1 <= Len(log) /\ reach # Len(log')
    BY <1>1, <1>2, <1>3
  <2>2. reach + 1 \in DOMAIN log
    BY <2>1, Positions
  <2>3. L!Height = log[reach + 1].tx - 1 /\ L!Height' = log[reach + 1].tx - 1
    <3>1. reach # Len(log)
      BY <1>1, <1>3
    <3>2. reach' = reach /\ log'[reach + 1] = log[reach + 1]
      BY <1>2, <2>2
    <3>3. reach' # Len(log')
      BY <2>1, <3>2
    <3>4. L!Height' = log'[reach + 1].tx - 1
      BY <3>2, <3>3 DEF L!Height
    <3> QED BY <3>1, <3>2, <3>4 DEF L!Height
  <2>4. log[reach + 1].tx \in Nat
    BY <1>2, <2>2
  <2> QED BY <2>3, <2>4
<1>4. CASE reach = Len(log) /\ Len(events) = 0
  BY <1>1, <1>2, <1>4 DEF L!Height
<1>5. CASE reach = Len(log) /\ Len(events) # 0
  <2>1. 1 \in DOMAIN events
    BY <1>2, <1>5 DEF Grows
  <2>2. log'[Len(log) + 1].tx = mined + 1
    BY <2>1 DEF Grows
  <2> QED BY <1>1, <1>2, <1>5, <2>2 DEF L!Height
<1>6. reach < Len(log) \/ reach = Len(log)
  <2>1. reach \in Int /\ Len(log) \in Int /\ reach <= Len(log)
    BY <1>1
  <2> HIDE DEF L!Height
  <2> QED BY <2>1
<1> QED BY <1>3, <1>4, <1>5, <1>6

LEMMA MineStep ==
    ASSUME LedgerIInv, NEW events, Allowed(events), L!Mine(events)
    PROVE  LedgerIInv'
<1> USE DEF LedgerIInv, ChainIInv
<1>1. Grows(events) /\ mined' = mined + 1 /\ mined < MaxBlocks
  BY MineGrows DEF Allowed, L!Mine
<1>2. /\ UNCHANGED <<L!tables, reach>> /\ clock' = clock /\ handled' = handled /\ ledger' = ledger
      /\ asked' = asked /\ cutoff' = cutoff /\ part' = part /\ grown' = grown /\ shaken' = shaken
      /\ waited' = IF asked = "health" THEN waited + 1 ELSE 0
      /\ restarts' = restarts /\ policy' = policy /\ flipped' = flipped /\ synced' = synced
      /\ reach' = reach
  BY DEF L!Mine, L!tables, L!request
<1>3. ChainIInv'
  BY <1>1, GrowingOrder, GrowingSolvent
<1>4. TablesIInv'
  BY <1>1, <1>2, GrowingTables
<1>5. L!TypeOK'
  <2>1. mined' \in 0..MaxBlocks /\ mined \in Nat
    BY <1>1, ReadsAssumption DEF L!TypeOK, L!LedgerAssumption
  <2>2. /\ Len(log) \in Nat /\ Len(events) \in Nat /\ Len(log') = Len(log) + Len(events)
        /\ handled \in Nat /\ reach \in Nat
    BY <1>1, LogType, EventsAreFinite DEF Grows, L!TypeOK
  <2>3. handled' \in 0..Len(log') /\ reach' \in handled'..Len(log')
    BY <1>2, <2>2 DEF L!TypeOK
  <2>4. synced' \in 0..mined' /\ policy' \in [Policy -> 0..mined']
    BY <1>1, <1>2, <2>1 DEF L!TypeOK
  <2>5. waited' \in Nat
    BY <1>2 DEF L!TypeOK
  <2> QED BY <1>2, <2>1, <2>3, <2>4, <2>5 DEF L!TypeOK
<1>6. DashboardsSound'
  BY <1>2, CountsMean DEF AnswersIInv, DashboardsSound, Near, L!Burned, L!BurnedSince,
        L!Written, L!InTable
<1>7. HealthSound'
  <2> SUFFICES ASSUME asked = "health", ~shaken
               PROVE  /\ part["head"] # Nothing => mined' <= part["head"] + waited'
                      /\ part["synced"] # Nothing => part["synced"] <= L!Height'
    BY <1>2 DEF HealthSound
  <2>1. mined \in Nat /\ waited \in Nat /\ part \in [L!Query -> Int \cup {Nothing}]
    BY ReadsAssumption DEF L!TypeOK, L!LedgerAssumption
  <2>2. part["head"] # Nothing => part["head"] \in Int /\ mined <= part["head"] + waited
    BY <2>1 DEF AnswersIInv, HealthSound, L!Query
  <2>3. part["synced"] # Nothing => part["synced"] \in Int /\ part["synced"] <= L!Height
    BY <2>1 DEF AnswersIInv, HealthSound, L!Query
  <2>4. L!Height \in Int /\ L!Height' \in Int /\ L!Height <= L!Height'
    BY <1>1, <1>2, GrowingHeight
  <2> QED BY <1>1, <1>2, <2>1, <2>2, <2>3, <2>4
<1>8. Unasked'
  BY <1>2 DEF AnswersIInv, Unasked
<1> QED BY <1>3, <1>4, <1>5, <1>6, <1>7, <1>8 DEF AnswersIInv

LEMMA ChainStep == LedgerIInv /\ L!Chain => LedgerIInv'
<1> SUFFICES ASSUME LedgerIInv, L!Chain PROVE LedgerIInv'
  OBVIOUS
<1>1. CASE L!Mine(<<>>)
  <2>1. Allowed(<<>>)
    BY DEF Allowed
  <2> QED BY <1>1, <2>1, MineStep
<1>2. CASE L!BurnLumina
  <2> DEFINE events == <<L!Event("burn", Zero, Zero)>>
  <2>1. /\ events \in Seq(Draft) /\ DOMAIN events = {1} /\ events[1].kind = "burn"
        /\ EntryShape(events[1])
    BY DEF Draft, L!Event, Kind, EntryShape
  <2>2. Allowed(events)
    BY <2>1 DEF Allowed
  <2> QED BY <1>2, <2>2, MineStep DEF L!BurnLumina
<1>3. ASSUME NEW h \in Holder, NEW e \in Epoch, L!Issue(h, e) PROVE LedgerIInv'
  <2> DEFINE events == <<L!Transfer(Zero, h, <<e>>), L!Event("issued", h, e)>>
  <2>1. /\ events \in Seq(Draft) /\ DOMAIN events = {1, 2}
        /\ events[1].kind = "transfer" /\ events[2].kind = "issued" /\ events[1].from = Zero
        /\ EntryShape(events[1]) /\ EntryShape(events[2])
    BY DEF Draft, L!Event, L!Transfer, Kind, EntryShape
  <2>2. Zero \notin Holder
    BY ReadsAssumption DEF L!LedgerAssumption
  <2>3. Allowed(events)
    BY <2>1, <2>2 DEF Allowed, Lone
  <2> QED BY <1>3, <2>3, MineStep DEF L!Issue
<1>4. ASSUME NEW h \in Holder, NEW e \in Epoch, L!Redeem(h, e) PROVE LedgerIInv'
  <2> DEFINE events == <<L!Transfer(h, Zero, <<e>>), L!Event("redeemed", h, e)>>
  <2>1. /\ events \in Seq(Draft) /\ DOMAIN events = {1, 2}
        /\ events[1].kind = "transfer" /\ events[2].kind = "redeemed" /\ events[1].from = h
        /\ events[1].of = <<e>>
        /\ EntryShape(events[1]) /\ EntryShape(events[2])
    BY DEF Draft, L!Event, L!Transfer, Kind, EntryShape
  <2>2. L!Holds(h, <<e>>) /\ L!Mine(events)
    BY <1>4 DEF L!Redeem
  <2>3. Allowed(events)
    BY <2>1, <2>2 DEF Allowed, Lone
  <2> QED BY <2>2, <2>3, MineStep
<1>5. ASSUME NEW h \in Holder, NEW k \in Holder, NEW epochs \in Seq(Epoch),
             Len(epochs) = 1 \/ Len(epochs) = 2, L!Hand(h, k, epochs)
      PROVE  LedgerIInv'
  <2> DEFINE events == <<L!Transfer(h, k, epochs)>>
  <2>1. /\ events \in Seq(Draft) /\ DOMAIN events = {1}
        /\ events[1].kind = "transfer" /\ events[1].from = h
        /\ events[1].of = epochs
        /\ EntryShape(events[1])
    BY <1>5 DEF Draft, L!Transfer, Kind, EntryShape
  <2>2. L!Holds(h, epochs) /\ L!Mine(events)
    BY <1>5 DEF L!Hand
  <2>3. Allowed(events)
    BY <2>1, <2>2 DEF Allowed
  <2> QED BY <2>2, <2>3, MineStep
<1>6. ASSUME NEW p \in Policy, NEW kind, NEW n \in DOMAIN log, LogShape
      PROVE  log[n].kind = kind /\ log[n].kind \in {"policy", "trigger"} /\ log[n].of[1] = p
                => log[n].of = <<p>>
  <2>1. log[n].of \in Seq(Epoch \cup Policy \cup {Zero}) /\ EntryShape(log[n])
    BY <1>6, LogType
  <2> QED BY <2>1 DEF EntryShape
<1>7. ASSUME NEW p \in Policy, NEW kind \in {"policy", "trigger"}
      PROVE  Logged(kind, p) <=> L!InLog(kind, p)
  BY <1>6 DEF Logged, L!InLog, LedgerIInv, ChainIInv
<1>8. ASSUME NEW p \in Policy, L!Purchase(p) PROVE LedgerIInv'
  <2> DEFINE events == <<L!Event("policy", Zero, p)>>
  <2>1. /\ events \in Seq(Draft) /\ DOMAIN events = {1} /\ events[1].kind = "policy"
        /\ events[1].of[1] = p /\ EntryShape(events[1])
    BY DEF Draft, L!Event, Kind, EntryShape
  <2>2. ~Logged("policy", p) /\ L!Mine(events)
    BY <1>7, <1>8 DEF L!Purchase
  <2>3. Allowed(events)
    BY <2>1, <2>2 DEF Allowed
  <2> QED BY <2>2, <2>3, MineStep
<1>9. ASSUME NEW p \in Policy, L!Submit(p) PROVE LedgerIInv'
  <2> DEFINE events == <<L!Event("trigger", Zero, p)>>
  <2>1. /\ events \in Seq(Draft) /\ DOMAIN events = {1} /\ events[1].kind = "trigger"
        /\ events[1].of[1] = p /\ EntryShape(events[1])
    BY DEF Draft, L!Event, Kind, EntryShape
  <2>2. Logged("policy", p) /\ ~Logged("trigger", p) /\ L!Mine(events)
    BY <1>7, <1>9 DEF L!Submit
  <2>3. Allowed(events)
    BY <2>1, <2>2 DEF Allowed
  <2> QED BY <2>2, <2>3, MineStep
<1>10. ASSUME NEW h \in Holder, NEW k \in Holder, NEW d \in Epoch, NEW e \in Epoch,
              L!Hand(h, k, <<e>>) \/ L!Hand(h, k, <<d, e>>)
       PROVE  LedgerIInv'
  <2>1. /\ <<e>> \in Seq(Epoch) /\ Len(<<e>>) = 1
        /\ <<d, e>> \in Seq(Epoch) /\ Len(<<d, e>>) = 2
    OBVIOUS
  <2>2. CASE L!Hand(h, k, <<e>>)
    BY <1>5, <2>1, <2>2
  <2>3. CASE L!Hand(h, k, <<d, e>>)
    BY <1>5, <2>1, <2>3
  <2> QED BY <1>10, <2>2, <2>3
<1> HIDE DEF LedgerIInv
<1> QED BY <1>1, <1>2, <1>3, <1>4, <1>8, <1>9, <1>10 DEF L!Chain

\* The chain's part of the invariant is about the chain alone.
LEMMA ChainKept ==
    ASSUME ChainIInv, UNCHANGED L!chain
    PROVE  ChainIInv'
<1> USE DEF ChainIInv
<1>1. log' = log /\ mined' = mined
  BY DEF L!chain
<1>2. LogShape' /\ LogOrder' /\ LogOnce'
  BY <1>1 DEF LogShape, LogOrder, LogOnce
<1>3. Unseen' = Unseen
  BY <1>1 DEF Unseen
<1>4. ASSUME NEW h \in Holder, NEW e \in Epoch
      PROVE  L!Balance(h, e, DOMAIN log)' >= 0 /\ L!Balance(h, e, Unseen)' >= 0
  <2>1. L!Balance(h, e, DOMAIN log) >= 0 /\ L!Balance(h, e, Unseen) >= 0
    BY DEF Solvent
  <2>2. L!Received(h, e, DOMAIN log)' = L!Received(h, e, DOMAIN log)
        /\ L!Sent(h, e, DOMAIN log)' = L!Sent(h, e, DOMAIN log)
    BY <1>1 DEF L!Received, L!Sent, L!Legs
  <2>3. L!Received(h, e, Unseen)' = L!Received(h, e, Unseen)
        /\ L!Sent(h, e, Unseen)' = L!Sent(h, e, Unseen)
    BY <1>1, <1>3 DEF L!Received, L!Sent, L!Legs
  <2> QED BY <2>1, <2>2, <2>3, CountsMean DEF L!Balance
<1> QED BY <1>2, <1>4 DEF Solvent

-----------------------------------------------------------------------------
(* The handlers *)

\* Handlers of a block that run again find their rows; the others add them.
LEMMA InsertedAgain ==
    ASSUME L!TypeOK, LogShape, RowsSound, NEW n \in L!Indexed(reach), log[n].kind # "policy"
    PROVE  L!Inserted(log[n]) = ledger
<1>1. \A i \in DOMAIN log[n].of : L!Row(log[n], i) \in ledger
  BY DEF RowsSound
<1> QED BY <1>1 DEF L!Inserted

LEMMA InsertedAnew ==
    ASSUME L!TypeOK, LogShape, LogOrder, RowsSound,
           NEW n \in DOMAIN log, n \notin L!Indexed(reach)
    PROVE  L!Inserted(log[n]) = ledger \cup {L!Row(log[n], i) : i \in DOMAIN log[n].of}
<1>1. ASSUME NEW i \in DOMAIN log[n].of, NEW s \in ledger
      PROVE  ~(s.table = L!Row(log[n], i).table /\ s.id = L!Row(log[n], i).id)
  <2>1. PICK m \in L!Indexed(reach) :
           log[m].kind # "policy" /\ \E j \in DOMAIN log[m].of : s = L!Row(log[m], j)
    BY DEF RowsSound
  <2>2. PICK j \in DOMAIN log[m].of : s = L!Row(log[m], j)
    BY <2>1
  <2>3. s.id = L!Key(log[m], j) /\ L!Row(log[n], i).id = L!Key(log[n], i)
    BY <2>2 DEF L!Row
  <2>4. m \in DOMAIN log /\ m # n
    BY EventsAreFinite
  <2>5. L!Key(log[m], j) # L!Key(log[n], i)
    BY <2>4, KeysDiffer
  <2> QED BY <2>3, <2>5
<1> QED BY <1>1 DEF L!Inserted

\* What one handler does to the tables: nothing, or its own.
LEMMA InsertEffect ==
    ASSUME L!TypeOK, LogShape, LogOrder, LogOnce, RowsSound, PoliciesSound,
           NEW n \in DOMAIN log, log[n].tx >= StartBlock, n <= reach + 1, L!Insert(log[n])
    PROVE  /\ n <= reach => UNCHANGED <<ledger, policy, flipped>>
           /\ n > reach /\ log[n].kind = "policy" =>
                 /\ policy' = [policy EXCEPT ![log[n].of[1]] = log[n].tx]
                 /\ log[n].of[1] \in Policy /\ policy[log[n].of[1]] = 0
                 /\ UNCHANGED <<ledger, flipped>>
           /\ n > reach /\ log[n].kind # "policy" =>
                 /\ ledger' = ledger \cup {L!Row(log[n], i) : i \in DOMAIN log[n].of}
                 /\ UNCHANGED policy
                 /\ flipped' = IF log[n].kind = "trigger" /\ policy[log[n].of[1]] # 0
                               THEN flipped \cup {log[n].of[1]} ELSE flipped
<1> DEFINE p == log[n].of[1]
<1>1. /\ reach \in Nat /\ n \in Nat /\ n >= 1 /\ log[n].tx \in 1..mined
      /\ policy \in [Policy -> 0..mined]
  BY SMTT(30), EventsAreFinite, LogType DEF LogOrder, L!TypeOK
<1>2. n \in L!Indexed(reach) <=> n <= reach
  BY <1>1 DEF L!Indexed
<1>3. log[n].kind \in {"policy", "trigger"} => p \in Policy
  BY LogType DEF EntryShape
<1>4. CASE n <= reach /\ log[n].kind = "policy"
  <2>1. InIndex("policy", p)
    BY <1>2, <1>4 DEF InIndex
  <2>2. policy[p] # 0
    BY <1>3, <1>4, <2>1 DEF PoliciesSound
  <2>3. policy' = policy
    BY <1>1, <1>3, <1>4, <2>2 DEF L!Insert
  <2> QED BY <1>1, <1>4, <2>3 DEF L!Insert
<1>5. CASE n <= reach /\ log[n].kind # "policy"
  <2>1. ledger' = ledger
    BY <1>2, <1>5, InsertedAgain DEF L!Insert
  <2>2. ASSUME log[n].kind = "trigger", policy[p] # 0 PROVE p \in flipped
    <3>1. InIndex("trigger", p) /\ InIndex("policy", p)
      BY <1>2, <1>3, <1>5, <2>2 DEF InIndex, PoliciesSound
    <3> QED BY <1>3, <2>2, <3>1 DEF PoliciesSound
  <2>3. flipped' = flipped
    BY <1>5, <2>2 DEF L!Insert
  <2> QED BY <1>1, <1>5, <2>1, <2>3 DEF L!Insert
<1>6. CASE n > reach /\ log[n].kind = "policy"
  <2>1. ~InIndex("policy", p)
    BY <1>2, <1>6, EventsAreFinite DEF InIndex, LogOnce
  <2>2. policy[p] = 0
    BY <1>3, <1>6, <2>1 DEF PoliciesSound, InIndex
  <2>3. policy' = [policy EXCEPT ![p] = log[n].tx]
    BY <1>1, <1>3, <1>6, <2>2 DEF L!Insert
  <2> QED BY <1>1, <1>3, <1>6, <2>2, <2>3 DEF L!Insert
<1>7. CASE n > reach /\ log[n].kind # "policy"
  <2>1. ledger' = ledger \cup {L!Row(log[n], i) : i \in DOMAIN log[n].of}
    BY <1>2, <1>7, <1>1, InsertedAnew DEF L!Insert
  <2> QED BY <1>1, <1>7, <2>1 DEF L!Insert
<1> QED BY <1>1, <1>4, <1>5, <1>6, <1>7

\* What a handler leaves: the tables as they were, with reach moved over events
\* that are not indexed, or the tables with the rows of the next event.
Idles == UNCHANGED <<ledger, policy, flipped>> /\ L!Indexed(reach)' = L!Indexed(reach)

Stores(n) ==
    /\ n \in DOMAIN log /\ n \notin L!Indexed(reach) /\ L!Indexed(reach)' = L!Indexed(reach) \cup {n}
    /\ \A m \in L!Indexed(reach) : m < n
    /\ log[n].kind = "policy" =>
          /\ policy' = [policy EXCEPT ![log[n].of[1]] = log[n].tx]
          /\ log[n].of[1] \in Policy /\ policy[log[n].of[1]] = 0
          /\ UNCHANGED <<ledger, flipped>>
    /\ log[n].kind # "policy" =>
          /\ ledger' = ledger \cup {L!Row(log[n], i) : i \in DOMAIN log[n].of}
          /\ UNCHANGED policy
          /\ flipped' = IF log[n].kind = "trigger" /\ policy[log[n].of[1]] # 0
                        THEN flipped \cup {log[n].of[1]} ELSE flipped

LEMMA HandleEffect ==
    ASSUME L!TypeOK, LogShape, LogOrder, LogOnce, RowsSound, PoliciesSound, L!Handle
    PROVE  /\ Idles \/ \E n \in DOMAIN log : Stores(n)
           /\ handled' \in 0..Len(log) /\ reach' \in handled'..Len(log)
           /\ reach' \in {reach, reach + 1} /\ log' = log /\ mined' = mined /\ synced' = synced
<1> DEFINE n == handled + 1
<1>1. /\ reach \in Nat /\ reach <= Len(log) /\ Len(log) \in Nat /\ DOMAIN log = 1..Len(log)
      /\ handled \in Nat /\ handled <= reach /\ handled < Len(log) /\ n \in DOMAIN log
      /\ StartBlock \in Nat
      /\ \A m \in DOMAIN log : log[m].tx \in Nat
  BY EventsAreFinite, LogType, ReadsAssumption DEF L!TypeOK, L!Handle, L!LedgerAssumption
<1>2. /\ handled' = n /\ log' = log /\ mined' = mined /\ synced' = synced
      /\ reach' = IF reach < n THEN n ELSE reach
      /\ IF log[n].tx < StartBlock THEN UNCHANGED <<ledger, policy, flipped>> ELSE L!Insert(log[n])
  BY DEF L!Handle, L!chain
<1>3. n <= reach + 1 /\ handled' \in 0..Len(log) /\ reach' \in handled'..Len(log)
      /\ reach' \in {reach, reach + 1}
  BY <1>1, <1>2
<1>4. CASE n <= reach
  <2>1. reach' = reach /\ L!Indexed(reach)' = L!Indexed(reach)
    BY <1>1, <1>2, <1>4 DEF L!Indexed
  <2>2. UNCHANGED <<ledger, policy, flipped>>
    <3>1. CASE log[n].tx < StartBlock
      BY <1>2, <3>1
    <3>2. CASE ~(log[n].tx < StartBlock)
      <4>1. log[n].tx >= StartBlock /\ L!Insert(log[n])
        BY <1>1, <1>2, <3>2
      <4> HIDE DEF n
      <4> QED BY <1>1, <1>3, <1>4, <4>1, InsertEffect
    <3> QED BY <3>1, <3>2
  <2> QED BY <1>2, <1>3, <2>1, <2>2 DEF Idles
<1>5. CASE n = reach + 1 /\ log[n].tx < StartBlock
  <2>1. L!Indexed(reach)' = L!Indexed(reach)
    BY <1>1, <1>2, <1>5 DEF L!Indexed
  <2> QED BY <1>2, <1>3, <1>5, <2>1 DEF Idles
<1>6. CASE n = reach + 1 /\ ~(log[n].tx < StartBlock)
  <2>1. L!Indexed(reach)' = L!Indexed(reach) \cup {n} /\ n \notin L!Indexed(reach)
        /\ \A m \in L!Indexed(reach) : m < n
    BY <1>1, <1>2, <1>6 DEF L!Indexed
  <2>2. log[n].tx >= StartBlock /\ L!Insert(log[n]) /\ n > reach
    BY <1>1, <1>2, <1>6
  <2> HIDE DEF n
  <2>3. Stores(n)
    BY <1>1, <1>3, <2>1, <2>2, InsertEffect DEF Stores
  <2> QED BY <1>1, <1>2, <1>3, <2>3
<1>7. n <= reach \/ n = reach + 1
  <2>1. n \in Int /\ reach \in Int /\ n <= reach + 1
    BY <1>1, <1>3
  <2> HIDE DEF n
  <2> QED BY <2>1
<1> QED BY <1>4, <1>5, <1>6, <1>7

LEMMA NewRowsAreFinite ==
    ASSUME LogShape, NEW n \in DOMAIN log
    PROVE  /\ IsFiniteSet({L!Row(log[n], i) : i \in DOMAIN log[n].of})
           /\ log[n].kind # "transfer" =>
                 {L!Row(log[n], i) : i \in DOMAIN log[n].of} = {L!Row(log[n], 1)}
<1>1. CASE DOMAIN log[n].of = {1}
  <2>1. {L!Row(log[n], i) : i \in DOMAIN log[n].of} = {L!Row(log[n], 1)}
    BY <1>1
  <2> QED BY <2>1, FS_Singleton
<1>2. CASE DOMAIN log[n].of = {1, 2} /\ log[n].kind = "transfer"
  <2>1. {L!Row(log[n], i) : i \in DOMAIN log[n].of} = {L!Row(log[n], 1)} \cup {L!Row(log[n], 2)}
    BY <1>2
  <2>2. IsFiniteSet({L!Row(log[n], 1)})
    BY FS_Singleton
  <2> QED BY <1>2, <2>1, <2>2, FS_AddElement
<1> QED BY <1>1, <1>2, LogType

LEMMA HandleTables ==
    ASSUME LedgerIInv, L!Handle
    PROVE  TablesIInv'
<1> USE DEF LedgerIInv, ChainIInv, TablesIInv
<1>1. /\ Idles \/ \E n \in DOMAIN log : Stores(n)
      /\ reach' \in {reach, reach + 1} /\ log' = log /\ synced' = synced /\ reach \in Nat
  BY HandleEffect, EventsAreFinite
<1>2. Covered'
  BY <1>1, LogType DEF Covered
<1>3. CASE Idles
  <2>1. UNCHANGED <<ledger, policy, flipped, log>> /\ L!Indexed(reach)' = L!Indexed(reach)
    BY <1>1, <1>3 DEF Idles
  <2>2. RowsSound'
    BY <2>1 DEF RowsSound
  <2>3. PoliciesSound'
    BY <2>1 DEF PoliciesSound, InIndex
  <2> QED BY <1>2, <2>2, <2>3
<1>4. ASSUME NEW n \in DOMAIN log, Stores(n), log[n].kind = "policy" PROVE TablesIInv'
  <2> DEFINE p == log[n].of[1]
  <2>1. /\ L!Indexed(reach)' = L!Indexed(reach) \cup {n} /\ log' = log /\ ledger' = ledger
        /\ flipped' = flipped /\ policy' = [policy EXCEPT ![p] = log[n].tx] /\ p \in Policy
        /\ n \notin L!Indexed(reach) /\ policy[p] = 0
        /\ \A m \in L!Indexed(reach) : m < n
    BY <1>1, <1>4 DEF Stores
  <2>2. RowsSound'
    BY <1>4, <2>1 DEF RowsSound
  <2>3. /\ policy \in [Policy -> 0..mined] /\ log[n].tx # 0
        /\ L!Indexed(reach) \subseteq DOMAIN log
        /\ DOMAIN log \subseteq Nat
    BY EventsAreFinite, LogType DEF L!TypeOK, LogOrder
  <2>4. ~InIndex("trigger", p)
    <3> SUFFICES ASSUME NEW m \in L!Indexed(reach), log[m].kind = "trigger", log[m].of[1] = p
                 PROVE  FALSE
      BY DEF InIndex
    <3>1. m \in DOMAIN log /\ m \in Nat /\ m < n /\ n \in Nat
      BY <2>1, <2>3
    <3>2. PICK k \in 1..m-1 : log[k].kind = "policy" /\ log[k].of[1] = p
      BY <3>1 DEF LogOnce
    <3>3. k \in DOMAIN log /\ k # n
      BY <3>1, <3>2, LogType
    <3> QED BY <1>4, <3>2, <3>3 DEF LogOnce
  <2>5. ASSUME NEW q \in Policy
        PROVE  /\ InIndex("trigger", q)' <=> InIndex("trigger", q)
               /\ InIndex("policy", q)' <=> InIndex("policy", q) \/ q = p
    BY <1>4, <2>1 DEF InIndex
  <2>6. ASSUME NEW q \in Policy
        PROVE  /\ policy'[q] # 0 => \E m \in L!Indexed(reach)' :
                  log'[m].kind = "policy" /\ log'[m].of[1] = q /\ policy'[q] = log'[m].tx
               /\ policy'[q] = 0 => ~InIndex("policy", q)'
               /\ q \in flipped' <=> InIndex("policy", q)' /\ InIndex("trigger", q)'
    <3>1. CASE q = p
      <4>1. policy'[q] = log[n].tx /\ n \in L!Indexed(reach)'
        BY <2>1, <2>3, <3>1
      <4>2. q \notin flipped
        BY <2>4, <3>1 DEF PoliciesSound
      <4> QED BY <1>4, <2>1, <2>3, <2>4, <2>5, <3>1, <4>1, <4>2
    <3>2. CASE q # p
      <4>1. policy'[q] = policy[q]
        BY <2>1, <2>3, <3>2
      <4>2. policy[q] # 0 => \E m \in L!Indexed(reach)' :
                log'[m].kind = "policy" /\ log'[m].of[1] = q /\ policy[q] = log'[m].tx
        BY <2>1 DEF PoliciesSound
      <4> HIDE DEF p
      <4> QED BY <2>1, <2>5, <3>2, <4>1, <4>2 DEF PoliciesSound
    <3> QED BY <3>1, <3>2
  <2>7. PoliciesSound'
    BY <2>6 DEF PoliciesSound
  <2> QED BY <1>2, <2>2, <2>7
<1>5. ASSUME NEW n \in DOMAIN log, Stores(n), log[n].kind # "policy" PROVE TablesIInv'
  <2> DEFINE p == log[n].of[1]
             new == {L!Row(log[n], i) : i \in DOMAIN log[n].of}
  <2>1. /\ L!Indexed(reach)' = L!Indexed(reach) \cup {n} /\ log' = log
        /\ ledger' = ledger \cup new /\ policy' = policy
        /\ flipped' = IF log[n].kind = "trigger" /\ policy[p] # 0 THEN flipped \cup {p} ELSE flipped
        /\ n \notin L!Indexed(reach)
        /\ \A m \in L!Indexed(reach) : m < n
    BY <1>1, <1>5 DEF Stores
  <2>2. IsFiniteSet(ledger')
    BY <2>1, NewRowsAreFinite, FS_Union DEF RowsSound
  <2>3. RowsSound'
    <3>1. ASSUME NEW r \in ledger' PROVE \E m \in L!Indexed(reach)' :
              log'[m].kind # "policy" /\ \E i \in DOMAIN log'[m].of : r = L!Row(log'[m], i)
      <4>1. CASE r \in ledger
        BY <2>1, <4>1 DEF RowsSound
      <4>2. CASE r \in new
        BY <1>5, <2>1, <4>2
      <4> QED BY <2>1, <4>1, <4>2
    <3>2. ASSUME NEW m \in L!Indexed(reach)', log'[m].kind # "policy", NEW i \in DOMAIN log'[m].of
          PROVE  L!Row(log'[m], i) \in ledger'
      BY <2>1, <3>2 DEF RowsSound
    <3> QED BY <2>2, <3>1, <3>2 DEF RowsSound
  <2>4. ASSUME NEW q \in Policy
        PROVE  /\ InIndex("policy", q)' <=> InIndex("policy", q)
               /\ InIndex("trigger", q)' <=>
                     InIndex("trigger", q) \/ (log[n].kind = "trigger" /\ q = p)
    BY <1>5, <2>1 DEF InIndex
  <2>5. ASSUME NEW q \in Policy
        PROVE  q \in flipped' <=> InIndex("policy", q)' /\ InIndex("trigger", q)'
    <3>1. policy[q] # 0 <=> InIndex("policy", q)
      BY DEF PoliciesSound, InIndex
    <3>2. q \in flipped <=> InIndex("policy", q) /\ InIndex("trigger", q)
      BY DEF PoliciesSound
    <3>3. q \in flipped' <=> q \in flipped \/ (log[n].kind = "trigger" /\ policy[q] # 0 /\ q = p)
      BY <2>1
    <3> QED BY <2>4, <3>1, <3>2, <3>3
  <2>6. ASSUME NEW q \in Policy, policy'[q] # 0
        PROVE  \E m \in L!Indexed(reach)' :
                  log'[m].kind = "policy" /\ log'[m].of[1] = q /\ policy'[q] = log'[m].tx
    BY <2>1, <2>6 DEF PoliciesSound
  <2>7. PoliciesSound'
    BY <2>1, <2>4, <2>5, <2>6 DEF PoliciesSound
  <2> QED BY <1>2, <2>3, <2>7
<1> QED BY <1>1, <1>3, <1>4, <1>5

\* A sum grows by at most one.
LEMMA GrowsByOne ==
    ASSUME NEW A, IsFiniteSet(A), NEW x, NEW B, B = A \/ B = A \cup {x}
    PROVE  /\ L!Counts(A) \in Nat /\ L!Counts(B) \in Nat
           /\ L!Counts(A) <= L!Counts(B) /\ L!Counts(B) <= L!Counts(A) + 1
<1>1. Cardinality(A) \in Nat
  BY FS_CardinalityType
<1>2. Cardinality(A \cup {x}) = IF x \in A THEN Cardinality(A) ELSE Cardinality(A) + 1
  BY FS_AddElement
<1> QED BY <1>1, <1>2, CountsMean

LEMMA HandleCounts ==
    ASSUME L!TypeOK, ChainIInv, TablesIInv, L!Handle, cutoff' = cutoff
    PROVE  /\ L!Burned \in Nat /\ L!Burned <= L!Burned' /\ L!Burned' <= L!Burned + 1
           /\ L!BurnedSince(cutoff) \in Nat /\ L!BurnedSince(cutoff) <= L!BurnedSince(cutoff)'
           /\ L!BurnedSince(cutoff)' <= L!BurnedSince(cutoff) + 1
           /\ L!Written \in Nat /\ L!Written <= L!Written' /\ L!Written' <= L!Written + 1
           /\ L!Burned' \in Nat /\ L!BurnedSince(cutoff)' \in Nat /\ L!Written' \in Nat
<1> USE DEF ChainIInv, TablesIInv
<1> DEFINE since == {r \in L!InTable("burn") : r.at >= cutoff}
           P == {p \in Policy : policy[p] # 0}
<1>1. /\ Idles \/ \E n \in DOMAIN log : Stores(n)
      /\ log' = log
  BY HandleEffect
<1>2. IsFiniteSet(L!InTable("burn")) /\ IsFiniteSet(since)
  <2>1. IsFiniteSet(ledger) /\ L!InTable("burn") \subseteq ledger /\ since \subseteq ledger
    BY DEF RowsSound, L!InTable
  <2> QED BY <2>1, FS_Subset
<1>3. IsFiniteSet(P)
  BY PoliciesAreRight
<1>4. \E x : /\ L!InTable("burn")' \in {L!InTable("burn"), L!InTable("burn") \cup {x}}
             /\ since' \in {since, since \cup {x}}
  <2>1. CASE Idles
    BY <2>1 DEF Idles, L!InTable
  <2>2. ASSUME NEW n \in DOMAIN log, Stores(n), log[n].kind = "policy"
        PROVE  L!InTable("burn")' = L!InTable("burn") /\ since' = since
    BY <2>2 DEF Stores, L!InTable
  <2>3. ASSUME NEW n \in DOMAIN log, Stores(n), log[n].kind \notin {"policy", "burn"}
        PROVE  L!InTable("burn")' = L!InTable("burn") /\ since' = since
    <3>1. ledger' = ledger \cup {L!Row(log[n], i) : i \in DOMAIN log[n].of}
      BY <2>3 DEF Stores
    <3>2. \A i \in DOMAIN log[n].of : L!Row(log[n], i).table # "burn"
      BY <2>3, LogType, TableOfKind DEF L!Row
    <3>3. L!InTable("burn")' = L!InTable("burn")
      BY <3>1, <3>2 DEF L!InTable
    <3> QED BY <3>3
  <2>4. ASSUME NEW n \in DOMAIN log, Stores(n), log[n].kind = "burn"
        PROVE  LET x == L!Row(log[n], 1)
               IN  /\ L!InTable("burn")' = L!InTable("burn") \cup {x}
                   /\ since' \in {since, since \cup {x}}
    <3>1. ledger' = ledger \cup {L!Row(log[n], 1)}
      BY <2>4, NewRowsAreFinite DEF Stores
    <3>2. L!Row(log[n], 1).table = "burn"
      BY <2>4 DEF L!Row, L!Table
    <3>3. L!InTable("burn")' = L!InTable("burn") \cup {L!Row(log[n], 1)}
      BY <3>1, <3>2 DEF L!InTable
    <3> QED BY <3>3
  <2>5. ASSUME NEW n \in DOMAIN log, Stores(n)
        PROVE  \E x : /\ L!InTable("burn")' \in {L!InTable("burn"), L!InTable("burn") \cup {x}}
                      /\ since' \in {since, since \cup {x}}
    <3> HIDE DEF since
    <3>1. CASE log[n].kind = "burn"
      BY <2>4, <2>5, <3>1
    <3>2. CASE log[n].kind # "burn"
      BY <2>2, <2>3, <2>5, <3>2
    <3> QED BY <3>1, <3>2
  <2> QED BY <1>1, <2>1, <2>5
<1>5. \E x : P' \in {P, P \cup {x}}
  <2>1. CASE Idles
    BY <2>1 DEF Idles
  <2>2. ASSUME NEW n \in DOMAIN log, Stores(n), log[n].kind # "policy"
        PROVE  P' = P
    BY <2>2 DEF Stores
  <2>3. ASSUME NEW n \in DOMAIN log, Stores(n), log[n].kind = "policy"
        PROVE  P' = P \cup {log[n].of[1]}
    <3>1. /\ policy' = [policy EXCEPT ![log[n].of[1]] = log[n].tx] /\ log[n].of[1] \in Policy
          /\ policy \in [Policy -> 0..mined] /\ log[n].tx # 0
      BY SMTT(30), <2>3, LogType DEF Stores, L!TypeOK, LogOrder
    <3> QED BY <3>1
  <2> QED BY <1>1, <2>1, <2>2, <2>3
<1>6. /\ L!Burned = L!Counts(L!InTable("burn")) /\ L!Burned' = L!Counts(L!InTable("burn")')
      /\ L!BurnedSince(cutoff) = L!Counts(since) /\ L!BurnedSince(cutoff)' = L!Counts(since')
      /\ L!Written = L!Counts(P) /\ L!Written' = L!Counts(P')
  BY CountsMean DEF L!Burned, L!BurnedSince, L!Written
<1> HIDE DEF since, P
<1>7. /\ L!Burned \in Nat /\ L!Burned <= L!Burned' /\ L!Burned' <= L!Burned + 1 /\ L!Burned' \in Nat
      /\ L!BurnedSince(cutoff) \in Nat /\ L!BurnedSince(cutoff) <= L!BurnedSince(cutoff)'
      /\ L!BurnedSince(cutoff)' <= L!BurnedSince(cutoff) + 1 /\ L!BurnedSince(cutoff)' \in Nat
  <2>1. PICK x : /\ L!InTable("burn")' \in {L!InTable("burn"), L!InTable("burn") \cup {x}}
                 /\ since' \in {since, since \cup {x}}
    BY <1>4
  <2>2. /\ L!Counts(L!InTable("burn")) \in Nat /\ L!Counts(L!InTable("burn")') \in Nat
        /\ L!Counts(L!InTable("burn")) <= L!Counts(L!InTable("burn")')
        /\ L!Counts(L!InTable("burn")') <= L!Counts(L!InTable("burn")) + 1
    BY <1>2, <2>1, GrowsByOne
  <2>3. /\ L!Counts(since) \in Nat /\ L!Counts(since') \in Nat
        /\ L!Counts(since) <= L!Counts(since') /\ L!Counts(since') <= L!Counts(since) + 1
    BY <1>2, <2>1, GrowsByOne
  <2> QED BY <1>6, <2>2, <2>3
<1>8. L!Written \in Nat /\ L!Written <= L!Written' /\ L!Written' <= L!Written + 1 /\
      L!Written' \in Nat
  <2>1. PICK x : P' \in {P, P \cup {x}}
    BY <1>5
  <2>2. /\ L!Counts(P) \in Nat /\ L!Counts(P') \in Nat
        /\ L!Counts(P) <= L!Counts(P') /\ L!Counts(P') <= L!Counts(P) + 1
    BY <1>3, <2>1, GrowsByOne
  <2> QED BY <1>6, <2>2
<1> QED BY <1>7, <1>8

LEMMA HandleHeight ==
    ASSUME L!TypeOK, LogShape, LogOrder, LogOnce, RowsSound, PoliciesSound, L!Handle
    PROVE  L!Height \in Int /\ L!Height' \in Int /\ L!Height <= L!Height'
<1>1. reach \in Nat /\ reach <= Len(log) /\ Len(log) \in Nat /\ mined \in Nat
  BY EventsAreFinite, LogType, ReadsAssumption DEF L!TypeOK, L!LedgerAssumption
<1>2. \A n \in DOMAIN log : log[n].tx \in Nat /\ log[n].tx <= mined
  BY EventsAreFinite, LogType, ReadsAssumption DEF L!TypeOK, L!LedgerAssumption, LogOrder
<1>3. reach' \in {reach, reach + 1} /\ log' = log /\ mined' = mined /\ reach' <= Len(log)
  <2>1. /\ handled' \in 0..Len(log) /\ reach' \in handled'..Len(log)
        /\ reach' \in {reach, reach + 1} /\ log' = log /\ mined' = mined
    BY HandleEffect
  <2> QED BY <1>1, <2>1
<1>4. CASE reach' = reach
  <2>1. reach < Len(log) => reach + 1 \in DOMAIN log
    <3>1. reach < Len(log) => reach + 1 \in Nat /\ 0 < reach + 1 /\ reach + 1 <= Len(log)
      BY <1>1
    <3> QED BY <3>1, Positions
  <2>2. L!Height' = L!Height
    BY <1>3, <1>4 DEF L!Height
  <2>3. L!Height \in Int
    <3>1. CASE reach = Len(log)
      BY <1>1, <3>1 DEF L!Height
    <3>2. CASE reach # Len(log)
      <4>1. reach < Len(log)
        BY <1>1, <3>2
      <4>2. L!Height = log[reach + 1].tx - 1 /\ log[reach + 1].tx \in Nat
        BY <1>2, <2>1, <3>2, <4>1 DEF L!Height
      <4> QED BY <4>2
    <3> QED BY <3>1, <3>2
  <2> QED BY <2>2, <2>3
<1>5. CASE reach' = reach + 1
  <2>1. reach < Len(log) /\ reach + 1 \in DOMAIN log /\ reach # Len(log)
    <3>1. reach + 1 <= Len(log)
      BY <1>3, <1>5
    <3>2. reach < Len(log) /\ reach + 1 \in Nat /\ 0 < reach + 1 /\ reach # Len(log)
      BY <1>1, <3>1
    <3>3. reach + 1 \in DOMAIN log
      BY <3>1, <3>2, Positions
    <3> QED BY <3>2, <3>3
  <2>2. L!Height = log[reach + 1].tx - 1 /\ log[reach + 1].tx \in Nat /\ log[reach + 1].tx <= mined
    BY <1>1, <1>2, <2>1 DEF L!Height
  <2>3. CASE reach + 1 = Len(log)
    <3>1. reach' = Len(log') /\ mined' = mined
      BY <1>3, <1>5, <2>3
    <3>2. L!Height' = mined
      BY <3>1 DEF L!Height
    <3> QED BY <1>1, <2>2, <3>2
  <2>4. CASE reach + 1 # Len(log)
    <3>1. reach + 2 \in DOMAIN log /\ reach + 1 + 1 = reach + 2 /\ reach + 1 < reach + 2
      <4>1. reach + 1 < Len(log) /\ reach + 2 <= Len(log)
        <5>1. /\ reach \in Nat /\ Len(log) \in Nat /\ reach < Len(log) /\ reach + 1 # Len(log)
          BY <1>1, <2>1, <2>4
        <5> QED BY <5>1
      <4>2. /\ reach + 2 \in Nat /\ 0 < reach + 2
            /\ reach + 1 + 1 = reach + 2 /\ reach + 1 < reach + 2
        BY <1>1
      <4>3. reach + 2 \in DOMAIN log
        BY <4>1, <4>2, Positions
      <4> QED BY <4>2, <4>3
    <3>2. /\ log[reach + 1].tx \in Nat /\ log[reach + 2].tx \in Nat
          /\ log[reach + 1].tx < log[reach + 2].tx \/ log[reach + 1].tx = log[reach + 2].tx
      BY <1>2, <2>1, <3>1 DEF LogOrder
    <3>3. L!Height' = log[reach + 2].tx - 1
      BY <1>1, <1>3, <1>5, <2>4, <3>1 DEF L!Height
    <3> QED BY <2>2, <3>2, <3>3
  <2> QED BY <2>3, <2>4
<1> QED BY <1>3, <1>4, <1>5

LEMMA HandleStep == LedgerIInv /\ L!Handle => LedgerIInv'
<1> SUFFICES ASSUME LedgerIInv, L!Handle PROVE LedgerIInv'
  OBVIOUS
<1> USE DEF LedgerIInv, ChainIInv, TablesIInv
<1>1. /\ handled' \in 0..Len(log) /\ reach' \in handled'..Len(log)
      /\ log' = log /\ mined' = mined /\ synced' = synced
  BY HandleEffect
<1>2. /\ clock' = clock /\ asked' = asked /\ cutoff' = cutoff /\ part' = part
      /\ waited' = waited /\ shaken' = shaken /\ restarts' = restarts
      /\ grown' = IF asked \in {"burns", "protocol"} THEN grown + 1 ELSE 0
  BY DEF L!Handle, L!request
<1>3. ChainIInv'
  BY <1>1, ChainKept DEF L!chain
<1>4. TablesIInv'
  BY HandleTables
<1>5. L!TypeOK'
  <2>1. policy' \in [Policy -> 0..mined] /\ flipped' \subseteq Policy
    <3>1. CASE Idles
      BY <3>1 DEF Idles, L!TypeOK
    <3>2. ASSUME NEW n \in DOMAIN log, Stores(n)
          PROVE  policy' \in [Policy -> 0..mined] /\ flipped' \subseteq Policy
      <4>1. log[n].tx \in 0..mined /\ policy \in [Policy -> 0..mined] /\ flipped \subseteq Policy
            /\ (log[n].kind = "trigger" => log[n].of[1] \in Policy)
        BY LogType DEF LogOrder, L!TypeOK, EntryShape
      <4> QED BY <3>2, <4>1 DEF Stores
    <3> QED BY <3>1, <3>2, HandleEffect
  <2>2. grown' \in Nat
    BY <1>2 DEF L!TypeOK
  <2> QED BY <1>1, <1>2, <2>1, <2>2 DEF L!TypeOK
<1>6. DashboardsSound'
  <2> SUFFICES ASSUME ~shaken
      PROVE /\ asked = "burns" => /\ Near("total", L!Burned)'
                                  /\ Near("recent", L!BurnedSince(cutoff))'
                                  /\ Near("byDay", L!BurnedSince(cutoff))'
            /\ asked = "protocol" => /\ Near("written", L!Written)'
                                     /\ part["active"] # Nothing => part["active"] <= L!Written'
    BY <1>2 DEF DashboardsSound
  <2>1. /\ L!Burned \in Nat /\ L!Burned <= L!Burned' /\ L!Burned' <= L!Burned + 1
        /\ L!BurnedSince(cutoff) \in Nat /\ L!BurnedSince(cutoff) <= L!BurnedSince(cutoff)'
        /\ L!BurnedSince(cutoff)' <= L!BurnedSince(cutoff) + 1
        /\ L!Written \in Nat /\ L!Written <= L!Written' /\ L!Written' <= L!Written + 1
        /\ L!Burned' \in Nat /\ L!BurnedSince(cutoff)' \in Nat /\ L!Written' \in Nat
    BY <1>2, HandleCounts
  <2>2. grown \in Nat /\ \A q \in L!Query : part[q] # Nothing => part[q] \in Int
    BY DEF L!TypeOK
  <2>3. ASSUME asked \in {"burns", "protocol"}, NEW q \in L!Query, NEW v \in Nat, NEW w \in Nat,
               v <= w, w <= v + 1, Near(q, v)
        PROVE  part'[q] # Nothing => part'[q] <= w /\ w <= part'[q] + grown'
    BY <1>2, <2>2, <2>3 DEF Near
  <2>4. DashboardsSound
    BY DEF AnswersIInv
  <2>5. CASE asked = "burns"
    <3>1. Near("total", L!Burned) /\ Near("recent", L!BurnedSince(cutoff)) /\
          Near("byDay", L!BurnedSince(cutoff))
      BY <2>4, <2>5 DEF DashboardsSound
    <3>2. Near("total", L!Burned)'
      <4>1. part'["total"] # Nothing => part'["total"] <= L!Burned' /\
            L!Burned' <= part'["total"] + grown'
        BY <2>1, <2>3, <2>5, <3>1 DEF L!Query
      <4> QED BY <4>1 DEF Near
    <3>3. Near("recent", L!BurnedSince(cutoff))'
      <4>1. part'["recent"] # Nothing => part'["recent"] <= L!BurnedSince(cutoff)' /\
            L!BurnedSince(cutoff)' <= part'["recent"] + grown'
        BY <2>1, <2>3, <2>5, <3>1 DEF L!Query
      <4> QED BY <4>1 DEF Near
    <3>4. Near("byDay", L!BurnedSince(cutoff))'
      <4>1. part'["byDay"] # Nothing => part'["byDay"] <= L!BurnedSince(cutoff)' /\
            L!BurnedSince(cutoff)' <= part'["byDay"] + grown'
        BY <2>1, <2>3, <2>5, <3>1 DEF L!Query
      <4> QED BY <4>1 DEF Near
    <3> QED BY <2>5, <3>2, <3>3, <3>4
  <2>6. CASE asked = "protocol"
    <3>1. Near("written", L!Written) /\ (part["active"] # Nothing => part["active"] <= L!Written)
      BY <2>4, <2>6 DEF DashboardsSound
    <3>2. Near("written", L!Written)'
      <4>1. part'["written"] # Nothing => part'["written"] <= L!Written' /\
            L!Written' <= part'["written"] + grown'
        BY <2>1, <2>3, <2>6, <3>1 DEF L!Query
      <4> QED BY <4>1 DEF Near
    <3>3. part["active"] # Nothing => part["active"] <= L!Written'
      BY <2>1, <2>2, <3>1 DEF L!Query
    <3> QED BY <2>6, <3>2, <3>3
  <2> QED BY <2>5, <2>6
<1>7. HealthSound'
  <2>1. HealthSound /\ \A q \in L!Query : part[q] # Nothing => part[q] \in Int
    BY DEF AnswersIInv, L!TypeOK
  <2>2. L!Height \in Int /\ L!Height' \in Int /\ L!Height <= L!Height'
    BY HandleHeight
  <2>3. "synced" \in L!Query /\ "head" \in L!Query
    BY DEF L!Query
  <2> QED BY <1>1, <1>2, <2>1, <2>2, <2>3 DEF HealthSound
<1>8. Unasked'
  BY <1>2 DEF AnswersIInv, Unasked
<1> QED BY <1>3, <1>4, <1>5, <1>6, <1>7, <1>8 DEF AnswersIInv

-----------------------------------------------------------------------------
(* The checkpoint and the queries *)

\* A set of naturals with a bound has a greatest member.
LEMMA GreatestExists ==
    ASSUME NEW n \in Nat, NEW S \in SUBSET (0..n), S # {}
    PROVE  \E b \in S : \A c \in S : c <= b
<1> DEFINE T == {m \in Nat : n - m \in S}
           less == OpToRel(<, Nat)
<1>1. T # {}
  <2>1. PICK s \in S : TRUE
    OBVIOUS
  <2>2. n - s \in Nat /\ n - (n - s) = s
    BY <2>1
  <2>3. n - s \in T
    BY <2>1, <2>2
  <2> QED BY <2>3
<1>2. PICK m \in T : \A k \in T : ~(<<k, m>> \in less)
  BY <1>1, NatLessThanWellFounded, WFMin
<1>3. \A k \in T : ~(k < m)
  BY <1>2 DEF OpToRel
<1>4. ASSUME NEW c \in S PROVE c <= n - m
  <2>1. n - c \in Nat /\ n - (n - c) = c /\ c \in Nat
    OBVIOUS
  <2>2. n - c \in T
    BY <2>1
  <2>3. ~(n - c < m)
    BY <1>3, <2>2
  <2> QED BY <2>1, <2>3
<1> QED BY <1>4

\* What the health reads, of the checkpoint or of the tables, does not exceed the
\* last block that is in the tables as a whole: an event that alone gives its
\* table's last block has no other event of its block behind it.
LEMMA LastBlocksAreReached ==
    ASSUME L!TypeOK, ChainIInv, TablesIInv
    PROVE  /\ L!Height \in Nat /\ L!Height <= mined
           /\ synced \in Int /\ synced <= L!Height
           /\ L!LastEventBlock \in Int /\ L!LastEventBlock <= L!Height
<1> USE DEF ChainIInv, TablesIInv
<1>1. /\ reach \in Nat /\ reach <= Len(log) /\ Len(log) \in Nat /\ mined \in Nat
      /\ synced \in Int /\ synced <= mined
  BY EventsAreFinite, LogType, ReadsAssumption DEF L!TypeOK, L!LedgerAssumption
<1>2. /\ DOMAIN log = 1..Len(log)
      /\ \A n \in DOMAIN log : log[n].tx \in Nat /\ 1 <= log[n].tx /\ log[n].tx <= mined
      /\ L!Indexed(reach) \subseteq DOMAIN log
  BY <1>1, EventsAreFinite, LogType DEF LogOrder
<1> DEFINE next == log[reach + 1].tx
<1>4. ASSUME reach # Len(log)
      PROVE  /\ L!Height \in Nat /\ L!Height <= mined /\ synced <= L!Height
             /\ \A n \in L!Indexed(reach) : log[n].kind \in Lone => log[n].tx \in Nat /\
                    log[n].tx <= L!Height
  <2>1. reach < Len(log)
    BY <1>1, <1>4
  <2>2. reach + 1 \in 1..Len(log) /\ ~(reach + 1 <= reach)
    BY <1>1, <2>1
  <2>3. next \in Nat /\ 1 <= next /\ next <= mined
    BY <1>2, <2>2
  <2>4. L!Height = next - 1
    BY <1>4 DEF L!Height
  <2>5. ~(next <= synced)
    BY <1>2, <2>2 DEF Covered
  <2>6. ASSUME NEW n \in L!Indexed(reach), log[n].kind \in Lone
        PROVE  log[n].tx \in Nat /\ log[n].tx <= L!Height
    <3>1. n \in DOMAIN log /\ n \in 1..reach /\ log[n].tx \in Nat
      BY <1>2 DEF L!Indexed
    <3>2. n < reach + 1
      BY <1>1, <3>1
    <3>3. log[n].tx < next
      BY <1>2, <2>2, <2>6, <3>1, <3>2 DEF LogOrder
    <3> HIDE DEF next
    <3> QED BY <2>3, <2>4, <3>1, <3>3
  <2> HIDE DEF next
  <2> QED BY <1>1, <2>3, <2>4, <2>5, <2>6
<1>5. /\ L!Height \in Nat /\ L!Height <= mined /\ synced <= L!Height
      /\ \A n \in L!Indexed(reach) : log[n].kind \in Lone => log[n].tx \in Nat /\
             log[n].tx <= L!Height
  <2>1. CASE reach = Len(log)
    <3>1. L!Height = mined
      BY <2>1 DEF L!Height
    <3>2. \A n \in L!Indexed(reach) : log[n].tx \in Nat /\ log[n].tx <= mined
      BY <1>2
    <3> QED BY <1>1, <3>1, <3>2
  <2>2. CASE reach # Len(log)
    BY <1>4, <2>2
  <2> QED BY <2>1, <2>2
<1> DEFINE blocks == {0} \cup {policy[p] : p \in Policy}
            \cup {r.block : r \in L!InTable("burn") \cup L!InTable("trigger")}
<1>6. ASSUME NEW b \in blocks PROVE b \in Nat /\ b <= L!Height
  <2>1. CASE b = 0
    BY <1>5, <2>1
  <2>2. ASSUME NEW p \in Policy, b = policy[p], b # 0 PROVE b \in Nat /\ b <= L!Height
    <3>1. PICK n \in L!Indexed(reach) :
              log[n].kind = "policy" /\ log[n].of[1] = p /\ policy[p] = log[n].tx
      BY <2>2 DEF PoliciesSound
    <3> QED BY <1>5, <2>2, <3>1 DEF Lone
  <2>3. ASSUME NEW r \in L!InTable("burn") \cup L!InTable("trigger"), b = r.block
        PROVE  b \in Nat /\ b <= L!Height
    <3>1. r \in ledger /\ r.table \in {"burn", "trigger"}
      BY DEF L!InTable
    <3>2. PICK n \in L!Indexed(reach) :
              log[n].kind # "policy" /\ \E i \in DOMAIN log[n].of : r = L!Row(log[n], i)
      BY <3>1 DEF RowsSound
    <3>3. r.table = L!Table(log[n].kind) /\ r.block = log[n].tx
      BY <3>2 DEF L!Row
    <3>4. log[n].kind \in Lone
      BY <1>2, <3>1, <3>3, LogType, TableOfKind DEF Lone
    <3> QED BY <1>5, <2>3, <3>3, <3>4
  <2> QED BY <2>1, <2>2, <2>3
<1>7. blocks \in SUBSET (0..L!Height) /\ blocks # {}
  <2>1. 0 \in blocks
    OBVIOUS
  <2>2. \A b \in blocks : b \in 0..L!Height
    <3> HIDE DEF blocks
    <3> QED BY <1>5, <1>6
  <2> HIDE DEF blocks
  <2> QED BY <2>1, <2>2
<1>8. \E b \in blocks : \A c \in blocks : c <= b
  <2> HIDE DEF blocks
  <2> QED BY <1>5, <1>7, GreatestExists
<1>9. L!LastEventBlock = CHOOSE b \in blocks : \A c \in blocks : c <= b
  BY DEF L!LastEventBlock
<1>10. L!LastEventBlock \in blocks
  <2> HIDE DEF blocks
  <2> QED BY <1>8, <1>9
<1> QED BY <1>1, <1>5, <1>6, <1>10

LEMMA AnswersAreNumbers ==
    ASSUME L!TypeOK, ChainIInv, TablesIInv, NEW q \in L!Query
    PROVE  L!Answer(q) \in Int
<1> USE DEF ChainIInv, TablesIInv
<1>1. L!Written \in Nat /\ L!Active \in Nat
  BY PoliciesAreRight
<1>2. ASSUME NEW R \in SUBSET ledger PROVE L!Counts(R) \in Nat
  <2>1. IsFiniteSet(R)
    BY FS_Subset DEF RowsSound
  <2> QED BY <2>1, FS_CardinalityType, CountsMean
<1>3. L!Burned \in Nat
  BY <1>2 DEF L!Burned, L!InTable
<1>4. L!BurnedSince(cutoff) \in Nat
  BY <1>2 DEF L!BurnedSince, L!InTable
<1>5. L!Outstanding \in Int
  <2>1. {r \in L!InTable("bond") : r.kind = "issued"} \in SUBSET ledger
        /\ {r \in L!InTable("bond") : r.kind # "issued"} \in SUBSET ledger
    BY DEF L!InTable
  <2>2. L!Counts({r \in L!InTable("bond") : r.kind = "issued"}) \in Nat
        /\ L!Counts({r \in L!InTable("bond") : r.kind # "issued"}) \in Nat
    BY <1>2, <2>1
  <2> QED BY <2>2 DEF L!Outstanding
<1>6. L!LastSyncedBlock \in Int /\ mined \in Int
  BY LastBlocksAreReached, ReadsAssumption DEF L!LastSyncedBlock, L!TypeOK, L!LedgerAssumption
<1> QED BY <1>1, <1>3, <1>4, <1>5, <1>6 DEF L!Answer, L!Query

LEMMA RowsKept ==
    ASSUME RowsSound, PoliciesSound, UNCHANGED <<log, ledger, policy, flipped, reach>>
    PROVE  RowsSound' /\ PoliciesSound' /\ L!Height' = IF reach = Len(log) THEN mined'
          ELSE log[reach + 1].tx - 1
<1>1. L!Indexed(reach)' = L!Indexed(reach)
  BY DEF L!Indexed
<1>2. RowsSound'
  BY <1>1 DEF RowsSound
<1>3. PoliciesSound'
  BY <1>1 DEF PoliciesSound, InIndex
<1> QED BY <1>2, <1>3 DEF L!Height

\* Nothing but the checkpoint or the handler to run next has changed.
LEMMA AnswersKept ==
    ASSUME AnswersIInv,
           UNCHANGED <<L!chain, ledger, policy, flipped, L!request, reach, grown, waited>>,
           shaken' = shaken \/ shaken' = (asked # "none")
    PROVE  AnswersIInv'
<1>1. /\ log' = log /\ mined' = mined /\ ledger' = ledger /\ policy' = policy /\ flipped' = flipped
      /\ asked' = asked /\ cutoff' = cutoff /\ part' = part /\ reach' = reach
      /\ grown' = grown /\ waited' = waited
  BY DEF L!chain, L!request
<1>2. /\ L!Burned' = L!Burned /\ L!BurnedSince(cutoff)' = L!BurnedSince(cutoff) /\
             L!Written' = L!Written
      /\ L!Height' = L!Height
  BY <1>1, CountsMean DEF L!Burned, L!BurnedSince, L!Written, L!InTable, L!Height
<1>3. DashboardsSound'
  BY <1>1, <1>2 DEF AnswersIInv, DashboardsSound, Near
<1>4. HealthSound'
  BY <1>1, <1>2 DEF AnswersIInv, HealthSound
<1>5. Unasked'
  BY <1>1 DEF AnswersIInv, Unasked
<1> QED BY <1>3, <1>4, <1>5 DEF AnswersIInv

LEMMA TickStep == LedgerIInv /\ L!Tick => LedgerIInv'
<1> SUFFICES ASSUME LedgerIInv, L!Tick PROVE LedgerIInv'
  OBVIOUS
<1> USE DEF LedgerIInv, TablesIInv
<1>1. /\ clock' = clock + 1 /\ clock < LastTime
      /\ UNCHANGED <<L!chain, L!tables, L!request, L!history, restarts>>
      /\ log' = log /\ mined' = mined /\ handled' = handled /\ synced' = synced /\ ledger' = ledger
      /\ policy' = policy /\ flipped' = flipped /\ asked' = asked /\ cutoff' = cutoff
      /\ part' = part /\ reach' = reach /\ grown' = grown /\ waited' = waited
      /\ shaken' = shaken /\ restarts' = restarts
  BY DEF L!Tick, L!chain, L!tables, L!request, L!history
<1>2. ChainIInv'
  BY <1>1, ChainKept
<1>3. TablesIInv'
  BY <1>1, RowsKept DEF Covered
<1>4. AnswersIInv'
  BY <1>1, AnswersKept
<1>5. L!TypeOK'
  <2>1. clock' \in 0..LastTime
    BY <1>1, ReadsAssumption DEF L!TypeOK, L!LedgerAssumption
  <2> QED BY <1>1, <2>1 DEF L!TypeOK
<1> QED BY <1>2, <1>3, <1>4, <1>5

LEMMA CheckpointStep == LedgerIInv /\ L!Checkpoint => LedgerIInv'
<1> SUFFICES ASSUME LedgerIInv, L!Checkpoint PROVE LedgerIInv'
  OBVIOUS
<1> USE DEF LedgerIInv, TablesIInv
<1>1. /\ synced' = L!Reached /\ synced < L!Reached
      /\ log' = log /\ mined' = mined /\ handled' = handled /\ ledger' = ledger /\ clock' = clock
      /\ policy' = policy /\ flipped' = flipped /\ asked' = asked /\ cutoff' = cutoff
      /\ part' = part /\ reach' = reach /\ grown' = grown /\ waited' = waited
      /\ shaken' = shaken /\ restarts' = restarts
  BY DEF L!Checkpoint, L!chain, L!request, L!history
<1>2. /\ handled \in Nat /\ handled <= Len(log) /\ handled <= reach /\ reach \in Nat
      /\ Len(log) \in Nat /\ mined \in Nat
  BY LogType, EventsAreFinite, ReadsAssumption DEF ChainIInv, L!TypeOK, L!LedgerAssumption
<1>3. /\ DOMAIN log = 1..Len(log)
      /\ \A n \in DOMAIN log : log[n].tx \in Nat /\ 1 <= log[n].tx /\ log[n].tx <= mined
  BY <1>2, LogType DEF ChainIInv, LogOrder
<1>4. L!Reached \in 0..mined /\ \A n \in DOMAIN log : log[n].tx <= L!Reached => n <= handled
  <2>1. CASE handled = Len(log)
    BY <1>2, <1>3, <2>1 DEF L!Reached
  <2>2. CASE handled # Len(log)
    <3> DEFINE next == log[handled + 1].tx
    <3>1. handled + 1 \in 1..Len(log)
      BY <1>2, <2>2
    <3>2. next \in Nat /\ 1 <= next /\ next <= mined
      BY <1>3, <3>1
    <3>3. L!Reached = next - 1
      BY <2>2 DEF L!Reached
    <3>4. ASSUME NEW n \in DOMAIN log, ~(n <= handled) PROVE next <= log[n].tx
      <4>1. n = handled + 1 \/ handled + 1 < n
        BY <1>2, <1>3, <3>4
      <4> QED BY <1>3, <3>1, <3>2, <4>1 DEF ChainIInv, LogOrder
    <3> HIDE DEF next
    <3> QED BY <1>2, <1>3, <3>2, <3>3, <3>4
  <2> QED BY <2>1, <2>2
<1>5. ChainIInv'
  BY <1>1, ChainKept DEF L!chain
<1>6. TablesIInv'
  <2>1. Covered'
    <3>1. ASSUME NEW n \in DOMAIN log, log[n].tx <= L!Reached PROVE n <= reach
      <4>1. n <= handled /\ n \in Nat
        BY <1>3, <1>4, <3>1
      <4> QED BY <1>2, <4>1
    <3> QED BY <1>1, <3>1 DEF Covered
  <2> QED BY <1>1, <2>1, RowsKept
<1>7. AnswersIInv'
  BY <1>1, AnswersKept DEF L!chain, L!request
<1>8. L!TypeOK'
  BY <1>1, <1>4 DEF L!TypeOK
<1> QED BY <1>5, <1>6, <1>7, <1>8

LEMMA ResumeStep == LedgerIInv /\ L!Resume => LedgerIInv'
<1> SUFFICES ASSUME LedgerIInv, L!Resume PROVE LedgerIInv'
  OBVIOUS
<1> USE DEF LedgerIInv, TablesIInv
<1> DEFINE done == {n \in DOMAIN log : log[n].tx <= synced}
<1>1. /\ handled' = L!Counts(done) /\ restarts < MaxRestarts /\ restarts' = restarts + 1
      /\ shaken' = (asked # "none")
      /\ log' = log /\ mined' = mined /\ synced' = synced /\ ledger' = ledger /\ clock' = clock
      /\ policy' = policy /\ flipped' = flipped /\ asked' = asked /\ cutoff' = cutoff
      /\ part' = part /\ reach' = reach /\ grown' = grown /\ waited' = waited
  BY DEF L!Resume, L!chain, L!request
<1>2. reach \in Nat /\ reach <= Len(log) /\ Len(log) \in Nat /\ DOMAIN log = 1..Len(log)
  BY EventsAreFinite, LogType DEF ChainIInv
<1>3. L!Counts(done) \in Nat /\ L!Counts(done) <= reach
  <2>1. done \subseteq 1..reach
    BY <1>2 DEF Covered
  <2>2. IsFiniteSet(1..reach) /\ Cardinality(1..reach) = reach
    BY <1>2, FS_Interval
  <2> HIDE DEF done
  <2>3. IsFiniteSet(done) /\ Cardinality(done) <= Cardinality(1..reach)
    BY <2>1, <2>2, FS_Subset
  <2> QED BY <2>2, <2>3, FS_CardinalityType, CountsMean
<1>4. ChainIInv'
  BY <1>1, ChainKept DEF L!chain
<1>5. TablesIInv'
  BY <1>1, RowsKept DEF Covered
<1>6. AnswersIInv'
  BY <1>1, AnswersKept DEF L!chain, L!request
<1>7. L!TypeOK'
  <2>1. restarts' \in 0..MaxRestarts
    BY <1>1, ReadsAssumption DEF L!TypeOK, L!LedgerAssumption
  <2>2. handled' \in 0..Len(log) /\ reach \in handled'..Len(log)
    <3> HIDE DEF done
    <3> QED BY <1>1, <1>2, <1>3
  <2> QED BY <1>1, <2>1, <2>2 DEF L!TypeOK
<1> QED BY <1>4, <1>5, <1>6, <1>7

LEMMA DropStep == LedgerIInv /\ L!Drop => LedgerIInv'
<1> SUFFICES ASSUME LedgerIInv, L!Drop PROVE LedgerIInv'
  OBVIOUS
<1> USE DEF LedgerIInv, TablesIInv
<1>1. /\ handled' = 0 /\ synced' = 0 /\ reach' = 0 /\ ledger' = {} /\ flipped' = {}
      /\ policy' = [p \in Policy |-> 0]
      /\ restarts < MaxRestarts /\ restarts' = restarts + 1
      /\ shaken' = (asked # "none")
      /\ log' = log /\ mined' = mined /\ clock' = clock /\ asked' = asked /\ cutoff' = cutoff
      /\ part' = part /\ grown' = grown /\ waited' = waited
  BY DEF L!Drop, L!chain, L!request
<1>2. Len(log) \in Nat /\ mined \in Nat /\ \A n \in DOMAIN log : log[n].tx \in 1..mined
  BY LogType, ReadsAssumption DEF ChainIInv, LogOrder, L!TypeOK, L!LedgerAssumption
<1>3. ChainIInv'
  BY <1>1, ChainKept DEF L!chain
<1>4. L!Indexed(reach)' = {}
  BY <1>1 DEF L!Indexed
<1>5. TablesIInv'
  <2>1. Covered'
    BY <1>1, <1>2 DEF Covered
  <2>2. RowsSound'
    BY <1>1, <1>4, FS_EmptySet DEF RowsSound
  <2>3. PoliciesSound'
    BY <1>1, <1>4 DEF PoliciesSound, InIndex
  <2> QED BY <2>1, <2>2, <2>3
<1>6. AnswersIInv'
  BY <1>1 DEF AnswersIInv, DashboardsSound, HealthSound, Unasked
<1>7. L!TypeOK'
  <2>1. restarts' \in 0..MaxRestarts
    BY <1>1, ReadsAssumption DEF L!TypeOK, L!LedgerAssumption
  <2>2. policy' \in [Policy -> 0..mined] /\ flipped' \subseteq Policy
    BY <1>1, <1>2
  <2>3. handled' \in 0..Len(log') /\ synced' \in 0..mined' /\ reach' \in handled'..Len(log')
    BY <1>1, <1>2
  <2> QED BY <1>1, <2>1, <2>2, <2>3 DEF L!TypeOK
<1> QED BY <1>3, <1>5, <1>6, <1>7

LEMMA AskStep ==
    ASSUME LedgerIInv, NEW what \in {"burns", "protocol", "health"}, L!Ask(what)
    PROVE  LedgerIInv'
<1> USE DEF LedgerIInv, TablesIInv
<1>1. /\ asked = "none" /\ asked' = what
      /\ cutoff' = IF what = "burns" THEN clock - Window ELSE 0
      /\ handled' = handled /\ synced' = synced
      /\ log' = log /\ mined' = mined /\ ledger' = ledger /\ clock' = clock
      /\ policy' = policy /\ flipped' = flipped
      /\ part' = part /\ reach' = reach /\ grown' = grown /\ waited' = waited
      /\ shaken' = shaken /\ restarts' = restarts
  BY DEF L!Ask, L!chain, L!tables, L!history
<1>2. ChainIInv'
  BY <1>1, ChainKept DEF L!chain
<1>3. TablesIInv'
  BY <1>1, RowsKept DEF Covered
<1>4. \A q \in L!Query : part'[q] = Nothing
  BY <1>1 DEF AnswersIInv, Unasked
<1>5. AnswersIInv'
  BY <1>1, <1>4 DEF AnswersIInv, DashboardsSound, HealthSound, Unasked, Near, L!Query
<1>6. L!TypeOK'
  <2>1. cutoff' \in -Window..LastTime
    BY <1>1, ReadsAssumption DEF L!TypeOK, L!LedgerAssumption
  <2> QED BY <1>1, <2>1 DEF L!TypeOK
<1> QED BY <1>2, <1>3, <1>5, <1>6

\* Only the dashboards and the health ask queries.
LEMMA QueryIsAsked ==
    ASSUME NEW q \in L!QueriesOf(asked)
    PROVE  q \in L!Query /\ asked \in {"burns", "protocol", "health"}
<1>1. CASE asked = "burns"
  BY <1>1 DEF L!QueriesOf, L!Query
<1>2. CASE asked = "protocol"
  BY <1>2 DEF L!QueriesOf, L!Query
<1>3. CASE asked = "health"
  BY <1>3 DEF L!QueriesOf, L!Query
<1>4. CASE asked \notin {"burns", "protocol", "health"}
  BY <1>4 DEF L!QueriesOf
<1> QED BY <1>1, <1>2, <1>3, <1>4

\* A query answered now is near what it asks for, and stays so.
LEMMA AnswerStep ==
    ASSUME LedgerIInv, NEW q \in L!QueriesOf(asked), NEW v \in Int,
           part' = [part EXCEPT ![q] = v],
           v = L!Answer(q) \/ (asked = "health" /\ q = "synced" /\ v = L!LastEventBlock),
           UNCHANGED <<clock, L!chain, L!tables, asked, cutoff, L!history, restarts>>
    PROVE  LedgerIInv'
<1> USE DEF LedgerIInv, TablesIInv
<1>1. /\ asked' = asked /\ cutoff' = cutoff
      /\ handled' = handled /\ synced' = synced
      /\ log' = log /\ mined' = mined /\ ledger' = ledger /\ clock' = clock
      /\ policy' = policy /\ flipped' = flipped
      /\ reach' = reach /\ grown' = grown /\ waited' = waited
      /\ shaken' = shaken /\ restarts' = restarts
  BY DEF L!chain, L!tables, L!history
<1>2. q \in L!Query /\ asked \in {"burns", "protocol", "health"} /\
      part \in [L!Query -> Int \cup {Nothing}]
      /\ grown \in Nat /\ waited \in Nat /\ mined \in Nat
  <2>1. L!TypeOK
    OBVIOUS
  <2>2. grown \in Nat /\ waited \in Nat /\ mined \in Nat /\ part \in [L!Query -> Int \cup {Nothing}]
    BY <2>1, ReadsAssumption DEF L!TypeOK, L!LedgerAssumption
  <2> QED BY <2>2, QueryIsAsked
<1>3. ChainIInv'
  BY <1>1, ChainKept DEF L!chain
<1>4. TablesIInv'
  BY <1>1, RowsKept DEF Covered
<1>5. part' \in [L!Query -> Int \cup {Nothing}] /\ part'[q] = v
      /\ \A o \in L!Query : o # q => part'[o] = part[o]
  BY <1>2
<1>6. L!TypeOK'
  BY <1>1, <1>5 DEF L!TypeOK
<1>7. /\ L!Burned' = L!Burned /\ L!BurnedSince(cutoff)' = L!BurnedSince(cutoff) /\
             L!Written' = L!Written
      /\ L!Height' = L!Height
  BY <1>1, CountsMean DEF L!Burned, L!BurnedSince, L!Written, L!InTable, L!Height
<1>8. Unasked'
  BY <1>1, <1>2 DEF Unasked
<1>9. CASE asked = "burns"
  <2>1. q \in {"total", "recent", "byDay"} /\ v = L!Answer(q)
    BY <1>9 DEF L!QueriesOf
  <2>2. q = "total" => v = L!Burned
    BY <2>1 DEF L!Answer
  <2>3. q \in {"recent", "byDay"} => v = L!BurnedSince(cutoff)
    BY <2>1 DEF L!Answer
  <2>4. ~shaken => /\ Near("total", L!Burned)
                   /\ Near("recent", L!BurnedSince(cutoff))
                   /\ Near("byDay", L!BurnedSince(cutoff))
    BY <1>9 DEF AnswersIInv, DashboardsSound
  <2>5. ASSUME NEW o \in {"total", "recent", "byDay"}, NEW w, o = q => v = w, Near(o, w)
        PROVE  part'[o] # Nothing => part'[o] <= w /\ w <= part'[o] + grown
    BY <1>2, <1>5, <2>5 DEF Near, L!Query
  <2>6. ~shaken => /\ part'["total"] # Nothing => part'["total"] <= L!Burned /\
                          L!Burned <= part'["total"] + grown
                   /\ part'["recent"] # Nothing => part'["recent"] <= L!BurnedSince(cutoff)
                                                   /\ L!BurnedSince(cutoff) <= part'["recent"] + grown
                   /\ part'["byDay"] # Nothing => part'["byDay"] <= L!BurnedSince(cutoff)
                                                  /\ L!BurnedSince(cutoff) <= part'["byDay"] + grown
    BY <2>1, <2>2, <2>3, <2>4, <2>5
  <2>7. DashboardsSound'
    BY <1>1, <1>7, <1>9, <2>6 DEF DashboardsSound, Near
  <2>8. HealthSound'
    BY <1>1, <1>9 DEF HealthSound
  <2> QED BY <1>3, <1>4, <1>6, <1>8, <2>7, <2>8 DEF AnswersIInv
<1>10. CASE asked = "protocol"
  <2>1. q \in {"active", "outstanding", "written", "burned"} /\ v = L!Answer(q)
    BY <1>10 DEF L!QueriesOf
  <2>2. q = "written" => v = L!Written
    BY <2>1 DEF L!Answer
  <2>3. q = "active" => v <= L!Written
    BY <2>1, PoliciesAreRight DEF L!Answer, ChainIInv
  <2>4. ~shaken =>
          Near("written", L!Written) /\ (part["active"] # Nothing => part["active"] <= L!Written)
    BY <1>10 DEF AnswersIInv, DashboardsSound
  <2>5. ~shaken /\ part'["written"] # Nothing =>
                      part'["written"] <= L!Written /\ L!Written <= part'["written"] + grown
    BY <1>2, <1>5, <2>2, <2>4 DEF Near, L!Query
  <2>6. ~shaken /\ part'["active"] # Nothing => part'["active"] <= L!Written
    BY <1>5, <2>3, <2>4 DEF L!Query
  <2>7. DashboardsSound'
    BY <1>1, <1>7, <1>10, <2>5, <2>6 DEF DashboardsSound, Near
  <2>8. HealthSound'
    BY <1>1, <1>10 DEF HealthSound
  <2> QED BY <1>3, <1>4, <1>6, <1>8, <2>7, <2>8 DEF AnswersIInv
<1>11. CASE asked = "health"
  <2>1. q \in {"synced", "head"}
    BY <1>11 DEF L!QueriesOf
  <2>2. q = "head" => v = mined
    BY DEF L!Answer
  <2>3. q = "synced" => v <= L!Height
    <3>1. synced <= L!Height /\ L!LastEventBlock <= L!Height
      BY LastBlocksAreReached
    <3> QED BY <3>1 DEF L!Answer, L!LastSyncedBlock
  <2>4. ~shaken => /\ part["head"] # Nothing => mined <= part["head"] + waited
                   /\ part["synced"] # Nothing => part["synced"] <= L!Height
    BY <1>11 DEF AnswersIInv, HealthSound
  <2>5. ~shaken => /\ part'["head"] # Nothing => mined <= part'["head"] + waited
                   /\ part'["synced"] # Nothing => part'["synced"] <= L!Height
    <3>1. CASE q = "head"
      BY <1>2, <1>5, <2>2, <2>4, <3>1 DEF L!Query
    <3>2. CASE q = "synced"
      BY <1>5, <2>3, <2>4, <3>2 DEF L!Query
    <3> QED BY <2>1, <3>1, <3>2
  <2>6. HealthSound'
    BY <1>1, <1>7, <2>5 DEF HealthSound
  <2>7. DashboardsSound'
    BY <1>1, <1>11 DEF DashboardsSound
  <2> QED BY <1>3, <1>4, <1>6, <1>8, <2>6, <2>7 DEF AnswersIInv
<1> QED BY <1>2, <1>9, <1>10, <1>11

LEMMA ReadStep ==
    ASSUME LedgerIInv, NEW q \in L!Query, L!Read(q)
    PROVE  LedgerIInv'
<1>1. L!Answer(q) \in Int
  BY AnswersAreNumbers DEF LedgerIInv
<1> QED BY <1>1, AnswerStep DEF L!Read

LEMMA ReadTablesStep == LedgerIInv /\ L!ReadTables => LedgerIInv'
<1> SUFFICES ASSUME LedgerIInv, L!ReadTables PROVE LedgerIInv'
  OBVIOUS
<1>1. L!LastEventBlock \in Int
  BY LastBlocksAreReached DEF LedgerIInv
<1>2. asked = "health" /\ "synced" \in L!QueriesOf(asked)
  BY DEF L!ReadTables, L!QueriesOf
<1>3. /\ part' = [part EXCEPT !["synced"] = L!LastEventBlock]
      /\ UNCHANGED <<clock, L!chain, L!tables, asked, cutoff, L!history, restarts>>
  BY DEF L!ReadTables
<1> QED BY <1>1, <1>2, <1>3, AnswerStep

LEMMA DoneStep == LedgerIInv /\ L!Done => LedgerIInv'
<1> SUFFICES ASSUME LedgerIInv, L!Done PROVE LedgerIInv'
  OBVIOUS
<1> USE DEF LedgerIInv, TablesIInv
<1>1. /\ asked' = "none" /\ cutoff' = 0 /\ part' = [q \in L!Query |-> Nothing]
      /\ grown' = 0 /\ waited' = 0 /\ shaken' = FALSE
      /\ handled' = handled /\ synced' = synced
      /\ log' = log /\ mined' = mined /\ ledger' = ledger /\ clock' = clock
      /\ policy' = policy /\ flipped' = flipped /\ reach' = reach /\ restarts' = restarts
  BY DEF L!Done, L!chain, L!tables
<1>2. ChainIInv'
  BY <1>1, ChainKept DEF L!chain
<1>3. TablesIInv'
  BY <1>1, RowsKept DEF Covered
<1>4. AnswersIInv'
  BY <1>1 DEF AnswersIInv, DashboardsSound, HealthSound, Unasked
<1>5. L!TypeOK'
  <2>1. cutoff' \in -Window..LastTime
    BY <1>1, ReadsAssumption DEF L!LedgerAssumption
  <2> QED BY <1>1, <2>1 DEF L!TypeOK
<1> QED BY <1>2, <1>3, <1>4, <1>5

LEMMA LedgerStep == LedgerIInv /\ [L!Next]_L!vars => LedgerIInv'
<1> SUFFICES ASSUME LedgerIInv, [L!Next]_L!vars PROVE LedgerIInv'
  OBVIOUS
<1>1. CASE UNCHANGED L!vars
  <2> USE DEF LedgerIInv, TablesIInv
  <2>1. /\ clock' = clock /\ log' = log /\ mined' = mined /\ handled' = handled /\ synced' = synced
        /\ ledger' = ledger /\ policy' = policy /\ flipped' = flipped /\ asked' = asked
        /\ cutoff' = cutoff /\ part' = part /\ reach' = reach /\ grown' = grown
        /\ waited' = waited /\ shaken' = shaken /\ restarts' = restarts
    BY <1>1 DEF L!vars, L!chain, L!tables, L!request, L!history
  <2>2. ChainIInv'
    BY <2>1, ChainKept DEF L!chain
  <2>3. TablesIInv'
    BY <2>1, RowsKept DEF Covered
  <2>4. AnswersIInv'
    BY <2>1, AnswersKept DEF L!chain, L!request
  <2>5. L!TypeOK'
    BY <2>1 DEF L!TypeOK
  <2> QED BY <2>2, <2>3, <2>4, <2>5
<1> QED BY <1>1, TickStep, ChainStep, HandleStep, CheckpointStep, ResumeStep, DropStep,
           AskStep, ReadStep, ReadTablesStep, DoneStep DEF L!Next

LEMMA LedgerInit == L!Init => LedgerIInv
<1> SUFFICES ASSUME L!Init PROVE LedgerIInv
  OBVIOUS
<1>1. /\ clock = 0 /\ mined = 0 /\ log = <<>>
      /\ handled = 0 /\ synced = 0 /\ ledger = {}
      /\ policy = [p \in Policy |-> 0] /\ flipped = {}
      /\ asked = "none" /\ cutoff = 0 /\ part = [q \in L!Query |-> Nothing]
      /\ reach = 0 /\ grown = 0 /\ waited = 0 /\ shaken = FALSE
      /\ restarts = 0
  BY DEF L!Init
<1>2. log \in Seq(Entry) /\ DOMAIN log = {} /\ Len(log) = 0
  BY <1>1
<1>3. LogShape /\ LogOrder /\ LogOnce
  BY <1>2 DEF LogShape, LogOrder, LogOnce
<1>4. Solvent
  <2>1. Unseen = {}
    BY <1>2 DEF Unseen
  <2>2. ASSUME NEW h, NEW e PROVE L!Received(h, e, {}) = {} /\ L!Sent(h, e, {}) = {}
    BY DEF L!Received, L!Sent, L!Legs
  <2>3. Cardinality({}) = 0
    BY FS_EmptySet
  <2>4. ASSUME NEW h, NEW e
        PROVE  L!Balance(h, e, {}) = 0 /\ L!Received(h, e, {}) = {} /\ L!Sent(h, e, {}) = {}
    <3>1. L!Received(h, e, {}) = {} /\ L!Sent(h, e, {}) = {}
      BY <2>2
    <3>2. L!Balance(h, e, {}) = Cardinality({}) - Cardinality({})
      BY <3>1, CountsMean DEF L!Balance
    <3> QED BY <2>3, <3>1, <3>2
  <2>5. 0 >= 0
    OBVIOUS
  <2> QED BY <1>2, <2>1, <2>4, <2>5 DEF Solvent
<1>5. L!Indexed(reach) = {}
  BY <1>1 DEF L!Indexed
<1>6. Covered /\ RowsSound /\ PoliciesSound
  BY <1>1, <1>2, <1>5, FS_EmptySet DEF Covered, RowsSound, PoliciesSound, InIndex
<1>7. DashboardsSound /\ HealthSound /\ Unasked
  BY <1>1 DEF DashboardsSound, HealthSound, Unasked
<1>8. L!TypeOK
  <2>1. LastTime \in Nat /\ MaxBlocks \in Nat /\ MaxRestarts \in Nat /\ Window \in Nat
    BY ReadsAssumption DEF L!LedgerAssumption
  <2>2. clock \in 0..LastTime /\ mined \in 0..MaxBlocks /\ restarts \in 0..MaxRestarts
    BY <1>1, <2>1
  <2>3. handled \in 0..Len(log) /\ synced \in 0..mined /\ reach \in handled..Len(log)
    BY <1>1, <1>2
  <2>4. policy \in [Policy -> 0..mined] /\ flipped \subseteq Policy
    BY <1>1
  <2>5. cutoff \in -Window..LastTime
    BY <1>1, <2>1
  <2>6. part \in [L!Query -> Int \cup {Nothing}]
    BY <1>1
  <2> QED BY <1>1, <2>2, <2>3, <2>4, <2>5, <2>6 DEF L!TypeOK
<1> QED BY <1>3, <1>4, <1>6, <1>7, <1>8 DEF LedgerIInv, ChainIInv, TablesIInv, AnswersIInv

LEMMA LedgerAlways == L!Spec => []LedgerIInv
BY LedgerInit, LedgerStep, PTL DEF L!Spec

-----------------------------------------------------------------------------
(* What the reads tell *)

\* What by-owner, the totals and the dashboards read from the tables is what the
\* chain said at one moment: nothing is lost and nothing counted twice, through
\* batches, handlers that run again (onConflictDoNothing) and rebuilt schemas, and
\* no owner is shown a bond that it does not hold.  (Ledger's own invariant, and so
\* the one of the run, which does not evaluate it at rest.)
THEOREM TablesAreOneMoment == L!Spec => [](L!LedgerInv /\ LedgerInv)
<1>1. LedgerIInv => L!LedgerInv /\ LedgerInv
  BY MomentIsOne DEF LedgerIInv, L!LedgerInv, LedgerInv
<1> QED BY <1>1, LedgerAlways, PTL

\* The numbers that one Promise.all of routes/indexer.ts collects belong together as
\* far as the index stood still meanwhile.
THEOREM DashboardsAddUp == L!Spec => []PartsAddUp
<1>1. LedgerIInv => L!PartsAddUp
  <2> SUFFICES ASSUME LedgerIInv PROVE L!PartsAddUp
    OBVIOUS
  <2>1. /\ \A q \in L!Query : part[q] # Nothing => part[q] \in Int
        /\ grown \in Nat
        /\ DashboardsSound
    BY DEF LedgerIInv, L!TypeOK, AnswersIInv
  <2>2. ASSUME L!Answered("burns"), ~shaken
        PROVE  /\ L!Within(part["recent"], part["byDay"], grown)
               /\ part["recent"] <= part["total"] + grown
    <3>1. /\ asked = "burns" /\ part["total"] # Nothing /\ part["recent"] # Nothing
          /\ part["byDay"] # Nothing
      BY <2>2 DEF L!Answered, L!QueriesOf
    <3>2. /\ part["total"] \in Int /\ part["recent"] \in Int /\ part["byDay"] \in Int
      BY <2>1, <3>1 DEF L!Query
    <3>3. /\ part["total"] <= L!Burned /\ L!Burned <= part["total"] + grown
          /\ part["recent"] <= L!BurnedSince(cutoff) /\
                 L!BurnedSince(cutoff) <= part["recent"] + grown
          /\ part["byDay"] <= L!BurnedSince(cutoff) /\ L!BurnedSince(cutoff) <= part["byDay"] + grown
      BY <2>1, <2>2, <3>1 DEF DashboardsSound, Near
    <3>4. L!Burned \in Nat /\ L!BurnedSince(cutoff) \in Nat /\ L!BurnedSince(cutoff) <= L!Burned
      <4>1. IsFiniteSet(L!InTable("burn"))
        BY FS_Subset DEF LedgerIInv, TablesIInv, RowsSound, L!InTable
      <4> DEFINE since == {r \in L!InTable("burn") : r.at >= cutoff}
      <4>2. IsFiniteSet(since) /\ Cardinality(since) <= Cardinality(L!InTable("burn"))
        BY <4>1, FS_Subset
      <4> HIDE DEF since
      <4>3. Cardinality(since) \in Nat /\ Cardinality(L!InTable("burn")) \in Nat
        BY <4>1, <4>2, FS_CardinalityType
      <4> QED BY <4>2, <4>3, CountsMean DEF L!Burned, L!BurnedSince, since
    <3> QED BY <2>1, <3>2, <3>3, <3>4 DEF L!Within
  <2>3. ASSUME L!Answered("protocol"), ~shaken PROVE part["active"] <= part["written"] + grown
    <3>1. asked = "protocol" /\ part["active"] # Nothing /\ part["written"] # Nothing
      BY <2>3 DEF L!Answered, L!QueriesOf
    <3>2. part["active"] \in Int /\ part["written"] \in Int
      BY <2>1, <3>1 DEF L!Query
    <3>3. L!Written <= part["written"] + grown /\ part["active"] <= L!Written
      BY <2>1, <2>3, <3>1 DEF DashboardsSound, Near
    <3>4. L!Written \in Nat
      BY PoliciesAreRight DEF LedgerIInv, ChainIInv, TablesIInv
    <3> QED BY <2>1, <3>2, <3>3, <3>4
  <2> QED BY <2>2, <2>3 DEF L!PartsAddUp
<1> QED BY <1>1, LedgerAlways, PTL DEF PartsAddUp

\* The health says "synced" of an index that is at most the tolerated lag behind
\* the chain, and the blocks mined while it was read.
THEOREM HealthTellsTheLag == L!Spec => []HealthIsHonest
<1>1. LedgerIInv => L!HealthIsHonest
  <2> SUFFICES ASSUME LedgerIInv, L!Answered("health"), ~shaken, L!Status = "synced"
               PROVE  mined - L!Height <= MaxLag + waited
    BY DEF L!HealthIsHonest
  <2>1. asked = "health" /\ part["synced"] # Nothing /\ part["head"] # Nothing
    BY DEF L!Answered, L!QueriesOf
  <2>2. part["synced"] \in Int /\ part["head"] \in Int /\ waited \in Nat /\ mined \in Nat
        /\ MaxLag \in Nat
    BY <2>1, ReadsAssumption DEF LedgerIInv, L!TypeOK, L!Query, L!LedgerAssumption
  <2>3. mined <= part["head"] + waited /\ part["synced"] <= L!Height
    BY <2>1 DEF LedgerIInv, AnswersIInv, HealthSound
  <2>4. ~(part["head"] - part["synced"] > MaxLag)
    BY DEF L!Status, L!Lag
  <2>5. L!Height \in Nat
    BY LastBlocksAreReached DEF LedgerIInv
  <2> QED BY <2>2, <2>3, <2>4, <2>5
<1> QED BY <1>1, LedgerAlways, PTL DEF HealthIsHonest

-----------------------------------------------------------------------------
(* Both together *)

\* What is proved of the views and of the tables holds where the two are checked
\* in one run.
THEOREM ReadsAreBoth == ReadsSpec => Spec /\ L!Spec
<1>1. ReadsInit => Init /\ L!Init
  BY DEF ReadsInit
<1>2. [ReadsNext]_<<vars, ledgerVars>> => [Next]_vars /\ [L!Next]_L!vars
  <2>1. UNCHANGED ledgerVars => UNCHANGED L!vars
    BY DEF ledgerVars, L!vars, L!chain, L!tables, L!request, L!history
  <2> QED BY <2>1 DEF ReadsNext
<1> QED BY <1>1, <1>2, PTL DEF ReadsSpec, Spec, L!Spec
=============================================================================
