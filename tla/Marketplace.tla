----------------------------- MODULE Marketplace -----------------------------
(***************************************************************************)
(* The verifier routes: POST /marketplace/list and /buy                    *)
(* (routes/marketplace.ts, services/marketplace.ts) and POST /redeem       *)
(* (routes/redeem.ts, services/redeem.ts).  Users trade on chain by        *)
(* themselves and post the hash of the transaction; the API checks the     *)
(* receipt against the body and keeps its own tables.  The indexer keeps   *)
(* another view of the same events (indexer/src/index.ts).                 *)
(*                                                                         *)
(* A transaction's hash is its place in the log of the chain, and its      *)
(* receipt holds the one event it emits.  A transaction that reverted or   *)
(* does not exist has no event and is refused like a malformed body.       *)
(***************************************************************************)
EXTENDS Naturals, Sequences, FiniteSets

CONSTANTS
    Listing,    \* listing ids, each given out once by the contract
    Epoch,      \* redeemable bonds
    Account,
    Price,      \* the terms of a trade: amount, price and fee together
    Post,       \* slots for requests to the three routes
    NoBody,     \* no request is in the slot
    Start,      \* the transactions before the indexer's start block
    MaxTxs      \* bound on the length of the chain

ASSUME MarketplaceAssumption ==
    /\ Listing \cap Epoch = {}
    /\ Price \subseteq Nat
    /\ Start \in Nat /\ MaxTxs \in Nat

VARIABLES
    log,        \* the chain: [op, item, from, seller, price] of each transaction
    listings,   \* table: [item, seller, price, tx, id, status]
    purchases,  \* table: [item, buyer, seller, price, tx, id]
    redemptions,\* table: [item, owner, price, tx, id]
    pc,         \* pc[r]: "new", "verifying", "verified" or "raced"
    body,       \* body[r]: [route, tx, item, party, price] of a request in flight
    kept,       \* kept[r]: the listing row that a purchase was checked against
    synced,     \* how much of the log the indexer has handled
    market,     \* indexer, marketplace_listing: [status, filledBy] per listing
    bond        \* indexer, bond: the redemptions by their transaction

tables == <<listings, purchases, redemptions>>
requests == <<pc, body, kept>>
indexer == <<synced, market, bond>>
vars == <<log, tables, requests, indexer>>

InFlight == {"verifying", "verified"}

NoRow == [status |-> "none", filledBy |-> "nobody"]

Init ==
    /\ log = <<>>
    /\ listings = {} /\ purchases = {} /\ redemptions = {}
    /\ pc = [r \in Post |-> "new"]
    /\ body = [r \in Post |-> NoBody] /\ kept = [r \in Post |-> NoBody]
    /\ synced = Start /\ market = [l \in Listing |-> NoRow] /\ bond = {}

-----------------------------------------------------------------------------
(* The contracts *)

Did(op, x, n) == \E i \in 1..n : i <= Len(log) /\ log[i].op = op /\ log[i].item = x

OpenListing(l) ==
    Did("list", l, Len(log)) /\ ~Did("buy", l, Len(log)) /\ ~Did("cancel", l, Len(log))

Listed(l) == CHOOSE e \in {log[i] : i \in DOMAIN log} : e.op = "list" /\ e.item = l

Transact(op, x, a, s, p) ==
    /\ Len(log) < MaxTxs
    /\ log' = Append(log, [op |-> op, item |-> x, from |-> a, seller |-> s, price |-> p])
    /\ UNCHANGED <<tables, requests, indexer>>

List ==
    \E l \in Listing, a \in Account, p \in Price :
        /\ ~Did("list", l, Len(log))
        /\ Transact("list", l, a, a, p)

Cancel ==
    \E l \in Listing :
        /\ OpenListing(l)
        /\ Transact("cancel", l, Listed(l).seller, Listed(l).seller, Listed(l).price)

Buy ==
    \E l \in Listing, a \in Account :
        /\ OpenListing(l)
        /\ Transact("buy", l, a, Listed(l).seller, Listed(l).price)

Redeem == \E e \in Epoch, a \in Account, p \in Price : Transact("redeem", e, a, a, p)

-----------------------------------------------------------------------------
(* The routes up to their first await *)

\* However it is answered, a request leaves its slot free for another; only a
\* purchase that is turned away at its insert is kept for the properties.
Answer(r, how) ==
    /\ pc' = [pc EXCEPT ![r] = how]
    /\ body' = [body EXCEPT ![r] = NoBody]
    /\ kept' = [kept EXCEPT ![r] = NoBody]

Await(r, b, row) ==
    /\ pc' = [pc EXCEPT ![r] = "verifying"]
    /\ body' = [body EXCEPT ![r] = b]
    /\ kept' = [kept EXCEPT ![r] = row]

Honest(i, route) ==
    [route |-> route, tx |-> i, item |-> log[i].item, party |-> log[i].from,
     price |-> log[i].price]

\* What a body may say of transaction i: the truth, or one field is wrong (/list
\* takes no listing id); or i is of another kind than the route wants.
Claims(i, route) ==
    LET b == Honest(i, route)
    IN  IF log[i].op # route THEN {b}
        ELSE {[b EXCEPT !.party = a] : a \in Account}
               \cup {[b EXCEPT !.price = p] : p \in Price}
               \cup {[b EXCEPT !.item = x] : x \in {y \in Listing : route = "buy"}}

Recorded(i, table) == \E row \in table : row.tx = i

getListingByListingId(l) == {row \in listings : row.item = l}

PostList(r) ==
    /\ pc[r] = "new"
    /\ \E i \in DOMAIN log : \E b \in Claims(i, "list") :
          IF Recorded(i, listings) THEN Answer(r, "new") ELSE Await(r, b, NoBody)
    /\ UNCHANGED <<log, tables, indexer>>

\* The listing must be known and active before the receipt is looked at.
PostBuy(r) ==
    /\ pc[r] = "new"
    /\ \E i \in DOMAIN log : \E b \in Claims(i, "buy") :
          IF Recorded(i, purchases) THEN Answer(r, "new")
          ELSE IF \E row \in getListingByListingId(b.item) : row.status = "active"
          THEN \E row \in getListingByListingId(b.item) : Await(r, b, row)
          ELSE Answer(r, "new")
    /\ UNCHANGED <<log, tables, indexer>>

PostRedeem(r) ==
    /\ pc[r] = "new"
    /\ \E i \in DOMAIN log : \E b \in Claims(i, "redeem") :
          IF Recorded(i, redemptions) THEN Answer(r, "new") ELSE Await(r, b, NoBody)
    /\ UNCHANGED <<log, tables, indexer>>

-----------------------------------------------------------------------------
(* verifyListing, verifyBuy and verifyRedemption *)

EventOf(r) == log[body[r].tx]

\* The receipt's sender and event agree with the body.
Confirms(r) ==
    /\ EventOf(r).op = body[r].route
    /\ EventOf(r).from = body[r].party
    /\ EventOf(r).price = body[r].price

Verdict(r, route, accepted) ==
    /\ pc[r] = "verifying" /\ body[r].route = route
    /\ IF accepted THEN pc' = [pc EXCEPT ![r] = "verified"] /\ UNCHANGED <<body, kept>>
                   ELSE Answer(r, "new")
    /\ UNCHANGED <<log, tables, indexer>>

\* The listing id is the event's.  The floor, marketplace.minPricePerUnit(), is
\* read now: its owner may have moved it anywhere since the listing was made.
VerifyList(r) ==
    \E floor \in Price : Verdict(r, "list", Confirms(r) /\ body[r].price >= floor)

\* Mutant: the event's seller is compared with the buyer.
SaleAgreesSwapped(r) ==
    /\ Confirms(r)
    /\ EventOf(r).item = body[r].item
    /\ EventOf(r).seller = body[r].party

\* The event must agree with the body and with the listing row read before.
SaleAgrees(r) ==
    /\ Confirms(r)
    /\ EventOf(r).item = body[r].item
    /\ EventOf(r).seller = kept[r].seller
    /\ kept[r].price = body[r].price

VerifyBuy(r) == Verdict(r, "buy", SaleAgrees(r))

VerifyRedeem(r) == Verdict(r, "redeem", Confirms(r) /\ EventOf(r).item = body[r].item)

\* The receipt cannot be fetched: 502.  An insert may fail as well.
RpcFails(r) ==
    /\ pc[r] \in InFlight
    /\ Answer(r, "new")
    /\ UNCHANGED <<log, tables, indexer>>

-----------------------------------------------------------------------------
(* The rows, written without an await after the verdict *)

Verified(r, route) == pc[r] = "verified" /\ body[r].route = route

\* UNIQUE(listing_id), UNIQUE(tx_hash)
recordListing(row) ==
    IF \E x \in listings : x.item = row.item \/ x.tx = row.tx
    THEN listings ELSE listings \cup {row}

RecordList(r) ==
    /\ Verified(r, "list")
    /\ listings' = recordListing(
           [item |-> EventOf(r).item, seller |-> body[r].party, price |-> EventOf(r).price,
            tx |-> body[r].tx, id |-> Cardinality(listings), status |-> "active"])
    /\ Answer(r, "new")
    /\ UNCHANGED <<log, purchases, redemptions, indexer>>

PurchaseRow(r) ==
    [item |-> EventOf(r).item, buyer |-> body[r].party, seller |-> kept[r].seller,
     price |-> body[r].price, tx |-> body[r].tx, id |-> Cardinality(purchases)]

Executed(x) == {IF row.item = x THEN [row EXCEPT !.status = "executed"] ELSE row : row \in listings}

\* Mutant: the listing's status is left to a later job.
RecordBuyOnly(r) ==
    LET taken == Recorded(body[r].tx, purchases)
    IN  /\ Verified(r, "buy")
        /\ purchases' = IF taken THEN purchases ELSE purchases \cup {PurchaseRow(r)}
        /\ Answer(r, "new")
        /\ UNCHANGED <<log, listings, redemptions, indexer>>

\* recordPurchaseAndFinalizeListing: one transaction, rolled back when the
\* listing is not active any more.
RecordBuy(r) ==
    LET taken == Recorded(body[r].tx, purchases)
        active == \E row \in listings : row.item = EventOf(r).item /\ row.status = "active"
    IN  /\ Verified(r, "buy")
        /\ purchases' = IF taken \/ ~active THEN purchases ELSE purchases \cup {PurchaseRow(r)}
        /\ listings' = IF taken \/ ~active THEN listings ELSE Executed(EventOf(r).item)
        /\ Answer(r, IF taken \/ active THEN "new" ELSE "raced")
        /\ UNCHANGED <<log, redemptions, indexer>>

\* UNIQUE(tx_hash)
recordRedemption(row) ==
    IF Recorded(row.tx, redemptions) THEN redemptions ELSE redemptions \cup {row}

RecordRedeem(r) ==
    /\ Verified(r, "redeem")
    /\ redemptions' = recordRedemption(
           [item |-> body[r].item, owner |-> body[r].party, price |-> body[r].price,
            tx |-> body[r].tx, id |-> Cardinality(redemptions)])
    /\ Answer(r, "new")
    /\ UNCHANGED <<log, listings, purchases, indexer>>

\* The process restarts.
Crash ==
    /\ pc' = [r \in Post |-> IF pc[r] \in InFlight THEN "new" ELSE pc[r]]
    /\ body' = [r \in Post |-> NoBody] /\ kept' = [r \in Post |-> NoBody]
    /\ UNCHANGED <<log, tables, indexer>>

-----------------------------------------------------------------------------
(* The indexer *)

\* The handlers of Listed (on conflict do nothing), Cancelled and Bought (no
\* row, no update).
HandleMarket(e) ==
    LET old == market[e.item]
        new == CASE e.op = "list" /\ old = NoRow -> [old EXCEPT !.status = "active"]
                 [] e.op = "cancel" /\ old # NoRow -> [old EXCEPT !.status = "cancelled"]
                 [] e.op = "buy" /\ old # NoRow -> [status |-> "filled", filledBy |-> e.from]
                 [] OTHER -> old
    IN  market' = [market EXCEPT ![e.item] = new]

IndexNext ==
    /\ synced < Len(log)
    /\ synced' = synced + 1
    /\ LET e == log[synced + 1]
       IN  IF e.op = "redeem" THEN bond' = bond \cup {synced + 1} /\ UNCHANGED market
                              ELSE HandleMarket(e) /\ UNCHANGED bond
    /\ UNCHANGED <<log, tables, requests>>

\* Mutant: the tables are dropped and the checkpoint is not.
HealKeepsCheckpoint ==
    /\ market' = [l \in Listing |-> NoRow] /\ bond' = {}
    /\ UNCHANGED <<log, tables, requests, synced>>

\* The supervisor drops the schema, checkpoint included: index from the start.
Heal ==
    /\ synced' = Start /\ market' = [l \in Listing |-> NoRow] /\ bond' = {}
    /\ UNCHANGED <<log, tables, requests>>

Trade == List \/ Cancel \/ Buy \/ Redeem

Serve(r) ==
    \/ PostList(r) \/ VerifyList(r) \/ RecordList(r)
    \/ PostBuy(r) \/ VerifyBuy(r) \/ RecordBuy(r)
    \/ PostRedeem(r) \/ VerifyRedeem(r) \/ RecordRedeem(r)
    \/ RpcFails(r)

Next ==
    \/ Trade \/ Crash \/ IndexNext \/ Heal
    \/ \E r \in Post : Serve(r)

Spec == Init /\ [][Next]_vars

-----------------------------------------------------------------------------
(* Properties *)

Tx == 1..MaxTxs
Event == [op : {"list", "cancel", "buy", "redeem"}, item : Listing \cup Epoch,
          from : Account, seller : Account, price : Price]
Body == [route : {"list", "buy", "redeem"}, tx : Tx, item : Listing \cup Epoch, party : Account, price : Price]
ListingRow == [item : Listing, seller : Account, price : Price, tx : Tx,
               id : Nat, status : {"active", "executed"}]
PurchaseRows == [item : Listing, buyer : Account, seller : Account, price : Price,
                 tx : Tx, id : Nat]
RedemptionRow == [item : Epoch, owner : Account, price : Price, tx : Tx, id : Nat]

TypeOK ==
    /\ log \in Seq(Event) /\ Len(log) <= MaxTxs
    /\ listings \subseteq ListingRow /\ purchases \subseteq PurchaseRows
    /\ redemptions \subseteq RedemptionRow
    /\ pc \in [Post -> {"new", "raced"} \cup InFlight]
    /\ body \in [Post -> Body \cup {NoBody}] /\ kept \in [Post -> ListingRow \cup {NoBody}]
    /\ synced \in Nat
    /\ market \in [Listing -> [status : {"none", "active", "cancelled", "filled"},
                               filledBy : Account \cup {"nobody"}]]
    /\ bond \subseteq Nat

\* Every row of the three tables is a transaction of the chain, with the
\* parties and the terms of its event; the seller and the terms of a purchase,
\* copied from a listing row read before an await, are those of the sale.
RowsAreGenuine ==
    /\ \A x \in listings :
          /\ x.tx \in DOMAIN log
          /\ log[x.tx] = [op |-> "list", item |-> x.item, from |-> x.seller,
                          seller |-> x.seller, price |-> x.price]
    /\ \A x \in purchases :
          /\ x.tx \in DOMAIN log
          /\ log[x.tx] = [op |-> "buy", item |-> x.item, from |-> x.buyer,
                          seller |-> x.seller, price |-> x.price]
    /\ \A x \in redemptions :
          /\ x.tx \in DOMAIN log
          /\ log[x.tx] = [op |-> "redeem", item |-> x.item, from |-> x.owner,
                          seller |-> x.owner, price |-> x.price]

\* A transaction is registered once, however many requests post it together.
RegisteredOnce ==
    /\ \A x, y \in listings : x.tx = y.tx \/ x.item = y.item => x = y
    /\ \A x, y \in purchases : x.tx = y.tx \/ x.item = y.item => x = y
    /\ \A x, y \in redemptions : x.tx = y.tx => x = y

\* "prevents the case where a duplicate purchase row would land on an
\* already-finalized listing" (database.ts:757-759): a listing is executed
\* exactly when its purchase is in the table.
ExecutedIffPurchased ==
    \A x \in listings : x.status = "executed" <=> \E p \in purchases : p.item = x.item

\* The pre-check of the status is stale when it is used, yet no verified
\* purchase is ever turned away for it: what makes the listing inactive is the
\* one sale the chain allows, and that is this transaction itself.
NeverRaced ==
    /\ \A r \in Post : pc[r] # "raced"
    /\ \A r \in Post : Verified(r, "buy") =>
          Recorded(body[r].tx, purchases)
            \/ \E x \in listings : x.item = EventOf(r).item /\ x.status = "active"

\* A truthful body for a sale that reaches the check of the receipt passes it:
\* the listing row agrees with the chain about seller and terms.
HonestBuyVerifies ==
    \A r \in Post :
        /\ pc[r] = "verifying"
        /\ EventOf(r).op = "buy"
        /\ body[r] = Honest(body[r].tx, "buy")
        => SaleAgrees(r)

\* The two views of a sale or a redemption agree as soon as the indexer has
\* handled its transaction, also after it was dropped and rebuilt: unless the
\* listing is older than the indexer's start block.
IndexerAgrees ==
    /\ \A p \in purchases :
          p.tx <= synced /\ ~Did("list", p.item, Start) =>
              market[p.item] = [status |-> "filled", filledBy |-> p.buyer]
    /\ \A x \in redemptions : Start < x.tx /\ x.tx <= synced => x.tx \in bond

\* The inductive invariant of the tables.
MarketInv ==
    /\ TypeOK
    /\ RowsAreGenuine
    /\ RegisteredOnce
    /\ ExecutedIffPurchased
    /\ NeverRaced
    /\ \A r \in Post : pc[r] \in InFlight /\ body[r].route = "buy" =>
          \E x \in listings : [x EXCEPT !.status = "active"] = kept[r]
==============================================================================
