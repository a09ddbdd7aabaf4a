-------------------------- MODULE Marketplace_proofs --------------------------
(***************************************************************************)
(* The verifier routes for any number of listings, accounts, transactions  *)
(* and requests at a time: MarketInv is inductive together with what the   *)
(* contracts guarantee of the log (LogInv), what a request in flight has   *)
(* been told (RequestInv), and what the indexer has made of the log        *)
(* (IndexInv).                                                             *)
(***************************************************************************)
EXTENDS Marketplace, FiniteSetTheorems, TLAPS

\* The contracts: an id is listed once, ends once, by a sale or a cancellation on
\* the terms of the listing, and after it.
Ends == {"buy", "cancel"}

LogInv ==
    /\ \A i \in DOMAIN log : log[i].op \in {"list", "redeem"} => log[i].from = log[i].seller
    /\ \A i \in DOMAIN log : log[i].item \in IF log[i].op = "redeem" THEN Epoch ELSE Listing
    /\ \A i, j \in DOMAIN log :
          log[i].op = "list" /\ log[j].op = "list" /\ log[i].item = log[j].item => i = j
    /\ \A i, j \in DOMAIN log :
          log[i].op \in Ends /\ log[j].op \in Ends /\ log[i].item = log[j].item => i = j
    /\ \A i \in DOMAIN log : log[i].op \in Ends =>
          \E j \in DOMAIN log : /\ j < i /\ log[j].op = "list" /\ log[j].item = log[i].item
                                /\ log[j].seller = log[i].seller /\ log[j].price = log[i].price

LEMMA Appended ==
    ASSUME TypeOK, NEW e, log' = Append(log, e)
    PROVE  /\ DOMAIN log = 1..Len(log) /\ Len(log) \in Nat
           /\ DOMAIN log' = 1..Len(log) + 1 /\ Len(log') = Len(log) + 1
           /\ \A i \in DOMAIN log : log'[i] = log[i]
           /\ log'[Len(log) + 1] = e
  BY DEF TypeOK

LEMMA DidMeans ==
    ASSUME TypeOK, NEW op, NEW x
    PROVE  Did(op, x, Len(log)) <=> \E i \in DOMAIN log : log[i].op = op /\ log[i].item = x
  BY DEF Did, TypeOK

LEMMA OpenMeans ==
    ASSUME TypeOK, LogInv, NEW l \in Listing, OpenListing(l)
    PROVE  /\ \A i \in DOMAIN log : log[i].item = l => log[i].op \notin Ends
           /\ \E j \in DOMAIN log : log[j] = Listed(l) /\ log[j].op = "list" /\ log[j].item = l
<1>1. PICK j \in DOMAIN log : log[j].op = "list" /\ log[j].item = l
  BY DidMeans DEF OpenListing
<1>2. \A i \in DOMAIN log : log[i].item = l => log[i].op \notin Ends
  BY DidMeans DEF OpenListing, Ends
<1>3. \E e \in {log[i] : i \in DOMAIN log} : e.op = "list" /\ e.item = l
  BY <1>1
<1>4. Listed(l) \in {log[i] : i \in DOMAIN log} /\ Listed(l).op = "list" /\ Listed(l).item = l
  BY <1>3 DEF Listed
<1> QED BY <1>2, <1>4

\* A trade appends one event of the right shape.
LEMMA TradeAppends ==
    ASSUME TypeOK, LogInv, Trade
    PROVE  \E e \in Event :
              /\ log' = Append(log, e) /\ Len(log) < MaxTxs
              /\ UNCHANGED <<tables, requests, indexer>>
              /\ e.op \in {"list", "redeem"} => e.from = e.seller
              /\ e.item \in IF e.op = "redeem" THEN Epoch ELSE Listing
              /\ e.op = "list" => \A i \in DOMAIN log : log[i].item = e.item => log[i].op # "list"
              /\ e.op \in Ends => /\ \A i \in DOMAIN log : log[i].item = e.item => log[i].op \notin Ends
                                  /\ \E j \in DOMAIN log :
                                       /\ log[j].op = "list" /\ log[j].item = e.item
                                       /\ log[j].seller = e.seller /\ log[j].price = e.price
<1> USE DEF Transact, Ends
<1>1. CASE List
  <2>1. PICK l \in Listing, a \in Account, p \in Price :
          ~Did("list", l, Len(log)) /\ Transact("list", l, a, a, p)
    BY <1>1 DEF List
  <2> DEFINE e == [op |-> "list", item |-> l, from |-> a, seller |-> a, price |-> p]
  <2>2. e \in Event
    BY DEF Event
  <2>3. \A i \in DOMAIN log : log[i].item = l => log[i].op # "list"
    BY <2>1, DidMeans
  <2> QED BY <2>1, <2>2, <2>3
<1>2. CASE Cancel
  <2>1. PICK l \in Listing :
          OpenListing(l) /\ Transact("cancel", l, Listed(l).seller, Listed(l).seller, Listed(l).price)
    BY <1>2 DEF Cancel
  <2>2. PICK j \in DOMAIN log : log[j] = Listed(l) /\ log[j].op = "list" /\ log[j].item = l
    BY <2>1, OpenMeans
  <2> DEFINE e == [op |-> "cancel", item |-> l, from |-> Listed(l).seller,
                   seller |-> Listed(l).seller, price |-> Listed(l).price]
  <2>3. e \in Event
    <3>1. log[j] \in Event
      BY DEF TypeOK
    <3> QED BY <2>2, <3>1 DEF Event
  <2>4. \A i \in DOMAIN log : log[i].item = l => log[i].op \notin Ends
    BY <2>1, OpenMeans
  <2> QED BY <2>1, <2>2, <2>3, <2>4
<1>3. CASE Buy
  <2>1. PICK l \in Listing, a \in Account :
          OpenListing(l) /\ Transact("buy", l, a, Listed(l).seller, Listed(l).price)
    BY <1>3 DEF Buy
  <2>2. PICK j \in DOMAIN log : log[j] = Listed(l) /\ log[j].op = "list" /\ log[j].item = l
    BY <2>1, OpenMeans
  <2> DEFINE e == [op |-> "buy", item |-> l, from |-> a,
                   seller |-> Listed(l).seller, price |-> Listed(l).price]
  <2>3. e \in Event
    <3>1. log[j] \in Event
      BY DEF TypeOK
    <3> QED BY <2>2, <3>1 DEF Event
  <2>4. \A i \in DOMAIN log : log[i].item = l => log[i].op \notin Ends
    BY <2>1, OpenMeans
  <2> QED BY <2>1, <2>2, <2>3, <2>4
<1>4. CASE Redeem
  <2>1. PICK x \in Epoch, a \in Account, p \in Price : Transact("redeem", x, a, a, p)
    BY <1>4 DEF Redeem
  <2> DEFINE e == [op |-> "redeem", item |-> x, from |-> a, seller |-> a, price |-> p]
  <2>2. e \in Event
    BY DEF Event
  <2> QED BY <2>1, <2>2
<1> QED BY <1>1, <1>2, <1>3, <1>4 DEF Trade

\* A trade keeps what the contracts guarantee.
LEMMA LogStep ==
    ASSUME TypeOK, LogInv, Trade
    PROVE  LogInv'
<1>1. PICK e \in Event :
        /\ log' = Append(log, e)
        /\ e.op \in {"list", "redeem"} => e.from = e.seller
        /\ e.item \in IF e.op = "redeem" THEN Epoch ELSE Listing
        /\ e.op = "list" => \A i \in DOMAIN log : log[i].item = e.item => log[i].op # "list"
        /\ e.op \in Ends => /\ \A i \in DOMAIN log : log[i].item = e.item => log[i].op \notin Ends
                            /\ \E j \in DOMAIN log :
                                 /\ log[j].op = "list" /\ log[j].item = e.item
                                 /\ log[j].seller = e.seller /\ log[j].price = e.price
  BY TradeAppends
<1> DEFINE n == Len(log) + 1
<1>2. /\ n \in Nat /\ DOMAIN log' = DOMAIN log \cup {n} /\ log'[n] = e
      /\ \A i \in DOMAIN log : log'[i] = log[i] /\ i < n
  BY <1>1, Appended
<1> HIDE DEF n
<1>3. \A i \in DOMAIN log' : log'[i].op \in {"list", "redeem"} => log'[i].from = log'[i].seller
  BY <1>1, <1>2 DEF LogInv
<1>4. \A i \in DOMAIN log' : log'[i].item \in IF log'[i].op = "redeem" THEN Epoch ELSE Listing
  BY <1>1, <1>2 DEF LogInv
<1>5. \A i, j \in DOMAIN log' :
          log'[i].op = "list" /\ log'[j].op = "list" /\ log'[i].item = log'[j].item => i = j
  BY <1>1, <1>2 DEF LogInv
<1>6. \A i, j \in DOMAIN log' :
          log'[i].op \in Ends /\ log'[j].op \in Ends /\ log'[i].item = log'[j].item => i = j
  BY <1>1, <1>2 DEF LogInv
<1>7. ASSUME NEW i \in DOMAIN log', log'[i].op \in Ends
      PROVE  \E j \in DOMAIN log' :
                /\ j < i /\ log'[j].op = "list" /\ log'[j].item = log'[i].item
                /\ log'[j].seller = log'[i].seller /\ log'[j].price = log'[i].price
  <2>1. CASE i = n
    BY <1>1, <1>2, <1>7, <2>1
  <2>2. CASE i \in DOMAIN log
    BY <1>2, <1>7, <2>2 DEF LogInv
  <2> QED BY <1>2, <2>1, <2>2
<1> QED BY <1>3, <1>4, <1>5, <1>6, <1>7 DEF LogInv

-----------------------------------------------------------------------------

\* A request in flight names a transaction of the chain; a purchase keeps a row
\* of the listing it names, whatever has become of its status; and what was
\* verified still agrees with the event.
FlightInv(r) ==
    pc[r] \in InFlight =>
        /\ body[r] \in Body /\ body[r].tx \in DOMAIN log
        /\ body[r].route = "buy" =>
              /\ kept[r].item = body[r].item
              /\ \E x \in listings : [x EXCEPT !.status = "active"] = kept[r]
        /\ pc[r] = "verified" =>
              /\ Confirms(r)
              /\ body[r].route = "buy" => SaleAgrees(r)
              /\ body[r].route = "redeem" => EventOf(r).item = body[r].item

RequestInv == \A r \in Post : FlightInv(r)

FiniteTables == IsFiniteSet(listings) /\ IsFiniteSet(purchases) /\ IsFiniteSet(redemptions)

\* A purchase is written only while its listing is in the table.
SoldIsListed == \A p \in purchases : \E x \in listings : x.item = p.item

TablesInv ==
    RowsAreGenuine /\ RegisteredOnce /\ ExecutedIffPurchased /\ SoldIsListed /\ FiniteTables

MarketIInv ==
    /\ TypeOK /\ LogInv /\ TablesInv /\ RequestInv
    /\ \A r \in Post : pc[r] # "raced"

\* Listings are added and executed, never otherwise changed or removed.
RowsStay ==
    \A x \in listings : \E y \in listings' :
        [y EXCEPT !.status = "active"] = [x EXCEPT !.status = "active"]

RequestTypes ==
    /\ pc \in [Post -> {"new", "raced"} \cup InFlight]
    /\ body \in [Post -> Body \cup {NoBody}] /\ kept \in [Post -> ListingRow \cup {NoBody}]

\* What other requests know stays true when one of them goes on.
LEMMA OthersStay ==
    ASSUME TypeOK, RequestInv, RowsStay, UNCHANGED log, NEW r \in Post,
           NEW s \in Post \ {r},
           pc'[s] = pc[s], body'[s] = body[s], kept'[s] = kept[s]
    PROVE  FlightInv(s)'
<1>1. FlightInv(s)
  BY DEF RequestInv
<1> SUFFICES ASSUME pc'[s] \in InFlight PROVE FlightInv(s)'
  BY DEF FlightInv
<1>2. body'[s] \in Body /\ body'[s].tx \in DOMAIN log'
  BY <1>1 DEF FlightInv
<1>3. ASSUME body'[s].route = "buy"
      PROVE  kept'[s].item = body'[s].item
             /\ \E x \in listings' : [x EXCEPT !.status = "active"] = kept'[s]
  BY ZenonT(40), <1>1, <1>3 DEF FlightInv, RowsStay
<1>4. ASSUME pc'[s] = "verified"
      PROVE  /\ Confirms(s)'
             /\ body'[s].route = "buy" => SaleAgrees(s)'
             /\ body'[s].route = "redeem" => EventOf(s)'.item = body'[s].item
  BY <1>1, <1>4 DEF FlightInv, Confirms, SaleAgrees, EventOf
<1> QED BY <1>2, <1>3, <1>4 DEF FlightInv

\* A request that is answered.
LEMMA AnswerStep ==
    ASSUME TypeOK, RequestInv, RowsStay, UNCHANGED log, NEW r \in Post,
           NEW how \in {"new", "raced"}, Answer(r, how)
    PROVE  RequestTypes' /\ RequestInv' /\ pc' = [pc EXCEPT ![r] = how]
<1>1. RequestTypes'
  BY DEF Answer, TypeOK, RequestTypes
<1>2. FlightInv(r)'
  BY DEF Answer, TypeOK, FlightInv, InFlight
<1>3. ASSUME NEW s \in Post \ {r} PROVE FlightInv(s)'
  BY <1>3, OthersStay DEF Answer, TypeOK
<1> QED BY <1>1, <1>2, <1>3 DEF RequestInv, Answer

\* A request that begins to wait for its receipt.
LEMMA AwaitStep ==
    ASSUME TypeOK, RequestInv, RowsStay, UNCHANGED log, NEW r \in Post,
           NEW b \in Body, NEW row \in ListingRow \cup {NoBody}, Await(r, b, row),
           b.tx \in DOMAIN log,
           b.route = "buy" => row.item = b.item /\ row \in listings' /\ row.status = "active"
                              /\ row \in ListingRow
    PROVE  RequestTypes' /\ RequestInv' /\ pc' = [pc EXCEPT ![r] = "verifying"]
<1>1. RequestTypes'
  BY DEF Await, TypeOK, RequestTypes, InFlight
<1>2. pc'[r] = "verifying" /\ body'[r] = b /\ kept'[r] = row
  BY DEF Await, TypeOK
<1>3. ASSUME b.route = "buy"
      PROVE  \E x \in listings' : [x EXCEPT !.status = "active"] = row
  <2>1. [row EXCEPT !.status = "active"] = row
    BY <1>3 DEF ListingRow
  <2> QED BY <1>3, <2>1
<1>4. FlightInv(r)'
  BY <1>2, <1>3 DEF FlightInv
<1>5. ASSUME NEW s \in Post \ {r} PROVE FlightInv(s)'
  BY <1>5, OthersStay DEF Await, TypeOK
<1> QED BY <1>1, <1>4, <1>5 DEF RequestInv, Await

\* What a body may say is a body.
LEMMA ClaimsAreBodies ==
    ASSUME TypeOK, LogInv, NEW i \in DOMAIN log, NEW route \in {"list", "buy", "redeem"},
           NEW b \in Claims(i, route)
    PROVE  b \in Body /\ b.tx = i /\ b.route = route
<1>1. log[i] \in Event /\ i \in Tx
  <2>1. Len(log) \in Nat /\ DOMAIN log = 1..Len(log) /\ Len(log) <= MaxTxs
    BY DEF TypeOK
  <2>2. i \in Tx
    BY <2>1, MarketplaceAssumption DEF Tx
  <2> QED BY <2>2 DEF TypeOK
<1>2. Honest(i, route) \in Body /\ Honest(i, route).tx = i /\ Honest(i, route).route = route
  BY <1>1 DEF Honest, Body, Event
<1> DEFINE h == Honest(i, route)
<1>3. \/ b = h
      \/ \E a \in Account : b = [h EXCEPT !.party = a]
      \/ \E p \in Price : b = [h EXCEPT !.price = p]
      \/ \E x \in Listing : b = [h EXCEPT !.item = x]
  BY DEF Claims
<1> HIDE DEF h
<1>4. h \in Body /\ h.tx = i /\ h.route = route
  BY <1>2 DEF h
<1> QED BY <1>3, <1>4 DEF Body

-----------------------------------------------------------------------------

\* A table that is left alone.
LEMMA StandingRows ==
    ASSUME UNCHANGED listings
    PROVE  RowsStay
  BY DEF RowsStay

\* The steps of a request up to its row: no table moves.
LEMMA PostStep ==
    ASSUME MarketIInv, NEW r \in Post,
           PostList(r) \/ PostBuy(r) \/ PostRedeem(r)
    PROVE  /\ RequestTypes' /\ RequestInv' /\ \A s \in Post : pc'[s] # "raced"
           /\ UNCHANGED <<log, tables, indexer>>
<1> USE DEF MarketIInv
<1>1. UNCHANGED <<log, tables, indexer>> /\ RowsStay
  BY StandingRows DEF PostList, PostBuy, PostRedeem, tables
<1>2. ASSUME Answer(r, "new") PROVE RequestTypes' /\ RequestInv' /\ \A s \in Post : pc'[s] # "raced"
  <2>1. RequestTypes' /\ RequestInv' /\ pc' = [pc EXCEPT ![r] = "new"]
    BY <1>1, <1>2, AnswerStep
  <2> QED BY <2>1 DEF TypeOK
<1>3. ASSUME NEW route \in {"list", "redeem"}, NEW i \in DOMAIN log, NEW b \in Claims(i, route),
             Await(r, b, NoBody)
      PROVE  RequestTypes' /\ RequestInv' /\ \A s \in Post : pc'[s] # "raced"
  <2>1. b \in Body /\ b.tx \in DOMAIN log /\ b.route # "buy"
    BY ClaimsAreBodies
  <2>2. RequestTypes' /\ RequestInv' /\ pc' = [pc EXCEPT ![r] = "verifying"]
    BY <1>1, <1>3, <2>1, AwaitStep
  <2> QED BY <2>2 DEF TypeOK
<1>4. ASSUME NEW i \in DOMAIN log, NEW b \in Claims(i, "buy"),
             NEW row \in getListingByListingId(b.item), Await(r, b, row),
             \E x \in getListingByListingId(b.item) : x.status = "active"
      PROVE  RequestTypes' /\ RequestInv' /\ \A s \in Post : pc'[s] # "raced"
  <2>1. b \in Body /\ b.tx \in DOMAIN log
    BY ClaimsAreBodies
  <2>2. row \in listings /\ row.item = b.item
    BY DEF getListingByListingId
  <2>3. row.status = "active"
    BY <1>4, <2>2 DEF getListingByListingId, TablesInv, RegisteredOnce
  <2>4. row \in ListingRow /\ row \in listings'
    BY <1>1, <2>2 DEF TypeOK, tables
  <2>5. RequestTypes' /\ RequestInv' /\ pc' = [pc EXCEPT ![r] = "verifying"]
    BY <1>1, <1>4, <2>1, <2>2, <2>3, <2>4, AwaitStep
  <2> QED BY <2>5 DEF TypeOK
<1>5. CASE PostList(r)
  BY <1>1, <1>2, <1>3, <1>5 DEF PostList
<1>6. CASE PostBuy(r)
  <2>1. PICK i \in DOMAIN log : \E b \in Claims(i, "buy") :
          \/ Answer(r, "new")
          \/ /\ \E x \in getListingByListingId(b.item) : x.status = "active"
             /\ \E row \in getListingByListingId(b.item) : Await(r, b, row)
    BY <1>6, Zenon DEF PostBuy
  <2>2. PICK b \in Claims(i, "buy") :
          \/ Answer(r, "new")
          \/ /\ \E x \in getListingByListingId(b.item) : x.status = "active"
             /\ \E row \in getListingByListingId(b.item) : Await(r, b, row)
    BY <2>1
  <2> QED BY <1>1, <1>2, <1>4, <2>2
<1>7. CASE PostRedeem(r)
  BY <1>1, <1>2, <1>3, <1>7 DEF PostRedeem
<1> QED BY <1>5, <1>6, <1>7

LEMMA VerdictStep ==
    ASSUME MarketIInv, NEW r \in Post,
           VerifyList(r) \/ VerifyBuy(r) \/ VerifyRedeem(r) \/ RpcFails(r)
    PROVE  /\ RequestTypes' /\ RequestInv' /\ \A s \in Post : pc'[s] # "raced"
           /\ UNCHANGED <<log, tables, indexer>>
<1> USE DEF MarketIInv
<1>1. UNCHANGED <<log, tables, indexer>> /\ RowsStay
  BY StandingRows DEF VerifyList, VerifyBuy, VerifyRedeem, RpcFails, Verdict, tables
<1>2. ASSUME Answer(r, "new") PROVE RequestTypes' /\ RequestInv' /\ \A s \in Post : pc'[s] # "raced"
  <2>1. RequestTypes' /\ RequestInv' /\ pc' = [pc EXCEPT ![r] = "new"]
    BY <1>1, <1>2, AnswerStep
  <2> QED BY <2>1 DEF TypeOK
<1>3. ASSUME pc[r] = "verifying", Confirms(r),
             body[r].route = "buy" => SaleAgrees(r),
             body[r].route = "redeem" => EventOf(r).item = body[r].item,
             pc' = [pc EXCEPT ![r] = "verified"], UNCHANGED <<body, kept>>
      PROVE  RequestTypes' /\ RequestInv' /\ \A s \in Post : pc'[s] # "raced"
  <2>1. RequestTypes'
    BY <1>3 DEF TypeOK, RequestTypes, InFlight
  <2>2. FlightInv(r)'
    <3>1. FlightInv(r) /\ pc[r] \in InFlight
      BY <1>3 DEF RequestInv, InFlight
    <3>2. /\ body'[r] \in Body /\ body'[r].tx \in DOMAIN log'
          /\ body'[r].route = "buy" =>
                /\ kept'[r].item = body'[r].item
                /\ \E x \in listings' : [x EXCEPT !.status = "active"] = kept'[r]
      BY <1>1, <1>3, <3>1 DEF FlightInv, tables
    <3>3. /\ Confirms(r)'
          /\ body'[r].route = "buy" => SaleAgrees(r)'
          /\ body'[r].route = "redeem" => EventOf(r)'.item = body'[r].item
      BY <1>1, <1>3 DEF Confirms, SaleAgrees, EventOf
    <3> QED BY <3>2, <3>3 DEF FlightInv
  <2>3. ASSUME NEW s \in Post \ {r} PROVE FlightInv(s)'
    BY <1>1, <1>3, <2>3, OthersStay DEF TypeOK
  <2> QED BY <1>3, <2>1, <2>2, <2>3 DEF RequestInv, TypeOK
<1>4. CASE VerifyList(r)
  BY <1>1, <1>2, <1>3, <1>4 DEF VerifyList, Verdict
<1>5. CASE VerifyBuy(r)
  BY <1>1, <1>2, <1>3, <1>5 DEF VerifyBuy, Verdict, SaleAgrees
<1>6. CASE VerifyRedeem(r)
  BY <1>1, <1>2, <1>3, <1>6 DEF VerifyRedeem, Verdict
<1>7. CASE RpcFails(r)
  BY <1>1, <1>2, <1>7 DEF RpcFails
<1> QED BY <1>4, <1>5, <1>6, <1>7

-----------------------------------------------------------------------------

\* The listing of a verified purchase was active when it was read: if it is not
\* any more, its one sale is in the table, and that is this transaction.
LEMMA NotRaced ==
    ASSUME MarketIInv, NEW r \in Post, Verified(r, "buy")
    PROVE  /\ body[r] \in Body /\ body[r].tx \in DOMAIN log
           /\ EventOf(r).op = "buy" /\ SaleAgrees(r)
           /\ \E x \in listings : x.item = EventOf(r).item /\ [x EXCEPT !.status = "active"] = kept[r]
           /\ \/ Recorded(body[r].tx, purchases)
              \/ \E x \in listings : x.item = EventOf(r).item /\ x.status = "active"
<1> USE DEF MarketIInv
<1>1. /\ body[r] \in Body /\ body[r].tx \in DOMAIN log
      /\ kept[r].item = body[r].item
      /\ Confirms(r) /\ SaleAgrees(r)
  BY DEF Verified, RequestInv, FlightInv, InFlight
<1>2. PICK x \in listings : [x EXCEPT !.status = "active"] = kept[r]
  BY DEF Verified, RequestInv, FlightInv, InFlight
<1>3. EventOf(r).op = "buy" /\ EventOf(r).item = body[r].item
  BY <1>1 DEF Confirms, SaleAgrees, Verified
<1>4. x \in ListingRow
  BY DEF TypeOK
<1>5. x.item = EventOf(r).item
  BY <1>1, <1>2, <1>3, <1>4 DEF ListingRow
<1>6. ASSUME x.status # "active" PROVE Recorded(body[r].tx, purchases)
  <2>1. PICK p \in purchases : p.item = x.item
    BY <1>4, <1>6 DEF TablesInv, ExecutedIffPurchased, ListingRow
  <2>2. /\ p.tx \in DOMAIN log
        /\ log[p.tx] = [op |-> "buy", item |-> p.item, from |-> p.buyer,
                        seller |-> p.seller, price |-> p.price]
    BY DEF TablesInv, RowsAreGenuine
  <2>3. p.tx = body[r].tx
    BY <1>1, <1>3, <1>5, <2>1, <2>2 DEF LogInv, Ends, EventOf
  <2> QED BY <2>3 DEF Recorded
<1> QED BY <1>1, <1>2, <1>3, <1>5, <1>6

\* What is left to show of a table step once the tables are right.
LEMMA AnsweredStep ==
    ASSUME MarketIInv, NEW r \in Post, Answer(r, "new"), UNCHANGED <<log, indexer>>,
           RowsStay, TablesInv',
           listings' \subseteq ListingRow, purchases' \subseteq PurchaseRows,
           redemptions' \subseteq RedemptionRow
    PROVE  MarketIInv'
<1> USE DEF MarketIInv
<1>1. RequestTypes' /\ RequestInv' /\ pc' = [pc EXCEPT ![r] = "new"]
  BY AnswerStep
<1>2. TypeOK'
  BY <1>1 DEF TypeOK, RequestTypes, indexer
<1>3. LogInv'
  BY DEF LogInv
<1>4. \A s \in Post : pc'[s] # "raced"
  BY <1>1 DEF TypeOK
<1> QED BY <1>1, <1>2, <1>3, <1>4

LEMMA RecordListStep ==
    ASSUME MarketIInv, NEW r \in Post, RecordList(r)
    PROVE  MarketIInv'
<1> USE DEF MarketIInv
<1>1. Answer(r, "new") /\ UNCHANGED <<log, indexer, purchases, redemptions>>
  BY DEF RecordList
<1> DEFINE row == [item |-> EventOf(r).item, seller |-> body[r].party, price |-> EventOf(r).price,
                   tx |-> body[r].tx, id |-> Cardinality(listings), status |-> "active"]
<1>2. listings' = recordListing(row)
  BY DEF RecordList
<1>3. CASE listings' = listings
  <2>1. RowsStay
    BY <1>3, StandingRows
  <2>2. TablesInv'
    BY <1>1, <1>3 DEF TablesInv, RowsAreGenuine, RegisteredOnce, ExecutedIffPurchased,
                     SoldIsListed, FiniteTables
  <2> QED BY <1>1, <1>3, <2>1, <2>2, AnsweredStep DEF TypeOK
<1>4. CASE /\ \A x \in listings : x.item # row.item /\ x.tx # row.tx
           /\ listings' = listings \cup {row}
  <2>1. body[r] \in Body /\ body[r].tx \in DOMAIN log /\ Confirms(r) /\ body[r].route = "list"
    BY DEF RecordList, Verified, RequestInv, FlightInv, InFlight
  <2>2. /\ EventOf(r) \in Event /\ EventOf(r).op = "list"
        /\ EventOf(r).from = body[r].party /\ EventOf(r).seller = body[r].party
        /\ EventOf(r).item \in Listing
    BY <2>1 DEF Confirms, EventOf, TypeOK, LogInv
  <2>3. Cardinality(listings) \in Nat /\ IsFiniteSet(listings \cup {row})
    BY FS_CardinalityType, FS_AddElement DEF TablesInv, FiniteTables
  <2>4. row \in ListingRow
    BY <2>1, <2>2, <2>3 DEF ListingRow, Body, Event
  <2>5. log[row.tx] = [op |-> "list", item |-> row.item, from |-> row.seller,
                       seller |-> row.seller, price |-> row.price]
    BY <2>2 DEF EventOf, Event
  <2>6. row.tx \in DOMAIN log /\ row.status = "active"
    BY <2>1
  <2> HIDE DEF row
  <2>7. RowsAreGenuine'
    BY <1>1, <1>4, <2>5, <2>6 DEF TablesInv, RowsAreGenuine
  <2>8. RegisteredOnce'
    BY <1>1, <1>4 DEF TablesInv, RegisteredOnce
  <2>9. ExecutedIffPurchased' /\ SoldIsListed'
    BY <1>1, <1>4, <2>6 DEF TablesInv, ExecutedIffPurchased, SoldIsListed
  <2>10. FiniteTables'
    BY <1>1, <1>4, <2>3 DEF TablesInv, FiniteTables
  <2>11. RowsStay
    BY <1>4 DEF RowsStay
  <2>12. TablesInv'
    BY <2>7, <2>8, <2>9, <2>10 DEF TablesInv
  <2>13. listings' \subseteq ListingRow /\ purchases' \subseteq PurchaseRows
         /\ redemptions' \subseteq RedemptionRow
    BY <1>1, <1>4, <2>4 DEF TypeOK
  <2> QED BY <1>1, <2>11, <2>12, <2>13, AnsweredStep
<1> QED BY <1>2, <1>3, <1>4 DEF recordListing

LEMMA RecordRedeemStep ==
    ASSUME MarketIInv, NEW r \in Post, RecordRedeem(r)
    PROVE  MarketIInv'
<1> USE DEF MarketIInv
<1>1. Answer(r, "new") /\ UNCHANGED <<log, indexer, listings, purchases>> /\ RowsStay
  BY StandingRows DEF RecordRedeem
<1> DEFINE row == [item |-> body[r].item, owner |-> body[r].party, price |-> body[r].price,
                   tx |-> body[r].tx, id |-> Cardinality(redemptions)]
<1>2. redemptions' = recordRedemption(row)
  BY DEF RecordRedeem
<1>3. CASE redemptions' = redemptions
  <2>2. TablesInv'
    BY <1>1, <1>3 DEF TablesInv, RowsAreGenuine, RegisteredOnce, ExecutedIffPurchased,
                     SoldIsListed, FiniteTables
  <2> QED BY <1>1, <1>3, <2>2, AnsweredStep DEF TypeOK
<1>4. CASE (\A x \in redemptions : x.tx # row.tx) /\ redemptions' = redemptions \cup {row}
  <2>1. /\ body[r] \in Body /\ body[r].tx \in DOMAIN log /\ Confirms(r)
        /\ body[r].route = "redeem" /\ EventOf(r).item = body[r].item
    BY DEF RecordRedeem, Verified, RequestInv, FlightInv, InFlight
  <2>2. /\ EventOf(r) \in Event /\ EventOf(r).op = "redeem"
        /\ EventOf(r).from = body[r].party /\ EventOf(r).seller = body[r].party
        /\ EventOf(r).item \in Epoch /\ EventOf(r).price = body[r].price
    BY <2>1 DEF Confirms, EventOf, TypeOK, LogInv
  <2>3. Cardinality(redemptions) \in Nat /\ IsFiniteSet(redemptions \cup {row})
    BY FS_CardinalityType, FS_AddElement DEF TablesInv, FiniteTables
  <2>4. row \in RedemptionRow
    BY <2>1, <2>2, <2>3 DEF RedemptionRow, Body, Event
  <2>5. log[row.tx] = [op |-> "redeem", item |-> row.item, from |-> row.owner,
                       seller |-> row.owner, price |-> row.price]
    BY <2>1, <2>2 DEF EventOf, Event
  <2>6. row.tx \in DOMAIN log
    BY <2>1
  <2> HIDE DEF row
  <2>7. RowsAreGenuine'
    BY <1>1, <1>4, <2>5, <2>6 DEF TablesInv, RowsAreGenuine
  <2>8. RegisteredOnce' /\ ExecutedIffPurchased' /\ SoldIsListed'
    BY <1>1, <1>4 DEF TablesInv, RegisteredOnce, ExecutedIffPurchased, SoldIsListed
  <2>9. FiniteTables'
    BY <1>1, <1>4, <2>3 DEF TablesInv, FiniteTables
  <2>10. TablesInv'
    BY <2>7, <2>8, <2>9 DEF TablesInv
  <2>11. listings' \subseteq ListingRow /\ purchases' \subseteq PurchaseRows
         /\ redemptions' \subseteq RedemptionRow
    BY <1>1, <1>4, <2>4 DEF TypeOK
  <2> QED BY <1>1, <2>10, <2>11, AnsweredStep
<1> QED BY <1>2, <1>3, <1>4 DEF recordRedemption, Recorded

\* Executing the listing of a sale changes the status of its row and nothing else.
Row(x, w) == IF w.item = x THEN [w EXCEPT !.status = "executed"] ELSE w

LEMMA ExecutedRows ==
    ASSUME TypeOK, IsFiniteSet(listings), NEW x
    PROVE  /\ Executed(x) \subseteq ListingRow /\ IsFiniteSet(Executed(x))
           /\ \A y \in Executed(x) : \E w \in listings :
                 /\ y = Row(x, w) /\ y.item = w.item /\ y.seller = w.seller /\ y.price = w.price
                 /\ y.tx = w.tx /\ y.status = (IF w.item = x THEN "executed" ELSE w.status)
           /\ \A w \in listings : \E y \in Executed(x) :
                 y.item = w.item /\ [y EXCEPT !.status = "active"] = [w EXCEPT !.status = "active"]
<1>1. ASSUME NEW w \in listings
      PROVE  /\ Row(x, w) \in ListingRow /\ Row(x, w).item = w.item /\ Row(x, w).tx = w.tx
             /\ Row(x, w).seller = w.seller /\ Row(x, w).price = w.price
             /\ Row(x, w).status = (IF w.item = x THEN "executed" ELSE w.status)
             /\ [Row(x, w) EXCEPT !.status = "active"] = [w EXCEPT !.status = "active"]
  BY DEF TypeOK, ListingRow, Row
<1>2. Executed(x) = {Row(x, w) : w \in listings}
  BY DEF Executed, Row
<1>3. IsFiniteSet(Executed(x))
  <2> DEFINE f == [w \in listings |-> Row(x, w)]
  <2>1. f \in Surjection(listings, Executed(x))
    BY <1>2 DEF Surjection
  <2> QED BY <2>1, FS_Surjection
<1>4. ASSUME NEW y \in Executed(x)
      PROVE  \E w \in listings :
                 /\ y = Row(x, w) /\ y.item = w.item /\ y.seller = w.seller /\ y.price = w.price
                 /\ y.tx = w.tx /\ y.status = (IF w.item = x THEN "executed" ELSE w.status)
  <2>1. PICK w \in listings : y = Row(x, w)
    BY <1>2
  <2> QED BY <1>1, <2>1
<1>5. ASSUME NEW w \in listings
      PROVE  \E y \in Executed(x) :
                 y.item = w.item /\ [y EXCEPT !.status = "active"] = [w EXCEPT !.status = "active"]
  <2>1. Row(x, w) \in Executed(x)
    BY <1>2
  <2> QED BY <1>1, <2>1
<1>6. Executed(x) \subseteq ListingRow
  BY <1>1, <1>2
<1> QED BY <1>3, <1>4, <1>5, <1>6

LEMMA RecordBuyStep ==
    ASSUME MarketIInv, NEW r \in Post, RecordBuy(r)
    PROVE  MarketIInv'
<1> USE DEF MarketIInv
<1>1. UNCHANGED <<log, redemptions, indexer>> /\ Verified(r, "buy")
  BY DEF RecordBuy
<1>2. /\ body[r] \in Body /\ body[r].tx \in DOMAIN log
      /\ EventOf(r).op = "buy" /\ SaleAgrees(r)
      /\ \E x \in listings : x.item = EventOf(r).item /\ [x EXCEPT !.status = "active"] = kept[r]
      /\ \/ Recorded(body[r].tx, purchases)
         \/ \E x \in listings : x.item = EventOf(r).item /\ x.status = "active"
  BY <1>1, NotRaced
<1>3. Answer(r, "new")
  BY <1>2 DEF RecordBuy
<1>4. CASE listings' = listings /\ purchases' = purchases
  <2>1. RowsStay
    BY <1>4, StandingRows
  <2>2. TablesInv'
    BY <1>1, <1>4 DEF TablesInv, RowsAreGenuine, RegisteredOnce, ExecutedIffPurchased,
                     SoldIsListed, FiniteTables
  <2> QED BY <1>1, <1>3, <1>4, <2>1, <2>2, AnsweredStep DEF TypeOK
<1> DEFINE row == PurchaseRow(r)
           l == EventOf(r).item
<1>5. CASE /\ ~Recorded(body[r].tx, purchases)
           /\ \E x \in listings : x.item = l /\ x.status = "active"
           /\ purchases' = purchases \cup {row} /\ listings' = Executed(l)
  <2>1. PICK k \in listings : k.item = l /\ [k EXCEPT !.status = "active"] = kept[r]
    BY <1>2
  <2>2. k \in ListingRow /\ kept[r] \in ListingRow
    BY <2>1 DEF TypeOK, ListingRow
  <2>3. /\ EventOf(r) \in Event /\ EventOf(r).from = body[r].party
        /\ EventOf(r).seller = kept[r].seller /\ EventOf(r).price = body[r].price
    BY <1>2 DEF SaleAgrees, Confirms, EventOf, TypeOK
  <2>4. Cardinality(purchases) \in Nat /\ IsFiniteSet(purchases \cup {row})
    BY FS_CardinalityType, FS_AddElement DEF TablesInv, FiniteTables
  <2>5. /\ row.item = l /\ row.buyer = body[r].party /\ row.seller = kept[r].seller
        /\ row.price = body[r].price /\ row.tx = body[r].tx
    BY DEF PurchaseRow
  <2>6. row \in PurchaseRows
    <3>1. l \in Listing
      BY <2>1, <2>2 DEF ListingRow
    <3>2. kept[r].seller \in Account /\ body[r].party \in Account /\ body[r].price \in Price
          /\ body[r].tx \in Tx
      BY <1>2, <2>2 DEF ListingRow, Body
    <3> QED BY <2>4, <3>1, <3>2 DEF PurchaseRow, PurchaseRows
  <2>7. log[row.tx] = [op |-> "buy", item |-> row.item, from |-> row.buyer,
                       seller |-> row.seller, price |-> row.price]
    <3>1. EventOf(r) = [op |-> "buy", item |-> l, from |-> body[r].party,
                        seller |-> kept[r].seller, price |-> body[r].price]
      BY <1>2, <2>3 DEF Event
    <3> QED BY <2>5, <3>1 DEF EventOf
  <2>8. /\ listings' \subseteq ListingRow /\ IsFiniteSet(listings')
        /\ \A y \in listings' : \E w \in listings :
              /\ y = Row(l, w) /\ y.item = w.item /\ y.seller = w.seller /\ y.price = w.price
              /\ y.tx = w.tx /\ y.status = (IF w.item = l THEN "executed" ELSE w.status)
        /\ \A w \in listings : \E y \in listings' :
              y.item = w.item /\ [y EXCEPT !.status = "active"] = [w EXCEPT !.status = "active"]
    <3>1. IsFiniteSet(listings)
      BY DEF TablesInv, FiniteTables
    <3>2. /\ Executed(l) \subseteq ListingRow /\ IsFiniteSet(Executed(l))
          /\ \A y \in Executed(l) : \E w \in listings :
                /\ y = Row(l, w) /\ y.item = w.item /\ y.seller = w.seller /\ y.price = w.price
                /\ y.tx = w.tx /\ y.status = (IF w.item = l THEN "executed" ELSE w.status)
          /\ \A w \in listings : \E y \in Executed(l) :
                y.item = w.item /\ [y EXCEPT !.status = "active"] = [w EXCEPT !.status = "active"]
      BY <3>1, ExecutedRows
    <3>3. listings' = Executed(l)
      BY <1>5
    <3> QED BY <3>2, <3>3
  <2>9. row.tx \in DOMAIN log /\ \A p \in purchases : p.tx # row.tx
    BY <1>2, <1>5, <2>5 DEF Recorded
  <2>10. \A p \in purchases : p.item # row.item
    <3>1. SUFFICES ASSUME NEW p \in purchases, p.item = row.item PROVE FALSE
      OBVIOUS
    <3>2. /\ p.tx \in DOMAIN log
          /\ log[p.tx] = [op |-> "buy", item |-> p.item, from |-> p.buyer,
                          seller |-> p.seller, price |-> p.price]
      BY DEF TablesInv, RowsAreGenuine
    <3>3. p.tx = row.tx
      BY <2>7, <2>9, <3>1, <3>2 DEF LogInv, Ends
    <3> QED BY <2>9, <3>3
  <2>11. \E x \in listings : x.item = row.item
    BY <2>1, <2>5
  <2>12. purchases' = purchases \cup {row} /\ redemptions' = redemptions /\ log' = log
    BY <1>1, <1>5
  <2>13. l = row.item
    BY <2>5
  <2> HIDE DEF row, l
  <2>14. RowsAreGenuine'
    <3>1. \A x \in listings' :
             /\ x.tx \in DOMAIN log
             /\ log[x.tx] = [op |-> "list", item |-> x.item, from |-> x.seller,
                             seller |-> x.seller, price |-> x.price]
      <4>1. SUFFICES ASSUME NEW y \in listings'
                     PROVE  /\ y.tx \in DOMAIN log
                            /\ log[y.tx] = [op |-> "list", item |-> y.item, from |-> y.seller,
                                            seller |-> y.seller, price |-> y.price]
        OBVIOUS
      <4>2. PICK w \in listings :
              y.item = w.item /\ y.seller = w.seller /\ y.price = w.price /\ y.tx = w.tx
        BY <2>8
      <4>3. /\ w.tx \in DOMAIN log
            /\ log[w.tx] = [op |-> "list", item |-> w.item, from |-> w.seller,
                            seller |-> w.seller, price |-> w.price]
        BY DEF TablesInv, RowsAreGenuine
      <4> QED BY <4>2, <4>3
    <3>2. \A x \in purchases' :
             /\ x.tx \in DOMAIN log
             /\ log[x.tx] = [op |-> "buy", item |-> x.item, from |-> x.buyer,
                             seller |-> x.seller, price |-> x.price]
      BY <2>7, <2>9, <2>12 DEF TablesInv, RowsAreGenuine
    <3> QED BY <2>12, <3>1, <3>2 DEF TablesInv, RowsAreGenuine
  <2>15. RegisteredOnce'
    <3>1. \A x, y \in listings' : x.tx = y.tx \/ x.item = y.item => x = y
      BY <2>8 DEF TablesInv, RegisteredOnce
    <3>2. \A x, y \in purchases' : x.tx = y.tx \/ x.item = y.item => x = y
      BY <2>9, <2>10, <2>12 DEF TablesInv, RegisteredOnce
    <3> QED BY <2>12, <3>1, <3>2 DEF TablesInv, RegisteredOnce
  <2>16. ExecutedIffPurchased'
    BY <2>8, <2>12, <2>13 DEF TablesInv, ExecutedIffPurchased
  <2>17. SoldIsListed'
    <3>1. SUFFICES ASSUME NEW p \in purchases' PROVE \E y \in listings' : y.item = p.item
      BY DEF SoldIsListed
    <3>2. PICK w \in listings : w.item = p.item
      BY <2>11, <2>12 DEF TablesInv, SoldIsListed
    <3>3. \E y \in listings' : y.item = w.item
      BY <2>8
    <3> QED BY <3>2, <3>3
  <2>18. FiniteTables'
    BY <2>4, <2>8, <2>12 DEF TablesInv, FiniteTables
  <2>19. TablesInv'
    BY <2>14, <2>15, <2>16, <2>17, <2>18 DEF TablesInv
  <2>20. RowsStay
    BY <2>8 DEF RowsStay
  <2>21. listings' \subseteq ListingRow /\ purchases' \subseteq PurchaseRows
         /\ redemptions' \subseteq RedemptionRow
    BY <2>6, <2>8, <2>12 DEF TypeOK
  <2> QED BY <1>1, <1>3, <2>19, <2>20, <2>21, AnsweredStep
<1> QED BY <1>2, <1>4, <1>5 DEF RecordBuy

-----------------------------------------------------------------------------

LEMMA TradeStep ==
    ASSUME MarketIInv, Trade
    PROVE  MarketIInv'
<1> USE DEF MarketIInv
<1>1. PICK e \in Event : /\ log' = Append(log, e) /\ Len(log) < MaxTxs
                         /\ UNCHANGED <<tables, requests, indexer>>
  BY TradeAppends
<1>2. DOMAIN log \subseteq DOMAIN log' /\ \A i \in DOMAIN log : log'[i] = log[i]
  BY <1>1, Appended
<1>3. log' \in Seq(Event) /\ Len(log') <= MaxTxs
  BY <1>1, MarketplaceAssumption DEF TypeOK
<1>4. TypeOK'
  BY <1>1, <1>3 DEF TypeOK, tables, requests, indexer
<1>5. LogInv'
  BY LogStep
<1>6. RowsAreGenuine'
  BY <1>1, <1>2 DEF TablesInv, RowsAreGenuine, tables
<1>7. TablesInv'
  BY <1>1, <1>6 DEF TablesInv, RegisteredOnce, ExecutedIffPurchased, SoldIsListed, FiniteTables,
                    tables
<1>8. ASSUME NEW s \in Post PROVE FlightInv(s)'
  <2>1. FlightInv(s) /\ listings' = listings /\ pc' = pc /\ body' = body /\ kept' = kept
    BY <1>1 DEF RequestInv, tables, requests
  <2>2. pc[s] \in InFlight => EventOf(s)' = EventOf(s) /\ body[s].tx \in DOMAIN log'
    BY <1>2, <2>1 DEF EventOf, FlightInv
  <2> QED BY <2>1, <2>2 DEF FlightInv, Confirms, SaleAgrees
<1>9. \A s \in Post : pc'[s] # "raced"
  BY <1>1 DEF requests
<1> QED BY <1>4, <1>5, <1>7, <1>8, <1>9 DEF RequestInv

\* What leaves the tables and the log alone leaves the tables' invariants alone.
LEMMA TablesStand ==
    ASSUME MarketIInv, UNCHANGED <<log, tables>>
    PROVE  LogInv' /\ TablesInv'
BY DEF MarketIInv, LogInv, TablesInv, RowsAreGenuine, RegisteredOnce, ExecutedIffPurchased,
       SoldIsListed, FiniteTables, tables

LEMMA QuietStep ==
    ASSUME MarketIInv, UNCHANGED <<log, tables>>, RequestTypes', RequestInv',
           \A s \in Post : pc'[s] # "raced", UNCHANGED indexer
    PROVE  MarketIInv'
<1>1. TypeOK'
  BY DEF MarketIInv, TypeOK, RequestTypes, tables, indexer
<1> QED BY <1>1, TablesStand DEF MarketIInv

LEMMA CrashStep ==
    ASSUME MarketIInv, Crash
    PROVE  MarketIInv'
<1>1. RequestTypes' /\ \A s \in Post : pc'[s] # "raced"
  BY DEF Crash, MarketIInv, TypeOK, RequestTypes, InFlight
<1>2. RequestInv'
  BY DEF Crash, MarketIInv, TypeOK, RequestInv, FlightInv, InFlight
<1> QED BY <1>1, <1>2, QuietStep DEF Crash

\* The handlers of the indexer keep its table a table.
LEMMA HandlerTypes ==
    ASSUME TypeOK, LogInv, IndexNext \/ Heal
    PROVE  TypeOK' /\ UNCHANGED <<log, tables, requests>>
<1> DEFINE Rows == [status : {"none", "active", "cancelled", "filled"},
                    filledBy : Account \cup {"nobody"}]
<1>1. UNCHANGED <<log, tables, requests>>
  BY DEF IndexNext, Heal
<1>2. CASE Heal
  <2>1. NoRow \in Rows
    BY DEF NoRow
  <2>2. synced' \in Nat /\ market' \in [Listing -> Rows] /\ bond' \subseteq Nat
    BY <1>2, <2>1, MarketplaceAssumption DEF Heal
  <2> QED BY <1>1, <2>2 DEF TypeOK, tables, requests
<1>3. CASE IndexNext
  <2>1. synced' \in Nat
    BY <1>3 DEF IndexNext, TypeOK
  <2>2. bond' \subseteq Nat
    <3>1. bond' = bond \/ bond' = bond \cup {synced + 1}
      BY <1>3 DEF IndexNext
    <3>2. synced \in Nat /\ bond \subseteq Nat
      BY DEF TypeOK
    <3>3. synced + 1 \in Nat
      BY <3>2
    <3> QED BY <3>1, <3>2, <3>3
  <2>3. market' \in [Listing -> Rows]
    <3>1. synced + 1 \in DOMAIN log
      BY <1>3 DEF IndexNext, TypeOK
    <3> DEFINE e == log[synced + 1]
    <3>2. e \in Event /\ (e.op # "redeem" => e.item \in Listing)
      BY <3>1 DEF TypeOK, LogInv
    <3>3. CASE UNCHANGED market
      BY <3>3 DEF TypeOK
    <3>4. CASE e.op # "redeem" /\ HandleMarket(e)
      <4> DEFINE old == market[e.item]
      <4>1. old \in Rows /\ market \in [Listing -> Rows] /\ e.from \in Account
        BY <3>2, <3>4 DEF TypeOK, Event
      <4>2. PICK new : /\ market' = [market EXCEPT ![e.item] = new]
                       /\ \/ new = [old EXCEPT !.status = "active"]
                          \/ new = [old EXCEPT !.status = "cancelled"]
                          \/ new = [status |-> "filled", filledBy |-> e.from]
                          \/ new = old
        BY <3>4 DEF HandleMarket
      <4> HIDE DEF e, old
      <4>3. new \in Rows
        BY <4>1, <4>2
      <4> QED BY <4>1, <4>2, <4>3
    <3> QED BY <1>3, <3>3, <3>4 DEF IndexNext
  <2> QED BY <1>1, <2>1, <2>2, <2>3 DEF TypeOK, tables, requests
<1> QED BY <1>2, <1>3

\* Requests know what they knew while they, the chain and the listings stand.
LEMMA FlightsStand ==
    ASSUME RequestInv, UNCHANGED <<log, listings, pc, body, kept>>
    PROVE  RequestInv'
<1> SUFFICES ASSUME NEW s \in Post PROVE FlightInv(s)'
  BY DEF RequestInv
<1>1. FlightInv(s)
  BY DEF RequestInv
<1>2. EventOf(s)' = EventOf(s)
  BY DEF EventOf
<1>3. Confirms(s)' = Confirms(s)
  BY <1>2 DEF Confirms
<1>4. SaleAgrees(s)' = SaleAgrees(s)
  BY <1>2, <1>3 DEF SaleAgrees
<1> QED BY <1>1, <1>2, <1>3, <1>4 DEF FlightInv

LEMMA IndexerStep ==
    ASSUME MarketIInv, IndexNext \/ Heal
    PROVE  MarketIInv'
<1>1. TypeOK' /\ UNCHANGED <<log, tables, requests>>
  BY HandlerTypes DEF MarketIInv
<1>2. RequestInv' /\ \A s \in Post : pc'[s] # "raced"
  <2>1. UNCHANGED <<log, listings, pc, body, kept>>
    BY <1>1 DEF tables, requests
  <2> QED BY <2>1, FlightsStand DEF MarketIInv
<1> QED BY <1>1, <1>2, TablesStand DEF MarketIInv

LEMMA MarketStep ==
    ASSUME MarketIInv, [Next]_vars
    PROVE  MarketIInv'
<1>1. CASE Trade
  BY <1>1, TradeStep
<1>2. CASE Crash
  BY <1>2, CrashStep
<1>3. CASE IndexNext \/ Heal
  BY <1>3, IndexerStep
<1>4. ASSUME NEW r \in Post, PostList(r) \/ PostBuy(r) \/ PostRedeem(r) PROVE MarketIInv'
  BY <1>4, PostStep, QuietStep
<1>5. ASSUME NEW r \in Post, VerifyList(r) \/ VerifyBuy(r) \/ VerifyRedeem(r) \/ RpcFails(r)
      PROVE MarketIInv'
  BY <1>5, VerdictStep, QuietStep
<1>6. ASSUME NEW r \in Post, RecordList(r) \/ RecordBuy(r) \/ RecordRedeem(r) PROVE MarketIInv'
  BY <1>6, RecordListStep, RecordBuyStep, RecordRedeemStep
<1>7. CASE UNCHANGED vars
  <2>1. UNCHANGED <<log, tables, requests, indexer>>
    BY <1>7 DEF vars
  <2>2. RequestTypes' /\ RequestInv' /\ \A s \in Post : pc'[s] # "raced"
    <3>1. log' = log /\ listings' = listings /\ pc' = pc /\ body' = body /\ kept' = kept
      BY <2>1 DEF tables, requests
    <3>2. RequestTypes' /\ \A s \in Post : pc'[s] # "raced"
      BY <3>1 DEF MarketIInv, TypeOK, RequestTypes
    <3>3. RequestInv'
      BY <3>1, FlightsStand DEF MarketIInv
    <3> QED BY <3>2, <3>3
  <2> QED BY <2>1, <2>2, QuietStep
<1> QED BY <1>1, <1>2, <1>3, <1>4, <1>5, <1>6, <1>7 DEF Next, Serve

LEMMA MarketInit ==
    ASSUME Init
    PROVE  MarketIInv
<1> USE DEF Init
<1>1. TypeOK
  <2>1. NoRow \in [status : {"none", "active", "cancelled", "filled"},
                   filledBy : Account \cup {"nobody"}]
    BY DEF NoRow
  <2>2. market \in [Listing -> [status : {"none", "active", "cancelled", "filled"},
                                filledBy : Account \cup {"nobody"}]]
    BY <2>1
  <2> QED BY <2>2, MarketplaceAssumption DEF TypeOK
<1>2. LogInv
  BY DEF LogInv
<1>3. TablesInv
  BY FS_EmptySet DEF TablesInv, RowsAreGenuine, RegisteredOnce, ExecutedIffPurchased,
                     SoldIsListed, FiniteTables
<1>4. RequestInv /\ \A r \in Post : pc[r] # "raced"
  BY DEF RequestInv, FlightInv, InFlight
<1> QED BY <1>1, <1>2, <1>3, <1>4 DEF MarketIInv

LEMMA MarketAlways == Spec => []MarketIInv
  BY MarketInit, MarketStep, PTL DEF Spec

-----------------------------------------------------------------------------
(* The indexer *)

\* What the indexer has handled: it knows every listing after its start block,
\* the buyer of every sale whose listing it knows, and every redemption.
IndexInv ==
    /\ Start <= synced /\ (synced = Start \/ synced <= Len(log))
    /\ \A i \in DOMAIN log : Start < i /\ i <= synced =>
          /\ log[i].op = "list" => market[log[i].item] # NoRow
          /\ log[i].op = "buy" /\ ~Did("list", log[i].item, Start) =>
                market[log[i].item] = [status |-> "filled", filledBy |-> log[i].from]
          /\ log[i].op = "redeem" => i \in bond

\* An event moves the row of its item only, never back to none, and a sale whose
\* listing is known fills it.
LEMMA HandlerStep ==
    ASSUME TypeOK, NEW e \in Event, e.item \in Listing, HandleMarket(e)
    PROVE  /\ \A l \in Listing : l # e.item => market'[l] = market[l]
           /\ market[e.item] # NoRow => market'[e.item] # NoRow
           /\ e.op = "list" => market'[e.item] # NoRow
           /\ e.op = "list" /\ market[e.item] # NoRow => market'[e.item] = market[e.item]
           /\ e.op = "buy" /\ market[e.item] # NoRow =>
                 market'[e.item] = [status |-> "filled", filledBy |-> e.from]
<1> DEFINE old == market[e.item]
           Rows == [status : {"none", "active", "cancelled", "filled"},
                    filledBy : Account \cup {"nobody"}]
<1>1. old \in Rows /\ market \in [Listing -> Rows]
  BY DEF TypeOK
<1>2. PICK new :
        /\ market' = [market EXCEPT ![e.item] = new]
        /\ \/ e.op = "list" /\ old = NoRow /\ new = [old EXCEPT !.status = "active"]
           \/ e.op = "cancel" /\ old # NoRow /\ new = [old EXCEPT !.status = "cancelled"]
           \/ e.op = "buy" /\ old # NoRow /\ new = [status |-> "filled", filledBy |-> e.from]
           \/ /\ new = old /\ ~(e.op = "list" /\ old = NoRow) /\ ~(e.op = "buy" /\ old # NoRow)
  BY DEF HandleMarket
<1>3. market'[e.item] = new /\ \A l \in Listing : l # e.item => market'[l] = market[l]
  BY <1>1, <1>2
<1> HIDE DEF old
<1>4. /\ old # NoRow => new # NoRow
      /\ e.op = "list" => new # NoRow
      /\ e.op = "list" /\ old # NoRow => new = old
      /\ e.op = "buy" /\ old # NoRow => new = [status |-> "filled", filledBy |-> e.from]
  BY <1>1, <1>2 DEF NoRow
<1> QED BY <1>3, <1>4 DEF old

LEMMA IndexStep ==
    ASSUME MarketIInv, IndexInv, IndexNext
    PROVE  IndexInv'
<1> DEFINE n == synced + 1
           e == log[n]
<1>1. /\ synced \in Nat /\ n \in Nat /\ synced' = n /\ n \in DOMAIN log /\ n <= Len(log)
      /\ log' = log /\ Start \in Nat /\ Start < n /\ Len(log) \in Nat
      /\ DOMAIN log = 1..Len(log)
  BY MarketplaceAssumption DEF IndexNext, IndexInv, MarketIInv, TypeOK
<1>2. e \in Event /\ e.item \in IF e.op = "redeem" THEN Epoch ELSE Listing
  BY <1>1 DEF MarketIInv, TypeOK, LogInv
<1>3. \A x : Did("list", x, Start)' = Did("list", x, Start)
  BY <1>1 DEF Did
<1>4. CASE e.op = "redeem"
  <2>1. bond' = bond \cup {n} /\ market' = market
    BY <1>4 DEF IndexNext
  <2>2. ASSUME NEW i \in DOMAIN log, Start < i, i <= n
        PROVE  /\ log[i].op = "list" => market'[log[i].item] # NoRow
               /\ log[i].op = "buy" /\ ~Did("list", log[i].item, Start) =>
                     market'[log[i].item] = [status |-> "filled", filledBy |-> log[i].from]
               /\ log[i].op = "redeem" => i \in bond'
    <3>1. CASE i = n
      BY <1>4, <2>1, <3>1
    <3>2. CASE i <= synced
      BY <2>1, <2>2, <3>2 DEF IndexInv
    <3> QED BY <1>1, <2>2, <3>1, <3>2
  <2> QED BY <1>1, <1>3, <2>2 DEF IndexInv
<1>5. CASE e.op # "redeem"
  <2>1. HandleMarket(e) /\ bond' = bond /\ e.item \in Listing
    BY <1>2, <1>5 DEF IndexNext
  <2>2. /\ \A l \in Listing : l # e.item => market'[l] = market[l]
        /\ market[e.item] # NoRow => market'[e.item] # NoRow
        /\ e.op = "list" => market'[e.item] # NoRow
        /\ e.op = "list" /\ market[e.item] # NoRow => market'[e.item] = market[e.item]
        /\ e.op = "buy" /\ market[e.item] # NoRow =>
              market'[e.item] = [status |-> "filled", filledBy |-> e.from]
    BY <1>2, <2>1, HandlerStep DEF MarketIInv
  <2>3. ASSUME e.op = "buy", ~Did("list", e.item, Start)
        PROVE  market[e.item] # NoRow
    <3>1. PICK j \in DOMAIN log : j < n /\ log[j].op = "list" /\ log[j].item = e.item
      BY <1>1, <2>3 DEF MarketIInv, LogInv, Ends
    <3>2. Start < j
      BY <1>1, <2>3, <3>1 DEF Did
    <3>3. j <= synced
      BY <1>1, <3>1
    <3> QED BY <3>1, <3>2, <3>3 DEF IndexInv
  <2>4. ASSUME NEW i \in DOMAIN log, Start < i, i <= synced, i # n
        PROVE  /\ log[i].op = "list" => market'[log[i].item] # NoRow
               /\ log[i].op = "buy" /\ ~Did("list", log[i].item, Start) =>
                     market'[log[i].item] = [status |-> "filled", filledBy |-> log[i].from]
               /\ log[i].op = "redeem" => i \in bond'
    <3>1. log[i].op # "redeem" => log[i].item \in Listing
      BY DEF MarketIInv, LogInv
    <3>2. log[i].op = "list" => market'[log[i].item] # NoRow
      BY <2>2, <2>4, <3>1 DEF IndexInv
    <3>3. ASSUME log[i].op = "buy", ~Did("list", log[i].item, Start)
          PROVE  market'[log[i].item] = [status |-> "filled", filledBy |-> log[i].from]
      <4>1. market[log[i].item] = [status |-> "filled", filledBy |-> log[i].from]
        BY <2>4, <3>3 DEF IndexInv
      <4>2. market[log[i].item] # NoRow
        BY <4>1 DEF NoRow
      <4>3. CASE log[i].item # e.item
        BY <2>2, <3>1, <3>3, <4>1, <4>3
      <4>4. CASE log[i].item = e.item
        <5>1. e.op \notin Ends
          BY <1>1, <2>4, <3>3, <4>4 DEF MarketIInv, LogInv, Ends
        <5>2. e.op = "list"
          BY <1>2, <1>5, <5>1 DEF Event, Ends
        <5> QED BY <2>2, <4>1, <4>2, <4>4, <5>2
      <4> QED BY <4>3, <4>4
    <3>4. log[i].op = "redeem" => i \in bond'
      BY <2>1, <2>4 DEF IndexInv
    <3> QED BY <3>2, <3>3, <3>4
  <2>5. ASSUME NEW i \in DOMAIN log, Start < i, i <= n
        PROVE  /\ log[i].op = "list" => market'[log[i].item] # NoRow
               /\ log[i].op = "buy" /\ ~Did("list", log[i].item, Start) =>
                     market'[log[i].item] = [status |-> "filled", filledBy |-> log[i].from]
               /\ log[i].op = "redeem" => i \in bond'
    <3>1. CASE i = n
      BY <1>5, <2>2, <2>3, <3>1
    <3>2. CASE i # n
      <4>1. i <= synced
        BY <1>1, <2>5, <3>2
      <4> QED BY <2>4, <2>5, <3>2, <4>1
    <3> QED BY <3>1, <3>2
  <2> QED BY <1>1, <1>3, <2>5 DEF IndexInv
<1> QED BY <1>4, <1>5

LEMMA IndexKept ==
    ASSUME MarketIInv, IndexInv, [Next]_vars
    PROVE  IndexInv'
<1>1. CASE IndexNext
  BY <1>1, IndexStep
<1>2. CASE Heal
  <2>1. log' = log /\ synced' = Start /\ Start \in Nat /\ DOMAIN log = 1..Len(log) /\ Len(log) \in Nat
    BY <1>2, MarketplaceAssumption DEF Heal, MarketIInv, TypeOK
  <2> QED BY <2>1 DEF IndexInv
<1>3. CASE UNCHANGED <<log, indexer>>
  <2>1. \A x : Did("list", x, Start)' = Did("list", x, Start)
    BY <1>3 DEF Did
  <2> QED BY <1>3, <2>1 DEF IndexInv, indexer
<1>4. CASE Trade
  <2>1. PICK e \in Event : log' = Append(log, e) /\ UNCHANGED indexer
    BY <1>4, TradeAppends DEF MarketIInv
  <2>2. /\ DOMAIN log = 1..Len(log) /\ Len(log) \in Nat
        /\ DOMAIN log' = 1..Len(log) + 1 /\ Len(log') = Len(log) + 1
        /\ \A i \in DOMAIN log : log'[i] = log[i]
    BY <2>1, Appended DEF MarketIInv
  <2>3. \A x : Did("list", x, Start) => Did("list", x, Start)'
    BY <2>2, MarketplaceAssumption DEF Did
  <2>4. synced \in Nat /\ Start \in Nat /\ UNCHANGED <<synced, market, bond>>
    BY <2>1, MarketplaceAssumption DEF MarketIInv, TypeOK, indexer
  <2>5. ASSUME NEW i \in DOMAIN log', Start < i, i <= synced
        PROVE  /\ i \in DOMAIN log /\ log'[i] = log[i]
               /\ log[i].op = "buy" /\ ~Did("list", log[i].item, Start)' =>
                     market[log[i].item] = [status |-> "filled", filledBy |-> log[i].from]
    <3>1. synced <= Len(log)
      BY <2>2, <2>4, <2>5 DEF IndexInv
    <3>2. i \in DOMAIN log
      BY <2>2, <2>4, <2>5, <3>1
    <3> QED BY <2>2, <2>3, <2>5, <3>2 DEF IndexInv
  <2>6. Start <= synced /\ (synced = Start \/ synced <= Len(log'))
    BY <2>2, <2>4 DEF IndexInv
  <2> QED BY <2>4, <2>5, <2>6 DEF IndexInv
<1>5. ASSUME NEW r \in Post, Serve(r) PROVE UNCHANGED <<log, indexer>>
  BY <1>5 DEF Serve, PostList, PostBuy, PostRedeem, VerifyList, VerifyBuy, VerifyRedeem, Verdict,
              RpcFails, RecordList, RecordBuy, RecordRedeem
<1>6. CASE Crash \/ UNCHANGED vars
  <2>1. UNCHANGED <<log, indexer>>
    BY <1>6 DEF Crash, vars
  <2> QED BY <1>3, <2>1
<1> QED BY <1>1, <1>2, <1>3, <1>4, <1>5, <1>6 DEF Next

LEMMA IndexAlways == Spec => []IndexInv
<1>1. Init => IndexInv
  BY MarketplaceAssumption DEF Init, IndexInv
<1> QED BY <1>1, IndexKept, MarketAlways, PTL DEF Spec

-----------------------------------------------------------------------------
(* The theorems *)

\* Whatever the traders, the requests and the indexer do: the rows of the three
\* tables are genuine and registered once, a listing is executed exactly when its
\* purchase is recorded, and no verified purchase is turned away as raced
\* (services/marketplace.ts, services/redeem.ts, database.ts).
THEOREM MarketInvariant == Spec => []MarketInv
<1>1. ASSUME MarketIInv PROVE NeverRaced
  BY <1>1, NotRaced DEF NeverRaced, MarketIInv
<1>2. ASSUME MarketIInv PROVE MarketInv
  BY <1>1, <1>2 DEF MarketInv, MarketIInv, TablesInv, RequestInv, FlightInv
<1>3. MarketIInv => MarketInv
  BY <1>2
<1> QED BY <1>3, MarketAlways, PTL

\* A truthful body for a sale passes verifyBuy: the listing row it is compared
\* with agrees with the chain, though it was read before the receipt.
THEOREM TruthIsAccepted == Spec => []HonestBuyVerifies
<1>1. ASSUME MarketIInv, NEW r \in Post, pc[r] = "verifying", EventOf(r).op = "buy",
             body[r] = Honest(body[r].tx, "buy")
      PROVE  SaleAgrees(r)
  <2> USE <1>1 DEF MarketIInv
  <2>1. /\ body[r].route = "buy" /\ body[r].item = EventOf(r).item
        /\ body[r].party = EventOf(r).from /\ body[r].price = EventOf(r).price
    BY DEF Honest, EventOf
  <2>2. /\ body[r].tx \in DOMAIN log /\ kept[r].item = body[r].item
        /\ \E x \in listings : [x EXCEPT !.status = "active"] = kept[r]
    BY <2>1 DEF RequestInv, FlightInv, InFlight
  <2>3. PICK x \in listings : [x EXCEPT !.status = "active"] = kept[r]
    BY <2>2
  <2>4. x.item = kept[r].item /\ x.seller = kept[r].seller /\ x.price = kept[r].price
    BY <2>3 DEF TypeOK, ListingRow
  <2>5. x.tx \in DOMAIN log
        /\ log[x.tx] = [op |-> "list", item |-> x.item, from |-> x.seller,
                        seller |-> x.seller, price |-> x.price]
    BY DEF TablesInv, RowsAreGenuine
  <2>6. PICK j \in DOMAIN log :
          /\ log[j].op = "list" /\ log[j].item = EventOf(r).item
          /\ log[j].seller = EventOf(r).seller /\ log[j].price = EventOf(r).price
    BY <2>2 DEF LogInv, Ends, EventOf
  <2>7. j = x.tx
    BY <2>1, <2>2, <2>4, <2>5, <2>6 DEF LogInv
  <2> QED BY <2>1, <2>4, <2>5, <2>6, <2>7 DEF SaleAgrees, Confirms
<1>2. MarketIInv => HonestBuyVerifies
  BY <1>1 DEF HonestBuyVerifies
<1> QED BY <1>2, MarketAlways, PTL

\* The indexer's view of a sale or a redemption agrees with the API's table once
\* it has handled the transaction, rebuilds included (indexer/src/index.ts).
THEOREM IndexerAgreement == Spec => []IndexerAgrees
<1>1. ASSUME MarketIInv, IndexInv, NEW p \in purchases, p.tx <= synced,
             ~Did("list", p.item, Start)
      PROVE  market[p.item] = [status |-> "filled", filledBy |-> p.buyer]
  <2> USE <1>1 DEF MarketIInv
  <2>1. p.tx \in DOMAIN log
        /\ log[p.tx] = [op |-> "buy", item |-> p.item, from |-> p.buyer,
                        seller |-> p.seller, price |-> p.price]
    BY DEF TablesInv, RowsAreGenuine
  <2>2. DOMAIN log = 1..Len(log) /\ Len(log) \in Nat /\ Start \in Nat
    BY MarketplaceAssumption DEF TypeOK
  <2>3. PICK j \in DOMAIN log : j < p.tx /\ log[j].op = "list" /\ log[j].item = p.item
    BY <2>1 DEF LogInv, Ends
  <2>4. Start < j
    BY <1>1, <2>2, <2>3 DEF Did
  <2>5. Start < p.tx
    BY <2>1, <2>2, <2>3, <2>4
  <2> QED BY <1>1, <2>1, <2>5 DEF IndexInv
<1>2. ASSUME MarketIInv, IndexInv, NEW x \in redemptions, Start < x.tx, x.tx <= synced
      PROVE  x.tx \in bond
  <2>1. x.tx \in DOMAIN log
        /\ log[x.tx] = [op |-> "redeem", item |-> x.item, from |-> x.owner,
                        seller |-> x.owner, price |-> x.price]
    BY <1>2 DEF MarketIInv, TablesInv, RowsAreGenuine
  <2>2. log[x.tx].op = "redeem"
    BY <2>1
  <2>3. \A i \in DOMAIN log : Start < i /\ i <= synced /\ log[i].op = "redeem" => i \in bond
    BY <1>2 DEF IndexInv
  <2> QED BY <1>2, <2>1, <2>2, <2>3
<1>3. MarketIInv /\ IndexInv => IndexerAgrees
  BY <1>1, <1>2 DEF IndexerAgrees
<1> QED BY <1>3, MarketAlways, IndexAlways, PTL
==============================================================================
