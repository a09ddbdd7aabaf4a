-------------------------------- MODULE Ledger --------------------------------
(***************************************************************************)
(* The append-only tables of the indexer (indexer/src/index.ts) and the    *)
(* public reads of them (routes/indexer.ts): the bonds of an owner, netted *)
(* from the transfers, the totals, and the reads that put several queries  *)
(* in one answer: the burn and the protocol dashboards and the health.     *)
(*                                                                         *)
(* A query sees one state of the tables; the queries of one answer see     *)
(* different ones.  Amounts are one unit, so that sums are counts.         *)
(***************************************************************************)
EXTENDS Integers, Sequences, FiniteSets

CONSTANTS
    Holder, Epoch, Policy,
    Zero,       \* the address that bonds are minted from and burned to
    StartBlock, \* ponder.config.ts: the first block that is indexed
    Window,     \* thirty days
    MaxLag,     \* blocks behind the head that still count as synced
    Unread,     \* a query that has not been answered
    MaxTime,    \* bound on the clock
    MaxBlocks,  \* bound on the chain
    MaxRestarts \* bound on restarts of the indexer, with its tables or without

LedgerAssumption ==
    /\ Zero \notin Holder /\ Unread \notin Int
    /\ StartBlock \in Nat \ {0} /\ Window \in Nat \ {0} /\ MaxLag \in Nat
    /\ MaxTime \in Nat /\ MaxBlocks \in Nat /\ MaxRestarts \in Nat

VARIABLES
    now,        \* the clock
    mined,      \* chain: its height
    log,        \* chain: the events
    handled,    \* the events whose handler has run
    synced,     \* the block of the indexer's checkpoint
    rows,       \* the tables bond, bond_transfer, burn and trigger
    policy,     \* the table policy: its block, 0 without a row, and
    flipped,    \* the rows whose status is triggered
    asked,      \* the answer in the making: "none", "burns", "protocol", "health"
    cutoff,     \* thirtyDaysAgo
    part,       \* the answers of its queries
    reach,      \* history: the events handled since the tables were created
    grown,      \* history: the handlers that ran since it was asked
    waited,     \* history: the blocks mined since
    shaken,     \* history: the indexer started over since
    restarts

chain == <<mined, log>>
tables == <<handled, synced, rows, policy, flipped>>
request == <<asked, cutoff, part>>
history == <<reach, grown, waited, shaken>>
vars == <<now, chain, tables, request, history, restarts>>

Query == {"total", "recent", "byDay", "active", "outstanding", "written", "burned",
          "synced", "head"}

Init ==
    /\ now = 0 /\ mined = 0 /\ log = <<>>
    /\ handled = 0 /\ synced = 0 /\ rows = {}
    /\ policy = [p \in Policy |-> 0] /\ flipped = {}
    /\ asked = "none" /\ cutoff = 0 /\ part = [q \in Query |-> Unread]
    /\ reach = 0 /\ grown = 0 /\ waited = 0 /\ shaken = FALSE
    /\ restarts = 0

Tick ==
    /\ now < MaxTime
    /\ now' = now + 1
    /\ UNCHANGED <<chain, tables, request, history, restarts>>

-----------------------------------------------------------------------------
(* The chain *)

Counts(S) == Cardinality(S)

Transfer(from, to, epochs) == [kind |-> "transfer", from |-> from, to |-> to, of |-> epochs]
Event(kind, h, x) == [kind |-> kind, from |-> Zero, to |-> h, of |-> <<x>>]

\* The legs that brought bonds of epoch e to h, or took them, in the events S.
Legs(e, S) ==
    {x \in S \X {1, 2} : /\ log[x[1]].kind = "transfer"
                         /\ x[2] \in DOMAIN log[x[1]].of /\ log[x[1]].of[x[2]] = e}
Received(h, e, S) == {x \in Legs(e, S) : log[x[1]].to = h}
Sent(h, e, S) == {x \in Legs(e, S) : log[x[1]].from = h}
Balance(h, e, S) == Counts(Received(h, e, S)) - Counts(Sent(h, e, S))

Holds(h, epochs) ==
    \A e \in Epoch : Balance(h, e, DOMAIN log) >= Counts({i \in DOMAIN epochs : epochs[i] = e})

\* A block with the events of one transaction, or with none.  Only the times of
\* burns are read.
Mine(events) ==
    /\ mined < MaxBlocks
    /\ mined' = mined + 1
    /\ log' = log \o [i \in DOMAIN events |->
                        [kind |-> events[i].kind, from |-> events[i].from, to |-> events[i].to,
                         of |-> events[i].of, tx |-> mined + 1, index |-> i,
                         at |-> IF events[i].kind = "burn" THEN now ELSE 0]]
    /\ waited' = IF asked = "health" THEN waited + 1 ELSE 0
    /\ UNCHANGED <<now, tables, request, reach, grown, shaken, restarts>>

\* A bond is issued, or redeemed: the ERC-1155 transfer and the vault's event.
Issue(h, e) == Mine(<<Transfer(Zero, h, <<e>>), Event("issued", h, e)>>)
Redeem(h, e) ==
    /\ Holds(h, <<e>>)
    /\ Mine(<<Transfer(h, Zero, <<e>>), Event("redeemed", h, e)>>)

\* Bonds change hands, one or several at a time.
Hand(h, k, epochs) == Holds(h, epochs) /\ Mine(<<Transfer(h, k, epochs)>>)

BurnLumina == Mine(<<Event("burn", Zero, Zero)>>)

InLog(kind, p) == \E n \in DOMAIN log : log[n].kind = kind /\ log[n].of = <<p>>

Purchase(p) == ~InLog("policy", p) /\ Mine(<<Event("policy", Zero, p)>>)
Submit(p) ==
    /\ InLog("policy", p) /\ ~InLog("trigger", p)
    /\ Mine(<<Event("trigger", Zero, p)>>)

Chain ==
    \/ Mine(<<>>) \/ BurnLumina
    \/ \E h \in Holder, e \in Epoch : Issue(h, e) \/ Redeem(h, e)
    \/ \E h, k \in Holder, d, e \in Epoch : Hand(h, k, <<e>>) \/ Hand(h, k, <<d, e>>)
    \/ \E p \in Policy : Purchase(p) \/ Submit(p)

-----------------------------------------------------------------------------
(* The handlers *)

\* Mutant: the leg of a batch is left out of the key.
KeyOfLog(l, i) == <<l.tx, l.index>>

\* `${txHash}-${logIndex}`, and `-${i}` for a leg of TransferBatch.
Key(l, i) == IF Len(l.of) = 1 THEN <<l.tx, l.index>> ELSE <<l.tx, l.index, i>>

Table(kind) ==
    CASE kind = "transfer" -> "bond_transfer"
      [] kind \in {"issued", "redeemed"} -> "bond"
      [] OTHER -> kind

Row(l, i) ==
    [table |-> Table(l.kind), id |-> Key(l, i), kind |-> l.kind, from |-> l.from, to |-> l.to,
     of |-> l.of[i], block |-> l.tx, at |-> l.at]

\* onConflictDoNothing, also between the legs of one batch.
Inserted(l) ==
    LET new == {Row(l, i) : i \in DOMAIN l.of}
        free(r) == ~\E s \in rows : s.table = r.table /\ s.id = r.id
    IN  rows \cup {r \in new : free(r)}

Insert(l) ==
    IF l.kind = "policy"
    THEN /\ policy' = [policy EXCEPT ![l.of[1]] = IF @ = 0 THEN l.tx ELSE @]
         /\ UNCHANGED <<rows, flipped>>
    ELSE /\ rows' = Inserted(l)
         /\ flipped' = IF l.kind = "trigger" /\ policy[l.of[1]] # 0
                       THEN flipped \cup {l.of[1]} ELSE flipped
         /\ UNCHANGED policy

Handle ==
    /\ handled < Len(log)
    /\ handled' = handled + 1
    /\ LET l == log[handled + 1]
       IN  IF l.tx < StartBlock THEN UNCHANGED <<rows, policy, flipped>> ELSE Insert(l)
    /\ reach' = IF reach < handled' THEN handled' ELSE reach
    /\ grown' = IF asked \in {"burns", "protocol"} THEN grown + 1 ELSE 0
    /\ UNCHANGED <<now, chain, synced, request, waited, shaken, restarts>>

\* Every event up to this block has been handled.
Reached == IF handled = Len(log) THEN mined ELSE log[handled + 1].tx - 1

Checkpoint ==
    /\ synced < Reached
    /\ synced' = Reached
    /\ UNCHANGED <<now, chain, handled, rows, policy, flipped, request, history, restarts>>

\* The indexer goes on from its checkpoint; rows after it may still be there.
Resume ==
    /\ restarts < MaxRestarts /\ restarts' = restarts + 1
    /\ handled' = Counts({n \in DOMAIN log : log[n].tx <= synced})
    /\ shaken' = (asked # "none")
    /\ UNCHANGED <<now, chain, synced, rows, policy, flipped, request, reach, grown, waited>>

\* The supervisor drops the schema: the tables and the checkpoint.
Drop ==
    /\ restarts < MaxRestarts /\ restarts' = restarts + 1
    /\ handled' = 0 /\ synced' = 0
    /\ rows' = {} /\ policy' = [p \in Policy |-> 0] /\ flipped' = {}
    /\ reach' = 0 /\ shaken' = (asked # "none")
    /\ UNCHANGED <<now, chain, request, grown, waited>>

-----------------------------------------------------------------------------
(* The queries *)

InTable(t) == {r \in rows : r.table = t}

\* /bonds/by-owner: what the owner received less what it sent.
Holdings(h, e) ==
    Counts({r \in InTable("bond_transfer") : r.to = h /\ r.of = e})
      - Counts({r \in InTable("bond_transfer") : r.from = h /\ r.of = e})

ByOwner(h) == {e \in Epoch : Holdings(h, e) > 0}

Outstanding ==
    Counts({r \in InTable("bond") : r.kind = "issued"})
      - Counts({r \in InTable("bond") : r.kind # "issued"})

Burned == Counts(InTable("burn"))
BurnedSince(t) == Counts({r \in InTable("burn") : r.at >= t})
Written == Counts({p \in Policy : policy[p] # 0})
Active == Counts({p \in Policy : policy[p] # 0 /\ p \notin flipped})

\* MAX(block_number) over policy, burn and trigger.
LastEventBlock ==
    LET blocks == {0} \cup {policy[p] : p \in Policy}
            \cup {r.block : r \in InTable("burn") \cup InTable("trigger")}
    IN  CHOOSE b \in blocks : \A c \in blocks : c <= b

\* getIndexerSyncState: the checkpoint, or the last block of the tables.
LastSyncedBlock == IF synced > 0 THEN synced ELSE LastEventBlock

\* Of the protocol's dashboard, "written" is the sum of the premiums
\* (routes/indexer.ts:300), each of which is one here.  The volume of the
\* marketplace (301-304) is left out.
QueriesOf(what) ==
    CASE what = "burns" -> {"total", "recent", "byDay"}
      [] what = "protocol" -> {"active", "outstanding", "written", "burned"}
      [] what = "health" -> {"synced", "head"}
      [] OTHER -> {}

\* Mutant: each query takes its own time.
AnswerNow(q) ==
    CASE q = "total" -> Burned
      [] q \in {"recent", "byDay"} -> BurnedSince(now - Window)
      [] q = "active" -> Active
      [] q = "outstanding" -> Outstanding
      [] q = "written" -> Written
      [] q = "burned" -> Burned
      [] q = "synced" -> LastSyncedBlock
      [] q = "head" -> mined

Answer(q) ==
    CASE q = "total" -> Burned
      [] q \in {"recent", "byDay"} -> BurnedSince(cutoff)
      [] q = "active" -> Active
      [] q = "outstanding" -> Outstanding
      [] q = "written" -> Written
      [] q = "burned" -> Burned
      [] q = "synced" -> LastSyncedBlock
      [] q = "head" -> mined

Ask(what) ==
    /\ asked = "none"
    /\ asked' = what
    /\ cutoff' = IF what = "burns" THEN now - Window ELSE 0
    /\ UNCHANGED <<now, chain, tables, part, history, restarts>>

\* Promise.all: the queries are answered in any order.
Read(q) ==
    /\ q \in QueriesOf(asked) /\ part[q] = Unread
    /\ part' = [part EXCEPT ![q] = Answer(q)]
    /\ UNCHANGED <<now, chain, tables, asked, cutoff, history, restarts>>

\* The query of the checkpoint has failed.
ReadTables ==
    /\ asked = "health" /\ part["synced"] = Unread
    /\ part' = [part EXCEPT !["synced"] = LastEventBlock]
    /\ UNCHANGED <<now, chain, tables, asked, cutoff, history, restarts>>

Answered(what) == asked = what /\ \A q \in QueriesOf(what) : part[q] # Unread

\* The answer is sent, or a query has failed and an error is.
Done ==
    /\ asked # "none"
    /\ asked' = "none" /\ cutoff' = 0 /\ part' = [q \in Query |-> Unread]
    /\ grown' = 0 /\ waited' = 0 /\ shaken' = FALSE
    /\ UNCHANGED <<now, chain, tables, reach, restarts>>

Lag == part["head"] - part["synced"]

\* Mutant: a lag is told only once something was synced.
StatusOnceSynced ==
    IF part["synced"] = 0 THEN "synced" ELSE IF Lag > MaxLag THEN "lagging" ELSE "synced"

Status ==
    IF Lag > MaxLag THEN "lagging" ELSE IF part["synced"] = 0 THEN "syncing" ELSE "synced"

Next ==
    \/ Tick \/ Chain
    \/ Handle \/ Checkpoint \/ Resume \/ Drop
    \/ \E what \in {"burns", "protocol", "health"} : Ask(what)
    \/ \E q \in Query : Read(q)
    \/ ReadTables \/ Done

Spec == Init /\ [][Next]_vars

-----------------------------------------------------------------------------
(* Properties *)

TypeOK ==
    /\ now \in 0..MaxTime /\ mined \in 0..MaxBlocks
    /\ handled \in 0..Len(log) /\ synced \in 0..mined
    /\ policy \in [Policy -> 0..mined] /\ flipped \subseteq Policy
    /\ asked \in {"none", "burns", "protocol", "health"} /\ cutoff \in -Window..MaxTime
    /\ part \in [Query -> Int \cup {Unread}]
    /\ reach \in handled..Len(log) /\ grown \in Nat /\ waited \in Nat /\ shaken \in BOOLEAN
    /\ restarts \in 0..MaxRestarts

\* The events from the start block to the n-th.
Indexed(n) == {i \in 1..n : log[i].tx >= StartBlock}
OfKind(kind, S) == {i \in S : log[i].kind = kind}

\* What the tables say is what the chain said at one moment, the same for all of
\* them and for all owners: nothing is lost, nothing counted twice, through
\* batches of equal epochs, handlers that run again and schemas that are rebuilt;
\* and with a start block in the middle of the history no owner is shown a bond
\* that it does not hold.
OneMoment ==
    LET S == Indexed(reach) IN
    /\ \A h \in Holder, e \in Epoch :
          /\ Holdings(h, e) = Balance(h, e, S)
          /\ e \in ByOwner(h) => Balance(h, e, 1..reach) > 0
    /\ Outstanding = Counts(OfKind("issued", S)) - Counts(OfKind("redeemed", S))
    /\ Burned = Counts(OfKind("burn", S))
    /\ Written = Counts(OfKind("policy", S))
    /\ Written - Active = Counts({i \in OfKind("trigger", S) :
                                     \E j \in OfKind("policy", S) : log[j].of = log[i].of})

LedgerInv == TypeOK /\ OneMoment

Within(a, b, d) == -d <= a - b /\ a - b <= d

\* The numbers of one dashboard belong together as far as the index stood still:
\* two sums over one window differ, or a part exceeds its whole, by no more than
\* what was handled while they were read.
PartsAddUp ==
    /\ Answered("burns") /\ ~shaken =>
          /\ Within(part["recent"], part["byDay"], grown)
          /\ part["recent"] <= part["total"] + grown
    /\ Answered("protocol") /\ ~shaken => part["active"] <= part["written"] + grown

\* The last block that is in the tables as a whole.
Height == IF reach = Len(log) THEN mined ELSE log[reach + 1].tx - 1

\* "synced" is said of an index that is at most MaxLag blocks behind, and as many
\* as were mined while the health was read, unless it started over meanwhile.
HealthIsHonest ==
    Answered("health") /\ ~shaken /\ Status = "synced" =>
        mined - Height <= MaxLag + waited
==============================================================================
