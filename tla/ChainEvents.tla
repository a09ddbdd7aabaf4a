----------------------------- MODULE ChainEvents -----------------------------
(***************************************************************************)
(* One stream of the chain-events emitter (services/chainEvents.ts): the   *)
(* poll of the indexer's table, the block cursor kept in the kv table, and *)
(* the webhook_events rows it emits.  The six streams share no state.      *)
(*                                                                         *)
(* The table is behind the chain by any number of blocks, and empty again  *)
(* when the indexer's supervisor drops the schema (Supervisor, DropSchema) *)
(* or a fallback of the search_path is read.  Only blocks with events of   *)
(* the stream are numbered.                                                *)
(*                                                                         *)
(* setInterval starts a tick every ten seconds whether or not the last one *)
(* is over, so several polls of a stream can be in flight; each one runs   *)
(* without interruption from one query's answer to its next query.         *)
(***************************************************************************)
EXTENDS Naturals

CONSTANTS
    Event,      \* the on-chain events of the stream
    Tick,       \* the polls that can be in flight together
    Unset,      \* the kv table has no cursor for the stream
    MaxFailures, \* bound on failed queries, database errors and restarts
    MaxDrops    \* bound on schemas dropped

ASSUME UnsetIsNoBlock == Unset \notin Nat
ASSUME BoundsAreNaturals == MaxFailures \in Nat /\ MaxDrops \in Nat

VARIABLES
    block,      \* the chain: the block of each event, 0 before it
    mined,      \* its height
    indexed,    \* MAX(block_number) of the indexer's table, 0 while it is empty
    cursor,     \* kv: chainevents:cursor:<event>
    emitted,    \* webhook_events: how many rows each event has
    pc,         \* pc[t]: "idle", "polled", "fetching" or "fetched"
    head,       \* head[t]: the poll's safeHead
    from,       \* from[t]: the cursor that the poll read
    items,      \* items[t]: the rows it fetched
    origin,     \* history: the first value of the cursor
    torn,       \* history: torn[t]: the schema was dropped between the poll's queries
    missed,     \* history: the events that torn polls did not see in their range
    dropped,    \* history: the events whose emit failed and was swallowed
    overlapped, \* history: two polls have been in flight together
    failures, drops

chain == <<block, mined>>
stored == <<cursor, emitted>>
polls == <<pc, head, from, items, torn>>
outcome == <<origin, missed, dropped, overlapped>>
bounds == <<failures, drops>>
vars == <<chain, indexed, stored, polls, outcome, bounds>>

Init ==
    /\ block = [e \in Event |-> 0] /\ mined = 0 /\ indexed = 0
    /\ cursor = Unset /\ emitted = [e \in Event |-> 0]
    /\ pc = [t \in Tick |-> "idle"]
    /\ head = [t \in Tick |-> 0] /\ from = [t \in Tick |-> 0]
    /\ items = [t \in Tick |-> {}] /\ torn = [t \in Tick |-> FALSE]
    /\ origin = Unset /\ missed = {}
    /\ dropped = {} /\ overlapped = FALSE
    /\ failures = 0 /\ drops = 0

-----------------------------------------------------------------------------
(* The chain and the indexer *)

Mine ==
    \E S \in SUBSET {e \in Event : block[e] = 0} :
        /\ S # {}
        /\ block' = [e \in Event |-> IF e \in S THEN mined + 1 ELSE block[e]]
        /\ mined' = mined + 1
        /\ UNCHANGED <<indexed, stored, polls, outcome, bounds>>

\* The rows of a block appear together.
Index ==
    /\ indexed < mined
    /\ indexed' = indexed + 1
    /\ UNCHANGED <<chain, stored, polls, outcome, bounds>>

\* The schema is dropped and the indexer starts over.  Until it has its tables
\* again a query fails, or reads what an older run left in `public`: the same as
\* some progress and one more drop.
Drop ==
    /\ drops < MaxDrops
    /\ drops' = drops + 1
    /\ indexed' = 0
    /\ torn' = [t \in Tick |-> torn[t] \/ pc[t] \in {"polled", "fetching"}]
    /\ UNCHANGED <<chain, stored, pc, head, from, items, outcome, failures>>

-----------------------------------------------------------------------------
(* processStream *)

Goto(t, l) == pc' = [pc EXCEPT ![t] = l]

\* The poll is over, and its variables with it.
Done(t) ==
    /\ Goto(t, "idle")
    /\ head' = [head EXCEPT ![t] = 0] /\ from' = [from EXCEPT ![t] = 0]
    /\ items' = [items EXCEPT ![t] = {}] /\ torn' = [torn EXCEPT ![t] = FALSE]

\* A tick reaches the stream: the indexer answers its head.
ReadHead(t) ==
    /\ pc[t] = "idle"
    /\ head' = [head EXCEPT ![t] = indexed] /\ torn' = [torn EXCEPT ![t] = FALSE]
    /\ overlapped' = (overlapped \/ \E u \in Tick \ {t} : pc[u] # "idle")
    /\ Goto(t, "polled")
    /\ UNCHANGED <<chain, indexed, stored, from, items, origin, missed, dropped, bounds>>

\* safeHead <= 0: the cursor stays as it is.
EmptyTable(t) ==
    /\ pc[t] = "polled" /\ head[t] = 0
    /\ Done(t)
    /\ UNCHANGED <<chain, indexed, stored, outcome, bounds>>

FirstRun(t) ==
    /\ pc[t] = "polled" /\ head[t] > 0 /\ cursor = Unset
    /\ cursor' = head[t]
    /\ origin' = head[t]
    /\ Done(t)
    /\ UNCHANGED <<chain, indexed, emitted, missed, dropped, overlapped, bounds>>

UpToDate(t) ==
    /\ pc[t] = "polled" /\ head[t] > 0
    /\ cursor # Unset /\ head[t] <= cursor
    /\ Done(t)
    /\ UNCHANGED <<chain, indexed, stored, outcome, bounds>>

\* Mutant: the cursor is saved before the rows are there.
FetchAndAdvance(t) ==
    /\ pc[t] = "polled" /\ head[t] > 0
    /\ cursor # Unset /\ head[t] > cursor
    /\ from' = [from EXCEPT ![t] = cursor]
    /\ cursor' = head[t]
    /\ Goto(t, "fetching")
    /\ UNCHANGED <<chain, indexed, emitted, head, items, torn, outcome, bounds>>

\* There are blocks above the cursor: query them.
Fetch(t) ==
    /\ pc[t] = "polled" /\ head[t] > 0
    /\ cursor # Unset /\ head[t] > cursor
    /\ from' = [from EXCEPT ![t] = cursor]
    /\ Goto(t, "fetching")
    /\ UNCHANGED <<chain, indexed, stored, head, items, torn, outcome, bounds>>

InRange(t) == {e \in Event : from[t] < block[e] /\ block[e] <= head[t]}

\* The indexer answers the rows of (cursor, safeHead] that it has.  (The stream of
\* triggers joins the policy's row, chainEvents.ts:89-90, which is there but for a
\* start block after the policy's purchase: such an index is not modelled here.)
Select(t) ==
    /\ pc[t] = "fetching"
    /\ items' = [items EXCEPT ![t] = {e \in InRange(t) : block[e] <= indexed}]
    /\ Goto(t, "fetched")
    /\ UNCHANGED <<chain, indexed, stored, head, from, torn, outcome, bounds>>

Failure == failures < MaxFailures /\ failures' = failures + 1

EmitRows(S) == emitted' = [e \in Event |-> IF e \in S THEN emitted[e] + 1 ELSE emitted[e]]

Misses(t) == missed' = IF torn[t] THEN missed \cup (InRange(t) \ items[t]) ELSE missed

\* Mutants: the cursor is set to what a later query would see, or not at all.
AdvanceToTip(t) ==
    /\ pc[t] = "fetched"
    /\ EmitRows(items[t]) /\ Misses(t)
    /\ cursor' = indexed
    /\ Done(t)
    /\ UNCHANGED <<chain, indexed, origin, dropped, overlapped, bounds>>
NeverAdvance(t) ==
    /\ pc[t] = "fetched"
    /\ EmitRows(items[t])
    /\ Done(t)
    /\ UNCHANGED <<chain, indexed, cursor, outcome, bounds>>

\* Every row is emitted and the cursor advances, without an await in between.
Advance(t) ==
    /\ pc[t] = "fetched"
    /\ EmitRows(items[t]) /\ Misses(t)
    /\ cursor' = head[t]
    /\ Done(t)
    /\ UNCHANGED <<chain, indexed, origin, dropped, overlapped, bounds>>

\* emit() swallows the database error of some rows; the cursor advances.
AdvanceWithLoss(t) ==
    /\ Failure
    /\ pc[t] = "fetched"
    /\ \E lost \in SUBSET items[t] :
          /\ lost # {}
          /\ EmitRows(items[t] \ lost) /\ Misses(t)
          /\ dropped' = dropped \cup lost
    /\ cursor' = head[t]
    /\ Done(t)
    /\ UNCHANGED <<chain, indexed, origin, overlapped, drops>>

\* A query rejects, or kvSet throws after the rows were emitted.
PollFails(t) ==
    /\ Failure
    /\ \/ pc[t] \in {"polled", "fetching"} /\ UNCHANGED emitted
       \/ pc[t] = "fetched" /\ EmitRows(items[t])
    /\ Done(t)
    /\ UNCHANGED <<chain, indexed, cursor, outcome, drops>>

\* The process restarts, perhaps while a poll is emitting its rows in the order
\* of their blocks.
Crash ==
    /\ Failure
    /\ \/ UNCHANGED emitted
       \/ \E t \in Tick : \E S \in SUBSET items[t] :
             /\ pc[t] = "fetched"
             /\ \A e \in S, f \in items[t] \ S : block[e] <= block[f]
             /\ EmitRows(S)
    /\ pc' = [t \in Tick |-> "idle"]
    /\ head' = [t \in Tick |-> 0] /\ from' = [t \in Tick |-> 0]
    /\ items' = [t \in Tick |-> {}] /\ torn' = [t \in Tick |-> FALSE]
    /\ UNCHANGED <<chain, indexed, cursor, outcome, drops>>

Poll(t) == EmptyTable(t) \/ FirstRun(t) \/ UpToDate(t) \/ Fetch(t)

Step(t) == ReadHead(t) \/ Poll(t) \/ Select(t) \/ Advance(t)

Next ==
    \/ Mine \/ Index \/ Drop \/ Crash
    \/ \E t \in Tick : Step(t) \/ AdvanceWithLoss(t) \/ PollFails(t)

Spec == Init /\ [][Next]_vars

\* The timer goes on starting ticks, every query is answered or rejected, and the
\* indexer goes on (Supervisor, CatchesUp).
Fairness == WF_vars(Index) /\ \A t \in Tick : WF_vars(Step(t))

FairSpec == Spec /\ Fairness

-----------------------------------------------------------------------------
(* Properties *)

TypeOK ==
    /\ block \in [Event -> Nat] /\ mined \in Nat /\ indexed \in Nat
    /\ cursor \in Nat \cup {Unset}
    /\ emitted \in [Event -> Nat]
    /\ pc \in [Tick -> {"idle", "polled", "fetching", "fetched"}]
    /\ head \in [Tick -> Nat] /\ from \in [Tick -> Nat]
    /\ items \in [Tick -> SUBSET Event]
    /\ origin \in Nat \cup {Unset}
    /\ torn \in [Tick -> BOOLEAN] /\ missed \subseteq Event
    /\ dropped \subseteq Event /\ overlapped \in BOOLEAN
    /\ failures \in 0..MaxFailures /\ drops \in 0..MaxDrops

Settled(e) == emitted[e] > 0 \/ e \in dropped \/ e \in missed

\* Every event from the origin up to block n has been emitted, or its emit failed,
\* or a poll had its range and the schema dropped between its two queries.
Covered(n) == \A e \in Event : origin < block[e] /\ block[e] <= n => Settled(e)

\* What a poll in flight holds is never ahead of the chain nor behind the origin,
\* what lies below the cursor it read is covered, and unless the schema was
\* dropped since it read the head it has all the rows of its range.
PollsAreSound ==
    \A t \in Tick :
        /\ head[t] <= mined
        /\ pc[t] \in {"polled", "fetching"} => torn[t] \/ head[t] <= indexed
        /\ pc[t] \in {"fetching", "fetched"} =>
              /\ origin # Unset /\ origin <= from[t] /\ from[t] < head[t]
              /\ Covered(from[t])
        /\ pc[t] = "fetched" =>
              /\ items[t] \subseteq InRange(t)
              /\ torn[t] \/ items[t] = InRange(t)

\* No event is skipped: whatever polls overlap, also when a slow one moves the
\* cursor back, and however often the index starts over below the cursor, all
\* between the origin and the cursor was emitted, or its error swallowed, or the
\* schema dropped between the head and the rows of a poll.
NothingSkipped ==
    cursor # Unset => origin # Unset /\ origin <= cursor /\ cursor <= mined /\ Covered(cursor)

\* The stream "emits NOTHING for history" (chainEvents.ts:27), also when two
\* polls race to initialise the cursor.
NoHistory ==
    \A e \in Event : origin # Unset /\ 0 < block[e] /\ block[e] <= origin => emitted[e] = 0

\* The inductive invariant of the emitter.
CursorInv ==
    /\ TypeOK
    /\ indexed <= mined
    /\ \A e \in Event : block[e] <= mined /\ (block[e] = 0 => emitted[e] = 0)
    /\ cursor = Unset <=> origin = Unset
    /\ origin = Unset => \A e \in Event : emitted[e] = 0
    /\ NothingSkipped
    /\ PollsAreSound
    /\ NoHistory

\* As long as polls do not overlap an event is emitted once, and again only for
\* a restart or an error between its emission and the new cursor: not when the
\* indexer fills its table a second time.
OnceWithoutOverlap ==
    ~overlapped => \A e \in Event : emitted[e] <= 1 + failures

\* Why: above the cursor only interrupted polls have emitted, and a poll that
\* runs alone has read the cursor as it still is.
AloneInv ==
    ~overlapped =>
        /\ \A t, u \in Tick : pc[t] # "idle" /\ pc[u] # "idle" => t = u
        /\ \A t \in Tick : pc[t] \in {"fetching", "fetched"} => from[t] = cursor
        /\ \A e \in Event :
              /\ emitted[e] <= 1 + failures
              /\ cursor # Unset /\ block[e] > cursor => emitted[e] <= failures

\* Every event of the chain is emitted in the end, unless the stream takes it for
\* history, its emit fails, or the schema is dropped between the queries of the
\* poll that has its block.
EveryEventSettles ==
    \A e \in Event :
        block[e] > 0 ~> Settled(e) \/ (origin # Unset /\ block[e] <= origin)
==============================================================================
