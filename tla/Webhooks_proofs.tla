--------------------------- MODULE Webhooks_proofs ---------------------------
(***************************************************************************)
(* The way of a webhook: the emitter's guarantees for any number of events *)
(* and of overlapping polls, and the worker's for any events, subscribers  *)
(* and limits, both for any failures and restarts.  CursorInv is inductive *)
(* for the emitter, and with it AloneInv, which bounds the duplicates of   *)
(* polls that do not overlap; WorkerIInv is for the worker.                *)
(***************************************************************************)
EXTENDS ChainEvents, WebhookDelivery, FiniteSetTheorems, TLAPS

Busy == {"fetching", "fetched"}

\* The rows of EmitRows, one by one.
LEMMA EmitRowsCounts ==
    ASSUME TypeOK, NEW S \in SUBSET Event, EmitRows(S)
    PROVE  /\ emitted' \in [Event -> Nat]
           /\ \A e \in S : emitted'[e] = emitted[e] + 1
           /\ \A e \in Event \ S : emitted'[e] = emitted[e]
  BY DEF EmitRows, TypeOK

\* Every step keeps the types.
LEMMA TypeStep ==
    ASSUME TypeOK, [Next]_vars
    PROVE  TypeOK'
<1> USE BoundsAreNaturals DEF TypeOK, chain, stored, polls, outcome, bounds, Goto, Done, Failure
<1>1. CASE Mine
  BY <1>1 DEF Mine
<1>a. CASE Index
  BY <1>a DEF Index
<1>b. CASE Drop
  <2>1. torn' \in [Tick -> BOOLEAN]
    BY <1>b, Zenon DEF Drop
  <2>2. drops' \in 0..MaxDrops /\ indexed' \in Nat
    BY <1>b DEF Drop
  <2>3. UNCHANGED <<chain, stored, pc, head, from, items, outcome, failures>>
    BY <1>b DEF Drop
  <2> QED BY <2>1, <2>2, <2>3
<1>2. CASE Crash
  <2>1. emitted' \in [Event -> Nat]
    <3>1. CASE UNCHANGED emitted
      BY <3>1
    <3>2. ASSUME NEW t \in Tick, NEW S \in SUBSET items[t], EmitRows(S)
          PROVE  emitted' \in [Event -> Nat]
      BY <3>2 DEF EmitRows
    <3> QED BY <1>2, <3>1, <3>2 DEF Crash
  <2> QED BY <1>2, <2>1 DEF Crash
<1>3. ASSUME NEW t \in Tick, ReadHead(t) PROVE TypeOK'
  <2>1. overlapped' \in BOOLEAN /\ torn' \in [Tick -> BOOLEAN] /\ head' \in [Tick -> Nat]
    BY <1>3 DEF ReadHead
  <2>2. pc' \in [Tick -> {"idle", "polled", "fetching", "fetched"}]
    BY <1>3 DEF ReadHead
  <2>3. UNCHANGED <<chain, indexed, stored, from, items, origin, missed, dropped, bounds>>
    BY <1>3 DEF ReadHead
  <2> QED BY <2>1, <2>2, <2>3
<1>4. ASSUME NEW t \in Tick, Poll(t) PROVE TypeOK'
  <2>1. CASE EmptyTable(t)
    BY <2>1 DEF EmptyTable
  <2>2. CASE FirstRun(t)
    BY <2>2 DEF FirstRun
  <2>3. CASE UpToDate(t)
    BY <2>3 DEF UpToDate
  <2>4. CASE Fetch(t)
    BY <2>4 DEF Fetch
  <2> QED BY <1>4, <2>1, <2>2, <2>3, <2>4 DEF Poll
<1>5. ASSUME NEW t \in Tick, Select(t) PROVE TypeOK'
  BY <1>5 DEF Select, InRange
<1>6. ASSUME NEW t \in Tick, Advance(t) PROVE TypeOK'
  BY <1>6 DEF Advance, EmitRows, Misses, InRange
<1>7. ASSUME NEW t \in Tick, AdvanceWithLoss(t) PROVE TypeOK'
  BY <1>7 DEF AdvanceWithLoss, EmitRows, Misses, InRange
<1>8. ASSUME NEW t \in Tick, PollFails(t) PROVE TypeOK'
  BY <1>8 DEF PollFails, EmitRows
<1>9. CASE UNCHANGED vars
  BY <1>9 DEF vars
<1> QED BY <1>1, <1>a, <1>b, <1>2, <1>3, <1>4, <1>5, <1>6, <1>7, <1>8, <1>9 DEF Next, Step

\* A step that moves neither the chain nor the cursor, starts no fetch, and
\* emits only rows that some poll has fetched.  The table may grow, and it may
\* shrink if that tears the polls between their queries.
Calm ==
    /\ UNCHANGED <<block, mined, cursor, origin>>
    /\ indexed' <= mined
    /\ \A t \in Tick :
          /\ pc'[t] \in {"polled", "fetching"} => torn'[t] \/ head'[t] <= indexed'
          /\ \/ pc'[t] \notin Busy /\ head'[t] <= mined
             \/ /\ pc'[t] = pc[t] /\ head'[t] = head[t] /\ from'[t] = from[t]
                /\ items'[t] = items[t] /\ (torn[t] => torn'[t])
    /\ dropped \subseteq dropped' /\ missed \subseteq missed'
    /\ \A e \in Event :
          \/ emitted'[e] = emitted[e]
          \/ /\ emitted'[e] > emitted[e]
             /\ \E t \in Tick : pc[t] = "fetched" /\ e \in items[t]

\* A calm step keeps everything.
LEMMA CalmStep ==
    ASSUME CursorInv, TypeOK', Calm
    PROVE  CursorInv'
<1> USE DEF CursorInv, Calm, Busy
<1>1. \A e \in Event : Settled(e) => Settled(e)'
  BY DEF TypeOK, Settled
<1>2. \A n \in Nat : Covered(n) => Covered(n)'
  BY <1>1 DEF Covered
<1>3. \A e \in Event : emitted'[e] = emitted[e] \/ (origin # Unset /\ origin < block[e])
  <2> SUFFICES ASSUME NEW e \in Event, NEW t \in Tick, pc[t] = "fetched", e \in items[t]
               PROVE  origin # Unset /\ origin < block[e]
    OBVIOUS
  <2> QED BY DEF PollsAreSound, InRange, TypeOK
<1>4. NothingSkipped'
  BY <1>2 DEF NothingSkipped, TypeOK
<1>5. PollsAreSound'
  <2> SUFFICES ASSUME NEW t \in Tick
               PROVE  /\ head'[t] <= mined'
                      /\ pc'[t] \in {"polled", "fetching"} => torn'[t] \/ head'[t] <= indexed'
                      /\ pc'[t] \in Busy =>
                            /\ origin' # Unset /\ origin' <= from'[t] /\ from'[t] < head'[t]
                            /\ Covered(from[t])'
                      /\ pc'[t] = "fetched" =>
                            /\ items'[t] \subseteq InRange(t)'
                            /\ torn'[t] \/ items'[t] = InRange(t)'
    BY DEF PollsAreSound
  <2>1. CASE pc'[t] \notin Busy /\ head'[t] <= mined
    BY <2>1
  <2>2. CASE /\ pc'[t] = pc[t] /\ head'[t] = head[t] /\ from'[t] = from[t]
             /\ items'[t] = items[t] /\ (torn[t] => torn'[t])
    <3>1. InRange(t)' = InRange(t)
      BY <2>2 DEF InRange
    <3>2. pc'[t] \in Busy => Covered(from[t])'
      BY <1>2, <2>2 DEF PollsAreSound, TypeOK
    <3> QED BY <2>2, <3>1, <3>2 DEF PollsAreSound
  <2> QED BY <2>1, <2>2
<1>6. NoHistory'
  BY <1>3 DEF NoHistory, TypeOK
<1>7. /\ \A e \in Event : block'[e] <= mined' /\ (block'[e] = 0 => emitted'[e] = 0)
      /\ cursor' = Unset <=> origin' = Unset
      /\ origin' = Unset => \A e \in Event : emitted'[e] = 0
  BY <1>3 DEF TypeOK
<1> QED BY <1>4, <1>5, <1>6, <1>7

\* The new events lie above every head, cursor and origin.
LEMMA MineStep ==
    ASSUME CursorInv, TypeOK', Mine
    PROVE  CursorInv'
<1> USE DEF CursorInv
<1>1. /\ UNCHANGED <<indexed, cursor, emitted, pc, head, from, items, torn, origin, missed,
                     dropped>>
      /\ mined' = mined + 1
      /\ \A e \in Event : block'[e] = block[e] \/ (block[e] = 0 /\ block'[e] = mined + 1)
  BY DEF Mine, stored, polls, outcome, TypeOK
<1>2. \A e \in Event : Settled(e)' <=> Settled(e)
  BY <1>1 DEF Settled
<1>3. \A n \in Nat : n <= mined /\ Covered(n) => Covered(n)'
  BY <1>1, <1>2 DEF Covered, TypeOK
<1>4. NothingSkipped'
  BY <1>1, <1>3 DEF NothingSkipped, TypeOK
<1>5. ASSUME NEW t \in Tick, pc[t] \in Busy
      PROVE  Covered(from[t])' /\ InRange(t)' = InRange(t)
  BY <1>1, <1>3, <1>5 DEF PollsAreSound, InRange, TypeOK, Busy
<1>6. PollsAreSound'
  BY <1>1, <1>5 DEF PollsAreSound, TypeOK, Busy
<1>7. NoHistory'
  BY <1>1 DEF NoHistory, NothingSkipped, TypeOK
<1> QED BY <1>1, <1>4, <1>6, <1>7 DEF TypeOK

\* The cursor starts at the origin, with nothing to cover.
LEMMA FirstRunStep ==
    ASSUME CursorInv, TypeOK', NEW t \in Tick, FirstRun(t)
    PROVE  CursorInv'
<1> USE DEF CursorInv
<1>1. /\ UNCHANGED <<block, mined, indexed, emitted, missed, dropped>>
      /\ cursor = Unset /\ cursor' = head[t] /\ origin' = head[t] /\ head[t] > 0
      /\ Done(t)
  BY DEF FirstRun, chain
<1>2. cursor' # Unset /\ origin' # Unset /\ head[t] \in Nat
  BY <1>1, UnsetIsNoBlock DEF TypeOK
<1>3. \A e \in Event : emitted'[e] = 0
  BY <1>1
<1>4. Covered(cursor)'
  BY <1>1, <1>2 DEF Covered, TypeOK
<1>5. NothingSkipped'
  BY <1>1, <1>2, <1>4 DEF NothingSkipped, PollsAreSound, TypeOK
<1>6. \A u \in Tick : pc[u] \notin Busy
  BY <1>1 DEF PollsAreSound, Busy
<1>7. PollsAreSound'
  BY <1>1, <1>6 DEF PollsAreSound, Done, Goto, TypeOK, Busy
<1>8. NoHistory'
  BY <1>3 DEF NoHistory
<1> QED BY <1>1, <1>2, <1>3, <1>5, <1>7, <1>8

\* The poll reads a cursor below which everything is covered.
LEMMA FetchStep ==
    ASSUME CursorInv, TypeOK', NEW t \in Tick, Fetch(t)
    PROVE  CursorInv'
<1> USE DEF CursorInv
<1>1. /\ UNCHANGED <<block, mined, indexed, emitted, cursor, head, items, torn, origin,
                     missed, dropped>>
      /\ cursor # Unset /\ cursor \in Nat /\ head[t] > cursor /\ pc[t] = "polled"
      /\ from' = [from EXCEPT ![t] = cursor] /\ pc' = [pc EXCEPT ![t] = "fetching"]
  BY DEF Fetch, Goto, chain, stored, outcome, TypeOK
<1>2. \A n \in Nat : Covered(n)' <=> Covered(n)
  BY <1>1 DEF Covered, Settled
<1>3. NothingSkipped'
  BY <1>1, <1>2 DEF NothingSkipped, TypeOK
<1>4. origin # Unset /\ origin <= cursor /\ Covered(cursor)
  BY <1>1 DEF NothingSkipped
<1>5. ASSUME NEW u \in Tick
      PROVE  /\ head'[u] <= mined'
             /\ pc'[u] \in {"polled", "fetching"} => torn'[u] \/ head'[u] <= indexed'
             /\ pc'[u] \in Busy =>
                   /\ origin' # Unset /\ origin' <= from'[u] /\ from'[u] < head'[u]
                   /\ Covered(from[u])'
             /\ pc'[u] = "fetched" =>
                   /\ items'[u] \subseteq InRange(u)'
                   /\ torn'[u] \/ items'[u] = InRange(u)'
  <2>1. CASE u = t
    BY <2>1, <1>1, <1>2, <1>4 DEF PollsAreSound, TypeOK
  <2>2. CASE u # t
    <3>1. pc'[u] = pc[u] /\ from'[u] = from[u] /\ InRange(u)' = InRange(u)
      BY <2>2, <1>1 DEF InRange, TypeOK
    <3> QED BY <3>1, <1>1, <1>2 DEF PollsAreSound, TypeOK, Busy
  <2> QED BY <2>1, <2>2
<1>6. PollsAreSound'
  BY <1>5 DEF PollsAreSound, Busy
<1>7. NoHistory'
  BY <1>1 DEF NoHistory
<1> QED BY <1>1, <1>3, <1>6, <1>7

\* The poll has the rows of (cursor, safeHead].
LEMMA SelectStep ==
    ASSUME CursorInv, TypeOK', NEW t \in Tick, Select(t)
    PROVE  CursorInv'
<1> USE DEF CursorInv
<1>1. /\ UNCHANGED <<block, mined, indexed, emitted, cursor, head, from, torn, origin, missed,
                     dropped>>
      /\ pc[t] = "fetching" /\ pc' = [pc EXCEPT ![t] = "fetched"]
      /\ items' = [items EXCEPT ![t] = {e \in InRange(t) : block[e] <= indexed}]
  BY DEF Select, Goto, chain, stored, outcome
<1>2. \A n : Covered(n)' <=> Covered(n)
  BY <1>1 DEF Covered, Settled
<1>3. NothingSkipped'
  BY <1>1, <1>2 DEF NothingSkipped
<1>4. \A u \in Tick : InRange(u)' = InRange(u)
  BY <1>1 DEF InRange
<1>a. torn[t] \/ {e \in InRange(t) : block[e] <= indexed} = InRange(t)
  BY <1>1 DEF PollsAreSound, InRange, TypeOK
<1>b. PollsAreSound'
  BY <1>1, <1>2, <1>4, <1>a DEF PollsAreSound, TypeOK, Busy
<1>5. NoHistory'
  BY <1>1 DEF NoHistory
<1> QED BY <1>1, <1>3, <1>b, <1>5

\* The rows emitted, those lost and those missed cover what the cursor gains.
LEMMA AdvanceStep ==
    ASSUME CursorInv, TypeOK', NEW t \in Tick, NEW lost \in SUBSET items[t],
           UNCHANGED <<block, mined, indexed, origin>>,
           pc[t] = "fetched", Done(t), cursor' = head[t],
           EmitRows(items[t] \ lost), Misses(t), dropped' = dropped \cup lost
    PROVE  CursorInv'
<1> USE DEF CursorInv
<1>1. /\ items[t] \subseteq Event /\ from[t] \in Nat /\ head[t] \in Nat
      /\ origin # Unset /\ origin <= from[t] /\ from[t] < head[t] /\ head[t] <= mined
      /\ Covered(from[t])
      /\ items[t] \subseteq InRange(t)
      /\ torn[t] \/ items[t] = InRange(t)
  BY DEF PollsAreSound, TypeOK
<1>2. /\ \A e \in items[t] \ lost : emitted'[e] = emitted[e] + 1
      /\ \A e \in Event \ (items[t] \ lost) : emitted'[e] = emitted[e]
  BY <1>1, EmitRowsCounts
<1>a. missed \subseteq missed' /\ (torn[t] => InRange(t) \ items[t] \subseteq missed')
  BY DEF Misses
<1>3. \A e \in Event : (Settled(e) \/ e \in InRange(t)) => Settled(e)'
  BY <1>1, <1>2, <1>a DEF Settled, TypeOK
<1>4. \A n \in Nat : Covered(n) => Covered(n)'
  BY <1>3 DEF Covered
<1>5. Covered(cursor)'
  BY <1>1, <1>3 DEF Covered, InRange, TypeOK
<1>6. NothingSkipped'
  BY <1>1, <1>5 DEF NothingSkipped, TypeOK
<1>b. \A u \in Tick : u # t =>
         /\ pc'[u] = pc[u] /\ head'[u] = head[u] /\ from'[u] = from[u]
         /\ items'[u] = items[u] /\ torn'[u] = torn[u]
         /\ InRange(u)' = InRange(u)
  BY DEF Done, Goto, InRange, TypeOK
<1>c. pc'[t] = "idle" /\ head'[t] = 0
  BY DEF Done, Goto, TypeOK
<1>7. PollsAreSound'
  BY <1>4, <1>b, <1>c DEF PollsAreSound, TypeOK, Busy
<1>8. NoHistory'
  BY <1>1, <1>2 DEF NoHistory, InRange, TypeOK
<1>9. cursor' # Unset
  BY <1>1, UnsetIsNoBlock
<1>10. \A e \in Event : block'[e] = 0 => emitted'[e] = 0
  BY <1>1, <1>2 DEF InRange, TypeOK
<1> QED BY <1>1, <1>6, <1>7, <1>8, <1>9, <1>10

\* CursorInv is inductive.
LEMMA CursorStep ==
    ASSUME CursorInv, [Next]_vars
    PROVE  CursorInv'
<1> USE DEF chain, stored, polls, outcome, bounds
<1>0. TypeOK /\ TypeOK'
  BY TypeStep DEF CursorInv
<1>1. CASE Mine
  BY <1>0, <1>1, MineStep
<1>a. /\ \A t \in Tick : /\ head[t] <= mined
                         /\ pc[t] \in {"polled", "fetching"} => torn[t] \/ head[t] <= indexed
      /\ indexed <= mined /\ mined \in Nat /\ indexed \in Nat /\ head \in [Tick -> Nat]
  BY <1>0 DEF CursorInv, PollsAreSound, TypeOK
<1>b. CASE Index
  <2>1. Calm
    BY <1>a, <1>b DEF Index, Calm, Busy
  <2> QED BY <1>0, <2>1, CalmStep
<1>c. CASE Drop
  <2>1. UNCHANGED <<block, mined, cursor, emitted, pc, head, from, items, origin, missed, dropped>>
    BY <1>c DEF Drop
  <2>2. \A t \in Tick : /\ torn[t] => torn'[t]
                        /\ pc[t] \in {"polled", "fetching"} => torn'[t]
    BY <1>c DEF Drop
  <2>3. indexed' <= mined
    BY <1>a, <1>c DEF Drop
  <2>4. Calm
    BY <1>a, <2>1, <2>2, <2>3 DEF Calm
  <2> QED BY <1>0, <2>4, CalmStep
<1>2. CASE Crash
  <2>1. Calm
    <3>1. CASE UNCHANGED emitted
      BY <1>0, <1>a, <1>2, <3>1 DEF Crash, Calm, Busy, TypeOK
    <3>2. ASSUME NEW t \in Tick, NEW S \in SUBSET items[t], pc[t] = "fetched", EmitRows(S)
          PROVE  Calm
      <4>1. S \in SUBSET Event
        BY <1>0 DEF TypeOK
      <4>2. /\ \A e \in S : emitted'[e] = emitted[e] + 1
            /\ \A e \in Event \ S : emitted'[e] = emitted[e]
        BY <1>0, <4>1, <3>2, EmitRowsCounts
      <4> QED BY <1>0, <1>a, <1>2, <3>2, <4>1, <4>2 DEF Crash, Calm, Busy, TypeOK
    <3> QED BY <1>2, <3>1, <3>2 DEF Crash
  <2> QED BY <1>0, <2>1, CalmStep
<1>3. ASSUME NEW t \in Tick, ReadHead(t) PROVE CursorInv'
  <2>1. Calm
    BY <1>0, <1>a, <1>3 DEF ReadHead, Goto, Calm, Busy, TypeOK
  <2> QED BY <1>0, <2>1, CalmStep
<1>4. ASSUME NEW t \in Tick, Poll(t) PROVE CursorInv'
  <2>1. CASE EmptyTable(t) \/ UpToDate(t)
    <3>1. Calm
      BY <1>0, <1>a, <2>1 DEF EmptyTable, UpToDate, Done, Goto, Calm, Busy, TypeOK
    <3> QED BY <1>0, <3>1, CalmStep
  <2>2. CASE FirstRun(t)
    BY <1>0, <2>2, FirstRunStep
  <2>3. CASE Fetch(t)
    BY <1>0, <2>3, FetchStep
  <2> QED BY <1>4, <2>1, <2>2, <2>3 DEF Poll
<1>5. ASSUME NEW t \in Tick, Select(t) PROVE CursorInv'
  BY <1>0, <1>5, SelectStep
<1>6. ASSUME NEW t \in Tick, Advance(t) PROVE CursorInv'
  <2>1. {} \in SUBSET items[t] /\ items[t] \ {} = items[t] /\ dropped = dropped \cup {}
    OBVIOUS
  <2>2. EmitRows(items[t] \ {}) /\ dropped' = dropped \cup {}
    BY <2>1, <1>6 DEF Advance
  <2> QED BY <1>0, <1>6, <2>1, <2>2, AdvanceStep DEF Advance
<1>7. ASSUME NEW t \in Tick, AdvanceWithLoss(t) PROVE CursorInv'
  <2>1. PICK lost \in SUBSET items[t] :
           EmitRows(items[t] \ lost) /\ dropped' = dropped \cup lost
    BY <1>7 DEF AdvanceWithLoss
  <2> QED BY <1>0, <1>7, <2>1, AdvanceStep DEF AdvanceWithLoss
<1>8. ASSUME NEW t \in Tick, PollFails(t) PROVE CursorInv'
  <2>1. Calm
    <3>1. CASE UNCHANGED emitted
      BY <1>0, <1>a, <1>8, <3>1 DEF PollFails, Done, Goto, Calm, Busy, TypeOK
    <3>2. CASE pc[t] = "fetched" /\ EmitRows(items[t])
      <4>1. /\ items[t] \in SUBSET Event
            /\ \A e \in items[t] : emitted'[e] = emitted[e] + 1
            /\ \A e \in Event \ items[t] : emitted'[e] = emitted[e]
        BY <1>0, <3>2, EmitRowsCounts DEF TypeOK
      <4> QED BY <1>0, <1>a, <1>8, <3>2, <4>1 DEF PollFails, Done, Goto, Calm, Busy, TypeOK
    <3> QED BY <1>8, <3>1, <3>2 DEF PollFails
  <2> QED BY <1>0, <2>1, CalmStep
<1>9. CASE UNCHANGED vars
  <2>1. Calm
    BY <1>0, <1>a, <1>9 DEF vars, Calm, Busy, TypeOK
  <2> QED BY <1>0, <2>1, CalmStep
<1> QED BY <1>1, <1>b, <1>c, <1>2, <1>3, <1>4, <1>5, <1>6, <1>7, <1>8, <1>9 DEF Next, Step

\* The initial state satisfies the invariant.
LEMMA CursorInit ==
    ASSUME Init
    PROVE  CursorInv
<1>1. TypeOK
  <2>1. /\ overlapped \in BOOLEAN /\ torn \in [Tick -> BOOLEAN]
        /\ items \in [Tick -> SUBSET Event] /\ dropped \subseteq Event /\ missed \subseteq Event
    BY DEF Init
  <2>2. /\ block \in [Event -> Nat] /\ mined \in Nat /\ indexed \in Nat
        /\ emitted \in [Event -> Nat]
        /\ head \in [Tick -> Nat] /\ from \in [Tick -> Nat]
        /\ failures \in 0..MaxFailures /\ drops \in 0..MaxDrops
    BY BoundsAreNaturals DEF Init
  <2>3. /\ cursor \in Nat \cup {Unset} /\ origin \in Nat \cup {Unset}
        /\ pc \in [Tick -> {"idle", "polled", "fetching", "fetched"}]
    BY DEF Init
  <2> QED BY <2>1, <2>2, <2>3 DEF TypeOK
<1>2. \A t \in Tick : pc[t] = "idle" /\ head[t] = 0
  BY DEF Init
<1>3. PollsAreSound
  BY <1>1, <1>2 DEF PollsAreSound, Init
<1>4. NothingSkipped /\ NoHistory
  BY DEF Init, NothingSkipped, NoHistory
<1>5. /\ \A e \in Event : emitted[e] = 0 /\ block[e] <= mined
      /\ indexed <= mined
      /\ cursor = Unset /\ origin = Unset
  BY DEF Init
<1> QED BY <1>1, <1>3, <1>4, <1>5 DEF CursorInv

\* A step after which the polls still do not overlap: no poll starts, and each
\* event is emitted at most once more, for a fault or a restart.
Undisturbed ==
    /\ ~overlapped
    /\ UNCHANGED cursor
    /\ \A t \in Tick : (pc'[t] = pc[t] /\ from'[t] = from[t]) \/ pc'[t] = "idle"
    /\ failures \in Nat /\ failures' \in Nat /\ failures <= failures'
    /\ \A e \in Event :
          /\ emitted'[e] <= emitted[e] + failures' - failures
          /\ cursor # Unset /\ block'[e] > cursor =>
                \/ block[e] > cursor
                \/ emitted[e] = 0 /\ emitted'[e] = 0

\* Such a step keeps AloneInv.
LEMMA UndisturbedStep ==
    ASSUME TypeOK, TypeOK', AloneInv, Undisturbed
    PROVE  AloneInv'
<1>1. /\ \A t, u \in Tick : pc[t] # "idle" /\ pc[u] # "idle" => t = u
      /\ \A t \in Tick : pc[t] \in Busy => from[t] = cursor
  BY DEF AloneInv, Undisturbed, Busy
<1>2. /\ \A t, u \in Tick : pc'[t] # "idle" /\ pc'[u] # "idle" => t = u
      /\ \A t \in Tick : pc'[t] \in Busy => from'[t] = cursor'
  BY <1>1 DEF Undisturbed, Busy
<1>3. ASSUME NEW e \in Event
      PROVE  /\ emitted'[e] <= 1 + failures'
             /\ cursor' # Unset /\ block'[e] > cursor' => emitted'[e] <= failures'
  <2>1. emitted[e] \in Nat /\ emitted'[e] \in Nat
    BY DEF TypeOK
  <2>2. /\ emitted[e] <= 1 + failures
        /\ cursor # Unset /\ block[e] > cursor => emitted[e] <= failures
    BY DEF AloneInv, Undisturbed
  <2> QED BY <2>1, <2>2 DEF Undisturbed
<1> QED BY <1>2, <1>3 DEF AloneInv, Busy

\* AloneInv is inductive relative to CursorInv.
LEMMA AloneStep ==
    ASSUME CursorInv, CursorInv', AloneInv, [Next]_vars
    PROVE  AloneInv'
<1> USE DEF chain, stored, polls, outcome, bounds, Failure
<1>0. TypeOK /\ TypeOK'
  BY DEF CursorInv
<1>a. failures \in Nat /\ failures' \in Nat
  BY <1>0, BoundsAreNaturals DEF TypeOK
<1> SUFFICES ASSUME ~overlapped'
             PROVE  AloneInv'
  BY DEF AloneInv
<1>b. ~overlapped
  BY <1>0 DEF Next, Step, Poll, Mine, Index, Drop, Crash, ReadHead, EmptyTable, FirstRun, UpToDate,
              Fetch, Select, Advance, AdvanceWithLoss, PollFails, vars, TypeOK
<1>c. /\ \A t, u \in Tick : pc[t] # "idle" /\ pc[u] # "idle" => t = u
      /\ \A t \in Tick : pc[t] \in Busy => from[t] = cursor
      /\ \A e \in Event :
            /\ emitted[e] \in Nat /\ emitted'[e] \in Nat /\ block[e] \in Nat
            /\ emitted[e] <= 1 + failures
            /\ cursor # Unset /\ block[e] > cursor => emitted[e] <= failures
  BY <1>0, <1>b DEF AloneInv, Busy, TypeOK
<1>d. \A t \in Tick : \A e \in items[t] :
         pc[t] = "fetched" => e \in Event /\ block[e] > cursor /\ cursor # Unset
  BY <1>0, <1>c DEF CursorInv, PollsAreSound, InRange, Busy, TypeOK
<1>1. CASE Mine \/ Index \/ Drop
  <2>1. Undisturbed
    BY <1>0, <1>a, <1>b, <1>1 DEF Mine, Index, Drop, Undisturbed, CursorInv, TypeOK
  <2> QED BY <1>0, <2>1, UndisturbedStep
<1>2. CASE Crash
  <2>1. \A e \in Event : emitted'[e] <= emitted[e] + 1
    <3>1. CASE UNCHANGED emitted
      BY <1>c, <3>1
    <3>2. ASSUME NEW t \in Tick, NEW S \in SUBSET items[t], EmitRows(S)
          PROVE  \A e \in Event : emitted'[e] <= emitted[e] + 1
      BY <1>0, <1>c, <3>2, EmitRowsCounts DEF TypeOK
    <3> QED BY <1>2, <3>1, <3>2 DEF Crash
  <2>2. Undisturbed
    BY <1>0, <1>a, <1>b, <1>c, <1>2, <2>1 DEF Crash, Undisturbed, TypeOK
  <2> QED BY <1>0, <2>2, UndisturbedStep
<1>3. ASSUME NEW t \in Tick, ReadHead(t) PROVE AloneInv'
  <2>1. \A u \in Tick : u # t => pc[u] = "idle"
    BY <1>3 DEF ReadHead
  <2>2. \A u \in Tick : pc'[u] = IF u = t THEN "polled" ELSE pc[u]
    BY <1>0, <1>3 DEF ReadHead, Goto, TypeOK
  <2> QED BY <1>c, <1>3, <2>1, <2>2 DEF ReadHead, AloneInv, Busy
<1>4. ASSUME NEW t \in Tick, Poll(t) PROVE AloneInv'
  <2>1. CASE EmptyTable(t) \/ UpToDate(t)
    <3>1. /\ UNCHANGED <<block, cursor, emitted, failures>>
          /\ pc' = [pc EXCEPT ![t] = "idle"] /\ from' = [from EXCEPT ![t] = 0]
      BY <2>1 DEF EmptyTable, UpToDate, Done, Goto
    <3>2. Undisturbed
      BY <1>0, <1>a, <1>b, <1>c, <3>1 DEF Undisturbed, TypeOK
    <3> QED BY <1>0, <3>2, UndisturbedStep
  <2>2. CASE FirstRun(t)
    <3>1. \A e \in Event : emitted'[e] = 0
      BY <2>2 DEF FirstRun, CursorInv
    <3>2. \A u \in Tick : pc'[u] = "idle"
      BY <1>0, <1>c, <2>2 DEF FirstRun, Done, Goto, TypeOK
    <3> QED BY <1>a, <3>1, <3>2 DEF AloneInv
  <2>3. CASE Fetch(t)
    <3>1. \A u \in Tick : u # t => pc'[u] = "idle"
      BY <1>0, <1>c, <2>3 DEF Fetch, Goto, TypeOK
    <3>2. from'[t] = cursor' /\ UNCHANGED <<block, cursor, emitted, failures>>
      BY <1>0, <2>3 DEF Fetch, TypeOK
    <3> QED BY <1>c, <3>1, <3>2 DEF AloneInv, Busy
  <2> QED BY <1>4, <2>1, <2>2, <2>3 DEF Poll
<1>5. ASSUME NEW t \in Tick, Select(t) PROVE AloneInv'
  <2>1. \A u \in Tick : u # t => pc'[u] = "idle"
    BY <1>0, <1>c, <1>5 DEF Select, Goto, TypeOK
  <2>2. from'[t] = cursor' /\ UNCHANGED <<block, cursor, emitted, failures>>
    BY <1>c, <1>5 DEF Select, Busy
  <2> QED BY <1>c, <2>1, <2>2 DEF AloneInv, Busy
<1>6. ASSUME NEW t \in Tick, NEW lost \in SUBSET items[t], pc[t] = "fetched",
             pc' = [pc EXCEPT ![t] = "idle"], EmitRows(items[t] \ lost),
             cursor' = head[t], UNCHANGED block, failures <= failures'
      PROVE  AloneInv'
  <2>1. /\ items[t] \ lost \in SUBSET Event
        /\ from[t] = cursor /\ from[t] < head[t] /\ from[t] \in Nat /\ head[t] \in Nat
        /\ cursor # Unset
        /\ \A e \in items[t] : from[t] < block[e] /\ block[e] <= head[t]
    BY <1>0, <1>c, <1>6, UnsetIsNoBlock DEF CursorInv, PollsAreSound, InRange, TypeOK, Busy
  <2>2. /\ \A e \in items[t] \ lost : emitted'[e] = emitted[e] + 1
        /\ \A e \in Event \ (items[t] \ lost) : emitted'[e] = emitted[e]
    BY <1>0, <1>6, <2>1, EmitRowsCounts
  <2>3. \A u \in Tick : pc'[u] = "idle"
    BY <1>0, <1>c, <1>6 DEF TypeOK
  <2>4. ASSUME NEW e \in Event
        PROVE  /\ emitted'[e] <= 1 + failures'
               /\ block'[e] > cursor' => emitted'[e] <= failures'
    <3>1. CASE e \in items[t] \ lost
      BY <1>a, <1>c, <1>6, <2>1, <2>2, <3>1
    <3>2. CASE e \notin items[t] \ lost
      BY <1>a, <1>c, <1>6, <2>1, <2>2, <3>2
    <3> QED BY <3>1, <3>2
  <2> QED BY <2>3, <2>4 DEF AloneInv
<1>7. ASSUME NEW t \in Tick, Advance(t) PROVE AloneInv'
  <2>1. {} \in SUBSET items[t] /\ items[t] \ {} = items[t]
    OBVIOUS
  <2>2. EmitRows(items[t] \ {}) /\ failures <= failures'
    BY <1>a, <1>7, <2>1 DEF Advance
  <2> QED BY <1>6, <1>7, <2>1, <2>2 DEF Advance, Done, Goto
<1>8. ASSUME NEW t \in Tick, AdvanceWithLoss(t) PROVE AloneInv'
  <2>1. PICK lost \in SUBSET items[t] : EmitRows(items[t] \ lost)
    BY <1>8 DEF AdvanceWithLoss
  <2>2. failures <= failures'
    BY <1>a, <1>8 DEF AdvanceWithLoss
  <2> QED BY <1>6, <1>8, <2>1, <2>2 DEF AdvanceWithLoss, Done, Goto
<1>9. ASSUME NEW t \in Tick, PollFails(t) PROVE AloneInv'
  <2>1. \A e \in Event : emitted'[e] <= emitted[e] + 1
    <3>1. CASE UNCHANGED emitted
      BY <1>c, <3>1
    <3>2. CASE EmitRows(items[t])
      BY <1>0, <1>c, <3>2, EmitRowsCounts DEF TypeOK
    <3> QED BY <1>9, <3>1, <3>2 DEF PollFails
  <2>2. Undisturbed
    BY <1>0, <1>a, <1>b, <1>c, <1>9, <2>1 DEF PollFails, Done, Goto, Undisturbed, TypeOK
  <2> QED BY <1>0, <2>2, UndisturbedStep
<1>10. CASE UNCHANGED vars
  <2>1. Undisturbed
    BY <1>0, <1>a, <1>b, <1>c, <1>10 DEF vars, Undisturbed, TypeOK
  <2> QED BY <1>0, <2>1, UndisturbedStep
<1> QED BY <1>1, <1>2, <1>3, <1>4, <1>5, <1>7, <1>8, <1>9, <1>10 DEF Next, Step

\* CursorInv holds in every reachable state of the emitter (processStream,
\* chainEvents.ts), whatever polls overlap, fail or die.
THEOREM CursorInvariant == Spec => []CursorInv
  BY CursorInit, CursorStep, PTL DEF Spec

\* No event between the first cursor and the present one is skipped
\* (chainEvents.ts:19-22: complete blocks only).
THEOREM NoEventIsSkipped == Spec => []NothingSkipped
<1>1. CursorInv => NothingSkipped
  BY DEF CursorInv
<1> QED BY <1>1, CursorInvariant, PTL

\* No event that the stream took for history is ever emitted
\* (chainEvents.ts:27-29).
THEOREM HistoryIsSilent == Spec => []NoHistory
<1>1. CursorInv => NoHistory
  BY DEF CursorInv
<1> QED BY <1>1, CursorInvariant, PTL

\* Without overlapping polls an event is emitted once, and once more for each
\* restart or error at most (chainEvents.ts:23-24: at-least-once).
THEOREM AloneMeansOnce == Spec => []OnceWithoutOverlap
<1>1. Init => AloneInv
  BY DEF Init, AloneInv
<1>2. AloneInv => OnceWithoutOverlap
  BY DEF AloneInv, OnceWithoutOverlap
<1> QED BY <1>1, <1>2, AloneStep, CursorInvariant, PTL DEF Spec

-----------------------------------------------------------------------------
(* The worker.  WorkerIInv is inductive: with the promises it says which     *)
(* copies of a row there are, that a post of a row that did not race is the  *)
(* attempt that it is due for, and how far its posts are ahead of its        *)
(* attempts.                                                                 *)

\* The numbers of the copies.
Copy == 1..MaxFaults + 1

\* A pending event is pending once, and is not processed.
QueueSound ==
    /\ \A i, j \in 1..Len(queue) : queue[i] = queue[j] => i = j
    /\ \A i \in 1..Len(queue) : queue[i] \notin processed

\* The rows of an event for a subscriber, by a given status of each row.
RowsFor(st, e, s) == {d \in Row : d[1] = e /\ d[2] = s /\ st[d] # "none"}

\* They are numbered from 1.
Numbered(st, e, s) ==
    \A c \in Copy : st[<<e, s, c>>] # "none" <=> c <= Cardinality(RowsFor(st, e, s))

\* Only an event whose fan-out was stopped has rows while it is pending.
CopiesSound ==
    \A e \in WebhookEvent, s \in Sub :
        /\ Numbered(status, e, s)
        /\ Cardinality(Copies(e, s)) <= IF e \in processed THEN 1 + faults
                                        ELSE IF \E i \in 1..Len(queue) : queue[i] = e THEN faults ELSE 0

\* A row is posted for each attempt once, and once more for each restart.
RowsSound ==
    \A d \in Row :
        /\ status[d] = "none" => attempts[d] = 0 /\ d \notin raced
        /\ status[d] = "pending" => attempts[d] < MAX_ATTEMPTS
        /\ d \notin raced => posts[d] <= attempts[d] + faults + IF InFlight(d) THEN 1 ELSE 0

\* What is owed was wanted, by somebody who had subscribed.
OwedSound == \A p \in owed : p[1] \in Wants[p[2]] /\ sub[p[2]] # "none"

\* What the worker keeps between two of its steps.
WorkerIInv ==
    /\ WorkerTypeOK /\ QueueSound /\ CopiesSound /\ ScheduleSound
    /\ RowsSound /\ OwedSound /\ NoSubscriberMissed


-----------------------------------------------------------------------------
(* Lemmas about the operators *)

\* The smaller of two numbers.
LEMMA MinOfTwo ==
    ASSUME NEW a \in Nat, NEW b \in Nat
    PROVE  Min({a, b}) \in Nat /\ Min({a, b}) <= a /\ Min({a, b}) <= b
<1>1. \E x \in {a, b} : \A y \in {a, b} : x =< y
  <2>1. CASE a <= b
    BY <2>1
  <2>2. CASE b <= a
    BY <2>2
  <2> QED BY <2>1, <2>2
<1> QED BY <1>1 DEF Min

\* A fan-out takes no more events than are pending.
LEMMA BatchIsPending ==
    ASSUME WorkerTypeOK
    PROVE  Batch \in 0..Len(queue)
<1>1. Len(queue) \in Nat /\ FanoutLimit \in Nat
  BY WebhookAssumption DEF WorkerTypeOK
<1>2. Min({Len(queue), FanoutLimit}) \in Nat /\ Min({Len(queue), FanoutLimit}) <= Len(queue)
  BY <1>1, MinOfTwo
<1> QED BY <1>1, <1>2 DEF Batch

\* An event has finitely many rows for a subscriber, for they are numbered.
LEMMA CopiesAreFinite ==
    ASSUME NEW st, NEW e \in WebhookEvent, NEW s \in Sub
    PROVE  IsFiniteSet(RowsFor(st, e, s)) /\ Cardinality(RowsFor(st, e, s)) \in Nat
<1>1. IsFiniteSet(Copy)
  <2>1. 1 \in Int /\ MaxFaults + 1 \in Int
    BY WebhookAssumption
  <2> QED BY <2>1, FS_Interval DEF Copy
<1> DEFINE All == {<<e, s, c>> : c \in Copy}
<1>2. IsFiniteSet(All)
  <2> DEFINE f == [c \in Copy |-> <<e, s, c>>]
  <2>1. f \in Surjection(Copy, All)
    BY DEF Surjection
  <2> QED BY <1>1, <2>1, FS_Surjection
<1>3. RowsFor(st, e, s) \subseteq All
  BY DEF RowsFor, Row, Copy
<1>4. IsFiniteSet(RowsFor(st, e, s))
  BY <1>2, <1>3, FS_Subset
<1> QED BY <1>4, FS_CardinalityType

\* An inserted row is the next copy.
LEMMA OneMoreCopy ==
    ASSUME NEW st, NEW st2, NEW e \in WebhookEvent, NEW s \in Sub,
           Numbered(st, e, s), Cardinality(RowsFor(st, e, s)) <= MaxFaults,
           \A c \in Copy : st2[<<e, s, c>>] # "none" <=>
                              st[<<e, s, c>>] # "none" \/ c = Cardinality(RowsFor(st, e, s)) + 1
    PROVE  Numbered(st2, e, s) /\ Cardinality(RowsFor(st2, e, s)) = Cardinality(RowsFor(st, e, s)) + 1
<1> DEFINE k == Cardinality(RowsFor(st, e, s))
<1>0. k \in 0..MaxFaults
  BY CopiesAreFinite, WebhookAssumption
<1> DEFINE new == <<e, s, k + 1>>
<1>1. k + 1 \in Copy
  BY <1>0, WebhookAssumption DEF Copy
<1>2. new \in Row
  BY <1>1 DEF Row, Copy
<1>3. new \notin RowsFor(st, e, s)
  BY <1>0, <1>1 DEF Numbered, RowsFor
<1>4. RowsFor(st2, e, s) = RowsFor(st, e, s) \cup {new}
  <2>1. ASSUME NEW d \in Row, d[1] = e, d[2] = s
        PROVE  st2[d] # "none" <=> st[d] # "none" \/ d = new
    <3>1. PICK c \in Copy : d = <<e, s, c>>
      BY <2>1 DEF Row, Copy
    <3> QED BY <3>1
  <2>2. new[1] = e /\ new[2] = s
    OBVIOUS
  <2>3. \A d \in Row : d \in RowsFor(st2, e, s) <=> d \in RowsFor(st, e, s) \cup {new}
    BY <2>1, <2>2 DEF RowsFor
  <2> QED BY <2>3, <1>2 DEF RowsFor
<1>5. IsFiniteSet(RowsFor(st, e, s))
  BY CopiesAreFinite
<1>6. Cardinality(RowsFor(st2, e, s)) = k + 1
  BY <1>3, <1>4, <1>5, FS_AddElement
<1>7. \A c \in Copy : st2[<<e, s, c>>] # "none" <=> c <= k + 1
  BY <1>0 DEF Numbered, Copy
<1> QED BY <1>6, <1>7 DEF Numbered

\* A change of status inserts no copy.
LEMMA SameCopies ==
    ASSUME NEW st, NEW st2, NEW e \in WebhookEvent, NEW s \in Sub, Numbered(st, e, s),
           \A c \in Copy : st2[<<e, s, c>>] # "none" <=> st[<<e, s, c>>] # "none"
    PROVE  Numbered(st2, e, s) /\ RowsFor(st2, e, s) = RowsFor(st, e, s)
<1>1. RowsFor(st2, e, s) = RowsFor(st, e, s)
  <2>1. ASSUME NEW d \in Row, d[1] = e, d[2] = s
        PROVE  st2[d] # "none" <=> st[d] # "none"
    <3>1. PICK c \in Copy : d = <<e, s, c>>
      BY <2>1 DEF Row, Copy
    <3> QED BY <3>1
  <2> QED BY <2>1 DEF RowsFor
<1> QED BY <1>1 DEF Numbered

\* A pending event has at most as many rows for a subscriber as fan-outs were
\* stopped, so that there is a row for one more.
LEMMA PendingHasRoom ==
    ASSUME WorkerIInv, NEW i \in 1..Len(queue), NEW s \in Sub
    PROVE  /\ queue[i] \in WebhookEvent
           /\ Cardinality(Copies(queue[i], s)) \in 0..MaxFaults
           /\ NextCopy(queue[i], s) \in Row
           /\ status[NextCopy(queue[i], s)] = "none"
<1> DEFINE e == queue[i]
<1> DEFINE k == Cardinality(Copies(e, s))
<1>1. e \in WebhookEvent /\ e \notin processed /\ faults \in 0..MaxFaults
  BY DEF WorkerIInv, WorkerTypeOK, QueueSound
<1>2. Copies(e, s) = RowsFor(status, e, s)
  BY DEF Copies, RowsFor
<1>3. k \in Nat
  BY <1>1, <1>2, CopiesAreFinite
<1>4. k <= faults
  BY <1>1 DEF WorkerIInv, CopiesSound
<1>5. k \in 0..MaxFaults
  BY <1>1, <1>3, <1>4, WebhookAssumption
<1>6. k + 1 \in Copy
  BY <1>5, WebhookAssumption DEF Copy
<1>7. NextCopy(e, s) = <<e, s, k + 1>>
  BY DEF NextCopy
<1>8. NextCopy(e, s) \in Row
  BY <1>1, <1>6, <1>7 DEF Row, Copy
<1>9. status[<<e, s, k + 1>>] = "none"
  <2>1. Numbered(status, e, s)
    BY <1>1 DEF WorkerIInv, CopiesSound
  <2>2. ~(k + 1 <= k)
    BY <1>3
  <2> QED BY <2>1, <2>2, <1>2, <1>6 DEF Numbered
<1> QED BY <1>1, <1>5, <1>7, <1>8, <1>9

\* What a fan-out that inserts the rows in new does to the copies.
LEMMA FanoutInserts ==
    ASSUME WorkerIInv, NEW n \in 0..Len(queue), NEW st2, NEW new,
           \A d \in new : \E i \in 1..n, s \in Sub : d = NextCopy(queue[i], s),
           \A d \in Row : st2[d] # "none" <=> status[d] # "none" \/ d \in new
    PROVE  /\ new \subseteq Row
           /\ \A d \in new : status[d] = "none"
           /\ \A e \in WebhookEvent, s \in Sub :
                /\ Numbered(st2, e, s)
                /\ Copies(e, s) \subseteq RowsFor(st2, e, s)
                /\ Cardinality(RowsFor(st2, e, s)) <= Cardinality(Copies(e, s)) + 1
                /\ (\A i \in 1..n : queue[i] # e) =>
                      Cardinality(RowsFor(st2, e, s)) = Cardinality(Copies(e, s))
<1>0. Len(queue) \in Nat
  BY DEF WorkerIInv, WorkerTypeOK
<1>1. ASSUME NEW d \in new
      PROVE  d \in Row /\ status[d] = "none"
  <2>1. PICK i \in 1..n, s \in Sub : d = NextCopy(queue[i], s)
    OBVIOUS
  <2>2. i \in 1..Len(queue) /\ s \in Sub
    BY <1>0, <2>1
  <2> QED BY <2>1, <2>2, PendingHasRoom
<1>2. ASSUME NEW e \in WebhookEvent, NEW s \in Sub
      PROVE  /\ Numbered(st2, e, s)
             /\ Copies(e, s) \subseteq RowsFor(st2, e, s)
             /\ Cardinality(RowsFor(st2, e, s)) <= Cardinality(Copies(e, s)) + 1
             /\ (\A i \in 1..n : queue[i] # e) =>
                      Cardinality(RowsFor(st2, e, s)) = Cardinality(Copies(e, s))
  <2> DEFINE k == Cardinality(Copies(e, s))
  <2>1. Numbered(status, e, s)
    BY DEF WorkerIInv, CopiesSound
  <2>2. Copies(e, s) = RowsFor(status, e, s) /\ k \in Nat
    BY ZenonT(40), CopiesAreFinite DEF Copies, RowsFor
  <2>3. \A c \in Copy : <<e, s, c>> \in Row
    BY DEF Copy, Row
  <2>4. ASSUME NEW d \in new, d[1] = e, d[2] = s
        PROVE  d = NextCopy(e, s) /\ \E i \in 1..n : queue[i] = e
    <3>1. PICK i \in 1..n, r \in Sub : d = NextCopy(queue[i], r)
      OBVIOUS
    <3>2. d[1] = queue[i] /\ d[2] = r
      BY <3>1 DEF NextCopy
    <3> QED BY <3>1, <3>2, <2>4
  <2>5. Copies(e, s) \subseteq RowsFor(st2, e, s)
    BY DEF Copies, RowsFor
  <2>6. CASE NextCopy(e, s) \in new
    <3>1. PICK i \in 1..n : queue[i] = e
      BY <2>6, <2>4 DEF NextCopy
    <3>2. k \in 0..MaxFaults
      BY <1>0, <3>1, PendingHasRoom
    <3>3. \A c \in Copy : <<e, s, c>> \in new <=> c = k + 1
      <4>1. NextCopy(e, s) = <<e, s, k + 1>>
        BY DEF NextCopy
      <4> QED BY <4>1, <2>4, <2>6
    <3>4. \A c \in Copy : st2[<<e, s, c>>] # "none" <=> status[<<e, s, c>>] # "none" \/ c = k + 1
      BY <3>3, <2>3
    <3>5. Numbered(st2, e, s) /\ Cardinality(RowsFor(st2, e, s)) = k + 1
      <4>1. Cardinality(RowsFor(status, e, s)) <= MaxFaults
        BY <2>2, <3>2
      <4>2. \A c \in Copy : st2[<<e, s, c>>] # "none" <=>
                status[<<e, s, c>>] # "none" \/ c = Cardinality(RowsFor(status, e, s)) + 1
        BY <2>2, <3>4
      <4>3. Cardinality(RowsFor(st2, e, s)) = Cardinality(RowsFor(status, e, s)) + 1
        BY <4>1, <4>2, <2>1, OneMoreCopy
      <4>4. Numbered(st2, e, s)
        BY <4>1, <4>2, <2>1, OneMoreCopy
      <4> QED BY <2>2, <4>3, <4>4
    <3> QED BY <2>2, <2>5, <3>1, <3>5
  <2>7. CASE NextCopy(e, s) \notin new
    <3>1. \A c \in Copy : st2[<<e, s, c>>] # "none" <=> status[<<e, s, c>>] # "none"
      BY <2>3, <2>4, <2>7
    <3>2. Numbered(st2, e, s) /\ RowsFor(st2, e, s) = RowsFor(status, e, s)
      BY <2>1, <3>1, SameCopies
    <3> QED BY <2>2, <2>5, <3>2
  <2> QED BY <2>6, <2>7
<1> QED BY <1>1, <1>2

\* The rows of a fan-out, whole or stopped.
LEMMA FanoutOfQueue ==
    ASSUME NEW n \in Nat, NEW d \in Fanout(n)
    PROVE  \E i \in 1..n, s \in Sub : d = NextCopy(queue[i], s)
  BY DEF Fanout, FanoutOf, Subscribers

-----------------------------------------------------------------------------
(* What the steps keep *)

\* A step that inserts no row and marks no event keeps what concerns them.
LEMMA SameRows ==
    ASSUME WorkerIInv, UNCHANGED <<queue, processed>>, faults' \in Nat, faults' >= faults,
           \A d \in Row : status'[d] # "none" <=> status[d] # "none"
    PROVE  /\ QueueSound' /\ CopiesSound'
           /\ \A e \in WebhookEvent, s \in Sub : Copies(e, s)' = Copies(e, s)
<1>1. QueueSound'
  BY DEF WorkerIInv, QueueSound
<1>2. ASSUME NEW e \in WebhookEvent, NEW s \in Sub
      PROVE  /\ Numbered(status, e, s)' /\ Copies(e, s)' = Copies(e, s)
             /\ Cardinality(Copies(e, s)) \in Nat
  <2>1. Copies(e, s) = RowsFor(status, e, s) /\ Copies(e, s)' = RowsFor(status', e, s)
    BY DEF Copies, RowsFor
  <2>2. Numbered(status, e, s)
    BY DEF WorkerIInv, CopiesSound
  <2>3. \A c \in Copy : status'[<<e, s, c>>] # "none" <=> status[<<e, s, c>>] # "none"
    BY DEF Copy, Row
  <2>4. Numbered(status', e, s) /\ RowsFor(status', e, s) = RowsFor(status, e, s)
    BY <2>2, <2>3, SameCopies
  <2>5. Numbered(status, e, s)'
    BY <2>4 DEF Numbered, RowsFor
  <2> QED BY <2>1, <2>4, <2>5, CopiesAreFinite
<1>3. CopiesSound'
  <2> SUFFICES ASSUME NEW e \in WebhookEvent, NEW s \in Sub
               PROVE  (/\ Numbered(status, e, s)
                       /\ Cardinality(Copies(e, s)) <=
                            IF e \in processed THEN 1 + faults
                            ELSE IF \E i \in 1..Len(queue) : queue[i] = e THEN faults ELSE 0)'
    BY DEF CopiesSound
  <2>1. Cardinality(Copies(e, s)) <= IF e \in processed THEN 1 + faults
                                     ELSE IF \E i \in 1..Len(queue) : queue[i] = e THEN faults ELSE 0
    BY DEF WorkerIInv, CopiesSound
  <2>2. faults \in Nat /\ Cardinality(Copies(e, s)) \in Nat
    BY <1>2 DEF WorkerIInv, WorkerTypeOK
  <2>3. Cardinality(Copies(e, s))' = Cardinality(Copies(e, s))
    BY <1>2
  <2> QED BY <1>2, <2>1, <2>2, <2>3
<1> QED BY <1>1, <1>2, <1>3

\* A step that inserts rows for the first k pending events and marks the first
\* n of them: all of those, unless it is stopped.
LEMMA FanoutStep ==
    ASSUME WorkerIInv, NEW n \in Nat, NEW k \in Nat, n <= k, k <= Len(queue), Mark(n),
           NEW new, UNCHANGED <<sub, owed>>,
           \A d \in new : \E i \in 1..k, s \in Sub : d = NextCopy(queue[i], s),
           \A i \in 1..n : \A s \in Subscribers(queue[i]) : NextCopy(queue[i], s) \in new,
           \A d \in Row : status'[d] # "none" <=> status[d] # "none" \/ d \in new,
           (faults' = faults /\ n = k) \/ faults' = faults + 1
    PROVE  /\ queue' \in Seq(WebhookEvent) /\ processed' \subseteq WebhookEvent
           /\ new \subseteq Row
           /\ \A d \in new : status[d] = "none"
           /\ QueueSound' /\ CopiesSound' /\ NoSubscriberMissed'
<1>1. queue \in Seq(WebhookEvent) /\ Len(queue) \in Nat /\ processed \subseteq WebhookEvent /\ faults \in Nat
  BY DEF WorkerIInv, WorkerTypeOK
<1>2. /\ queue' \in Seq(WebhookEvent) /\ Len(queue') = Len(queue) - n
      /\ \A i \in 1..Len(queue') : i + n \in 1..Len(queue) /\ queue'[i] = queue[i + n]
  BY <1>1 DEF Mark
<1>3. processed' = processed \cup {queue[i] : i \in 1..n}
  BY DEF Mark
<1>4. processed' \subseteq WebhookEvent
  BY <1>1, <1>3
<1>5. QueueSound'
  <2>1. ASSUME NEW i \in 1..Len(queue'), NEW j \in 1..Len(queue'), queue'[i] = queue'[j]
        PROVE  i = j
    <3>1. i + n = j + n
      BY <1>2, <2>1 DEF WorkerIInv, QueueSound
    <3> QED BY <1>1, <1>2, <3>1
  <2>2. ASSUME NEW i \in 1..Len(queue')
        PROVE  queue'[i] \notin processed'
    <3>1. i + n \in 1..Len(queue) /\ queue'[i] = queue[i + n] /\ i \in Nat /\ i > 0
      BY <1>1, <1>2
    <3>2. queue[i + n] \notin processed
      BY <3>1 DEF WorkerIInv, QueueSound
    <3>3. \A j \in 1..n : j \in 1..Len(queue) /\ j # i + n
      BY <1>1, <3>1
    <3>4. \A j \in 1..n : queue[j] # queue[i + n]
      BY <3>1, <3>3 DEF WorkerIInv, QueueSound
    <3> QED BY <1>3, <3>1, <3>2, <3>4
  <2> QED BY <2>1, <2>2 DEF QueueSound
<1>6. k \in 0..Len(queue)
  BY <1>1
<1>7. /\ new \subseteq Row
      /\ \A d \in new : status[d] = "none"
      /\ \A e \in WebhookEvent, s \in Sub :
            /\ Numbered(status', e, s)
            /\ Copies(e, s) \subseteq RowsFor(status', e, s)
            /\ Cardinality(RowsFor(status', e, s)) <= Cardinality(Copies(e, s)) + 1
            /\ (\A i \in 1..k : queue[i] # e) =>
                  Cardinality(RowsFor(status', e, s)) = Cardinality(Copies(e, s))
  BY <1>6, FanoutInserts
<1>8. \A e \in WebhookEvent, s \in Sub : Copies(e, s)' = RowsFor(status', e, s)
  BY DEF Copies, RowsFor
<1>9. CopiesSound'
  <2> SUFFICES ASSUME NEW e \in WebhookEvent, NEW s \in Sub
               PROVE  (/\ Numbered(status, e, s)
                       /\ Cardinality(Copies(e, s)) <=
                            IF e \in processed THEN 1 + faults
                            ELSE IF \E i \in 1..Len(queue) : queue[i] = e THEN faults ELSE 0)'
    BY DEF CopiesSound
  <2>1. Numbered(status, e, s)'
    <3>1. Numbered(status', e, s)
      BY <1>7
    <3> QED BY <3>1 DEF Numbered, RowsFor
  <2> DEFINE old == Cardinality(Copies(e, s))
             now == Cardinality(RowsFor(status', e, s))
  <2>2. old \in Nat /\ now \in Nat
    <3>1. Copies(e, s) = RowsFor(status, e, s)
      BY DEF Copies, RowsFor
    <3> QED BY <3>1, CopiesAreFinite
  <2>3. old <= IF e \in processed THEN 1 + faults
               ELSE IF \E i \in 1..Len(queue) : queue[i] = e THEN faults ELSE 0
    BY DEF WorkerIInv, CopiesSound
  <2>4. now <= old + 1 /\ ((\A i \in 1..k : queue[i] # e) => now = old)
    BY <1>7
  <2>5. Cardinality(Copies(e, s))' = now
    BY <1>8
  <2> HIDE DEF old, now
  <2>6. CASE e \in processed
    <3>1. \A i \in 1..k : queue[i] # e
      BY <1>1, <2>6 DEF WorkerIInv, QueueSound
    <3> QED BY <1>1, <1>3, <2>1, <2>2, <2>3, <2>4, <2>5, <2>6, <3>1
  <2>7. CASE e \notin processed /\ \E i \in 1..n : queue[i] = e
    <3>1. e \in processed' /\ old <= faults
      BY <1>1, <1>3, <2>3, <2>7
    <3> QED BY <1>1, <2>1, <2>2, <2>4, <2>5, <3>1
  <2>8. CASE e \notin processed /\ (\A i \in 1..n : queue[i] # e) /\ \E i \in 1..Len(queue) : queue[i] = e
    <3>1. PICK i \in 1..Len(queue) : queue[i] = e
      BY <2>8
    <3>2. i \in n+1..Len(queue)
      BY <1>1, <2>8, <3>1
    <3>3. i - n \in 1..Len(queue') /\ (i - n) + n = i
      BY <1>1, <1>2, <3>2
    <3>4. \E j \in 1..Len(queue') : queue'[j] = e
      BY <1>2, <3>1, <3>3
    <3>5. e \notin processed'
      BY <1>3, <2>8
    <3>6. now <= faults'
      <4>1. old <= faults
        BY <2>3, <2>8
      <4>2. CASE faults' = faults + 1
        BY <1>1, <2>2, <2>4, <4>1, <4>2
      <4>3. CASE faults' = faults /\ n = k
        BY <1>1, <2>2, <2>4, <2>8, <4>1, <4>3
      <4> QED BY <4>2, <4>3
    <3> QED BY <2>1, <2>5, <3>4, <3>5, <3>6
  <2>9. CASE e \notin processed /\ \A i \in 1..Len(queue) : queue[i] # e
    <3>1. e \notin processed' /\ \A i \in 1..Len(queue') : queue'[i] # e
      BY <1>1, <1>2, <1>3, <2>9
    <3>2. \A i \in 1..k : queue[i] # e
      BY <1>1, <2>9
    <3> QED BY <2>1, <2>2, <2>3, <2>4, <2>5, <2>9, <3>1, <3>2
  <2> QED BY <1>1, <2>6, <2>7, <2>8, <2>9
<1>10. NoSubscriberMissed'
  <2> SUFFICES ASSUME NEW e \in processed', NEW s \in Sub, <<e, s>> \in owed', sub'[s] = "active"
               PROVE  RowsFor(status', e, s) # {}
    BY <1>4, <1>8 DEF NoSubscriberMissed
  <2>1. CASE e \in processed
    <3>1. Copies(e, s) # {}
      BY <2>1 DEF WorkerIInv, NoSubscriberMissed
    <3> QED BY <1>1, <1>7, <2>1, <3>1
  <2>2. CASE e \notin processed
    <3>1. PICK i \in 1..n : queue[i] = e
      BY <1>3, <2>2
    <3>2. e \in Wants[s]
      BY DEF WorkerIInv, OwedSound
    <3>3. NextCopy(e, s) \in new
      BY <3>1, <3>2 DEF Subscribers
    <3>4. NextCopy(e, s) \in RowsFor(status', e, s)
      BY <1>7, <3>3 DEF RowsFor, NextCopy
    <3> QED BY <3>4
  <2> QED BY <2>1, <2>2
<1> QED BY <1>2, <1>4, <1>5, <1>7, <1>9, <1>10

\* The routes and emit().
LEMMA RouteSteps ==
    ASSUME WorkerIInv,
           \/ \E s \in Sub : Subscribe(s) \/ Unsubscribe(s)
           \/ \E e \in WebhookEvent : Emit(e)
    PROVE  WorkerIInv'
<1> USE DEF WorkerIInv
<1>0. faults \in Nat /\ Len(queue) \in Nat
  BY DEF WorkerTypeOK
<1>1. ASSUME UNCHANGED <<deliveries, inFlight, posts, raced, faults>>
      PROVE  ScheduleSound' /\ RowsSound'
  BY <1>1 DEF ScheduleSound, RowsSound, InFlight, deliveries, schedule
<1>2. ASSUME NEW s \in Sub, Subscribe(s) \/ Unsubscribe(s)
      PROVE  WorkerIInv'
  <2>1. UNCHANGED <<queue, processed, status, attempts, ready, older, inFlight, posts, raced, owed, faults>>
    BY <1>2 DEF Subscribe, Unsubscribe, events, deliveries, schedule, history
  <2>2. WorkerTypeOK'
    BY <1>2, <2>1 DEF WorkerTypeOK, Subscribe, Unsubscribe
  <2>3. QueueSound' /\ CopiesSound' /\ \A e \in WebhookEvent, r \in Sub : Copies(e, r)' = Copies(e, r)
    BY <1>0, <2>1, SameRows
  <2>4. ScheduleSound' /\ RowsSound'
    BY <1>1, <2>1 DEF deliveries, schedule
  <2>5. OwedSound'
    BY <1>2, <2>1 DEF OwedSound, Subscribe, Unsubscribe, WorkerTypeOK
  <2>6. NoSubscriberMissed'
    <3> SUFFICES ASSUME NEW e \in processed, NEW r \in Sub, <<e, r>> \in owed, sub'[r] = "active"
                 PROVE  Copies(e, r)' # {}
      BY <2>1 DEF NoSubscriberMissed
    <3>1. sub[r] # "none"
      BY DEF OwedSound
    <3>2. sub[r] = "active"
      BY <1>2, <3>1 DEF Subscribe, Unsubscribe, WorkerTypeOK
    <3>3. e \in WebhookEvent
      BY DEF WorkerTypeOK
    <3> QED BY <2>3, <3>2, <3>3 DEF NoSubscriberMissed
  <2> QED BY <2>2, <2>3, <2>4, <2>5, <2>6
<1>3. ASSUME NEW e \in WebhookEvent, Emit(e)
      PROVE  WorkerIInv'
  <2>1. UNCHANGED <<sub, processed, status, attempts, ready, older, inFlight, posts, raced, faults>>
    BY <1>3 DEF Emit, deliveries, schedule
  <2>2. e \notin processed /\ \A i \in 1..Len(queue) : queue[i] # e
    BY <1>3 DEF Emit, ToSet, WorkerTypeOK
  <2>3. queue' \in Seq(WebhookEvent) /\ Len(queue') = Len(queue) + 1
        /\ (\A i \in 1..Len(queue) : queue'[i] = queue[i]) /\ queue'[Len(queue) + 1] = e
    BY <1>3 DEF Emit, WorkerTypeOK
  <2>4. owed' = owed \cup {<<e, s>> : s \in {t \in Sub : sub[t] = "active" /\ e \in Wants[t]}}
    BY <1>3 DEF Emit
  <2>5. WorkerTypeOK'
    BY <2>1, <2>3, <2>4 DEF WorkerTypeOK
  <2>6. QueueSound'
    <3>1. \A i \in 1..Len(queue') : i \in 1..Len(queue) \/ i = Len(queue) + 1
      BY <1>0, <2>3
    <3> QED BY <2>1, <2>2, <2>3, <3>1 DEF QueueSound
  <2>7. \A f \in WebhookEvent, s \in Sub : Copies(f, s)' = Copies(f, s) /\ (Numbered(status, f, s) => Numbered(status, f, s)')
    BY <2>1 DEF Copies, Numbered, RowsFor
  <2>8. CopiesSound'
    <3> SUFFICES ASSUME NEW f \in WebhookEvent, NEW s \in Sub
                 PROVE  (/\ Numbered(status, f, s)
                         /\ Cardinality(Copies(f, s)) <=
                              IF f \in processed THEN 1 + faults
                              ELSE IF \E i \in 1..Len(queue) : queue[i] = f THEN faults ELSE 0)'
      BY DEF CopiesSound
    <3>1. /\ Numbered(status, f, s)
          /\ Cardinality(Copies(f, s)) <= IF f \in processed THEN 1 + faults
                              ELSE IF \E i \in 1..Len(queue) : queue[i] = f THEN faults ELSE 0
      BY DEF CopiesSound
    <3>2. Cardinality(Copies(f, s))' = Cardinality(Copies(f, s)) /\ Numbered(status, f, s)'
      BY <2>7, <3>1
    <3>3. Cardinality(Copies(f, s)) \in Nat
      <4>1. Copies(f, s) = RowsFor(status, f, s)
        BY DEF Copies, RowsFor
      <4> QED BY <4>1, CopiesAreFinite
    <3>4. \A i \in 1..Len(queue) : i \in 1..Len(queue')
      BY <1>0, <2>3
    <3>5. Len(queue) + 1 \in 1..Len(queue')
      BY <1>0, <2>3
    <3>6. (\E i \in 1..Len(queue) : queue[i] = f) => \E i \in 1..Len(queue') : queue'[i] = f
      BY <2>3, <3>4
    <3> QED BY <1>0, <2>1, <3>1, <3>2, <3>3, <3>6
  <2>9. ScheduleSound' /\ RowsSound'
    BY <1>1, <2>1 DEF deliveries, schedule
  <2>10. OwedSound'
    BY <2>1, <2>4 DEF OwedSound
  <2>11. NoSubscriberMissed'
    <3> SUFFICES ASSUME NEW f \in processed, NEW r \in Sub, <<f, r>> \in owed', sub[r] = "active"
                 PROVE  Copies(f, r)' # {}
      BY <2>1 DEF NoSubscriberMissed
    <3>1. f # e /\ f \in WebhookEvent
      BY <2>2 DEF WorkerTypeOK
    <3>2. <<f, r>> \in owed
      BY <2>4, <3>1
    <3> QED BY <2>7, <3>1, <3>2 DEF NoSubscriberMissed
  <2> QED BY <2>5, <2>6, <2>8, <2>9, <2>10, <2>11
<1> QED BY <1>2, <1>3

\* A stopped fan-out.
LEMMA StopStep ==
    ASSUME WorkerIInv, FanoutStops
    PROVE  WorkerIInv' /\ \A d \in Row : status[d] \in Ended => status'[d] = status[d]
<1> USE DEF WorkerIInv
<1>0. PICK n \in 0..Batch-1 : \E some \in SUBSET Subscribers(queue[n + 1]) :
        Insert(Fanout(n) \cup FanoutOf(queue[n + 1], some)) /\ Mark(n)
  BY DEF FanoutStops
<1>1. PICK some \in SUBSET Subscribers(queue[n + 1]) :
        Insert(Fanout(n) \cup FanoutOf(queue[n + 1], some)) /\ Mark(n)
  BY <1>0
<1> DEFINE new == Fanout(n) \cup FanoutOf(queue[n + 1], some)
<1>2. /\ UNCHANGED <<sub, attempts, inFlight, posts, raced, owed>>
      /\ faults' = faults + 1 /\ faults' \in 0..MaxFaults /\ faults \in Nat
  BY WebhookAssumption DEF FanoutStops, history, WorkerTypeOK
<1>3. n \in Nat /\ n + 1 \in Nat /\ n + 1 <= Len(queue) /\ n <= n + 1
  <2>1. Batch \in 0..Len(queue) /\ Len(queue) \in Nat
    BY BatchIsPending DEF WorkerTypeOK
  <2> HIDE DEF new
  <2> QED BY <1>0, <2>1
<1>4. \A d \in new : \E i \in 1..n+1, s \in Sub : d = NextCopy(queue[i], s)
  <2>1. ASSUME NEW d \in Fanout(n)
        PROVE  \E i \in 1..n+1, s \in Sub : d = NextCopy(queue[i], s)
    <3>1. PICK i \in 1..n, s \in Sub : d = NextCopy(queue[i], s)
      BY <1>3, FanoutOfQueue
    <3>2. i \in 1..n+1
      BY <1>3
    <3> QED BY <3>1, <3>2
  <2>2. ASSUME NEW d \in FanoutOf(queue[n + 1], some)
        PROVE  \E i \in 1..n+1, s \in Sub : d = NextCopy(queue[i], s)
    <3>1. PICK s \in Sub : d = NextCopy(queue[n + 1], s)
      BY <1>1 DEF FanoutOf, Subscribers
    <3>2. n + 1 \in 1..n+1
      BY <1>3
    <3> QED BY <3>1, <3>2
  <2> QED BY <2>1, <2>2
<1>5. \A i \in 1..n : \A s \in Subscribers(queue[i]) : NextCopy(queue[i], s) \in new
  BY DEF Fanout, FanoutOf
<1>6. /\ status' = [d \in Row |-> IF d \in new THEN "pending" ELSE status[d]]
      /\ ready' = ready \cup new /\ older' = older \cup (ready \X new)
  BY <1>1 DEF Insert
<1>7. /\ queue' \in Seq(WebhookEvent) /\ processed' \subseteq WebhookEvent
      /\ new \subseteq Row /\ \A d \in new : status[d] = "none"
      /\ QueueSound' /\ CopiesSound' /\ NoSubscriberMissed'
  <2> HIDE DEF new
  <2>1. \A d \in Row : status'[d] # "none" <=> status[d] # "none" \/ d \in new
    BY <1>6
  <2>2. Mark(n) /\ n + 1 \in Nat /\ faults' = faults + 1 /\ UNCHANGED <<sub, owed>>
    BY <1>1, <1>2, <1>3
  <2>3. WorkerIInv
    OBVIOUS
  <2> HIDE DEF WorkerIInv
  <2> QED BY ZenonT(40), <1>3, <1>4, <1>5, <2>1, <2>2, <2>3, FanoutStep
<1> HIDE DEF new
<1>8. WorkerTypeOK'
  BY <1>2, <1>6, <1>7 DEF WorkerTypeOK
<1>9. ScheduleSound'
  BY <1>2, <1>6, <1>7 DEF ScheduleSound, InFlight, WorkerTypeOK
<1>10. RowsSound'
  <2> SUFFICES ASSUME NEW d \in Row
               PROVE  (/\ status[d] = "none" => attempts[d] = 0 /\ d \notin raced
                       /\ status[d] = "pending" => attempts[d] < MAX_ATTEMPTS
                       /\ d \notin raced => posts[d] <= attempts[d] + faults + IF InFlight(d) THEN 1 ELSE 0)'
    BY DEF RowsSound
  <2>1. InFlight(d)' <=> InFlight(d)
    BY <1>2 DEF InFlight
  <2>2. d \notin raced => posts[d] <= attempts[d] + faults + 1 + IF InFlight(d) THEN 1 ELSE 0
    BY <1>2 DEF RowsSound, WorkerTypeOK
  <2>3. status'[d] = "none" => attempts[d] = 0 /\ d \notin raced
    BY <1>6 DEF RowsSound
  <2>4. status'[d] = "pending" => attempts[d] < MAX_ATTEMPTS
    BY <1>6, <1>7, WebhookAssumption DEF RowsSound
  <2>5. posts[d] \in Nat /\ attempts[d] \in Nat
    BY DEF WorkerTypeOK
  <2> QED BY <1>2, <2>1, <2>2, <2>3, <2>4, <2>5
<1>11. OwedSound'
  BY <1>2 DEF OwedSound
<1>12. ASSUME NEW d \in Row, status[d] \in Ended
       PROVE  status'[d] = status[d]
  BY <1>6, <1>7, <1>12 DEF Ended
<1> QED BY <1>7, <1>8, <1>9, <1>10, <1>11, <1>12

\* A tick.
LEMMA TickStep ==
    ASSUME WorkerIInv, WorkerTick
    PROVE  WorkerIInv' /\ \A d \in Row : status[d] \in Ended => status'[d] = status[d]
<1> USE DEF WorkerIInv
<1> DEFINE new == Fanout(Batch)
           line == ready \cup new
           order == older \cup (ready \X new)
<1>1. PICK due \in ListDue(line, order) :
        LET post == {d \in due : sub[d[2]] = "active"}
            refuse == due \ post
        IN  /\ \A d \in post, n \in Attempt : inFlight[d][n] < MaxInFlight
            /\ Mark(Batch)
            /\ status' = [d \in Row |-> IF d \in refuse THEN "failed"
                                        ELSE IF d \in new THEN "pending" ELSE status[d]]
            /\ Schedule(line \ refuse, order)
            /\ inFlight' = [d \in Row |-> [n \in Attempt |->
                              IF d \in post /\ n = attempts[d] + 1
                              THEN inFlight[d][n] + 1 ELSE inFlight[d][n]]]
            /\ posts' = [d \in Row |-> IF d \in post \ raced THEN posts[d] + 1 ELSE posts[d]]
            /\ raced' = raced \cup {d \in due : InFlight(d)}
            /\ UNCHANGED <<sub, attempts, owed, faults>>
  BY Zenon DEF WorkerTick
<1> DEFINE post == {d \in due : sub[d[2]] = "active"}
           refuse == due \ post
<1>2. due \subseteq line /\ post \subseteq due /\ refuse \subseteq due /\ post \cap refuse = {}
      /\ due = post \cup refuse
  BY DEF ListDue, kSubset
<1>3. Batch \in Nat /\ Batch <= Len(queue)
  BY BatchIsPending DEF WorkerTypeOK
<1>4. \A d \in new : \E i \in 1..Batch, s \in Sub : d = NextCopy(queue[i], s)
  BY <1>3, FanoutOfQueue
<1>5. \A i \in 1..Batch : \A s \in Subscribers(queue[i]) : NextCopy(queue[i], s) \in new
  BY DEF Fanout, FanoutOf
<1>6. /\ Mark(Batch) /\ UNCHANGED <<sub, attempts, owed, faults>>
      /\ raced' = raced \cup {d \in due : InFlight(d)}
  BY <1>1
<1>7. status' = [d \in Row |-> IF d \in refuse THEN "failed"
                               ELSE IF d \in new THEN "pending" ELSE status[d]]
  BY <1>1
<1>8. inFlight' = [d \in Row |-> [n \in Attempt |->
                     IF d \in post /\ n = attempts[d] + 1
                     THEN inFlight[d][n] + 1 ELSE inFlight[d][n]]]
  BY <1>1
<1>9. posts' = [d \in Row |-> IF d \in post \ raced THEN posts[d] + 1 ELSE posts[d]]
  BY <1>1
<1>10. ready' = line \ refuse /\ older' = order \cap (ready' \X ready')
  BY <1>1 DEF Schedule
<1> HIDE DEF post, refuse, new, order
<1>11. /\ queue' \in Seq(WebhookEvent) /\ processed' \subseteq WebhookEvent
       /\ new \subseteq Row /\ \A d \in new : status[d] = "none"
       /\ QueueSound' /\ CopiesSound' /\ NoSubscriberMissed'
  <2>1. ASSUME NEW d \in Row
        PROVE  status'[d] # "none" <=> status[d] # "none" \/ d \in new
    BY <1>2, <1>7 DEF ScheduleSound
  <2>2. Batch <= Batch /\ faults' = faults
    BY <1>3, <1>6
  <2> QED BY <1>3, <1>4, <1>5, <1>6, <2>1, <2>2, FanoutStep
<1>12. \A d \in due : d \in Row /\ attempts[d] < MAX_ATTEMPTS /\ (d \in ready \/ d \in new)
  BY <1>2, <1>11, WebhookAssumption DEF ScheduleSound, RowsSound, WorkerTypeOK
<1>13. WorkerTypeOK'
  <2>1. status' \in [Row -> {"none", "pending", "delivered", "failed"}]
    BY <1>7 DEF WorkerTypeOK
  <2>2. ready' \subseteq Row /\ older' \subseteq ready' \X ready'
    BY <1>10, <1>11 DEF WorkerTypeOK
  <2>3. inFlight' \in [Row -> [Attempt -> Nat]]
    <3>1. ASSUME NEW d \in Row, NEW n \in Attempt
          PROVE  inFlight[d][n] + 1 \in Nat /\ inFlight[d][n] \in Nat
      BY DEF WorkerTypeOK
    <3> QED BY <1>8, <3>1
  <2>4. posts' \in [Row -> Nat]
    BY <1>9 DEF WorkerTypeOK
  <2>5. raced' \subseteq Row
    BY <1>6, <1>12 DEF WorkerTypeOK
  <2> QED BY <1>6, <1>11, <2>1, <2>2, <2>3, <2>4, <2>5 DEF WorkerTypeOK
<1>14. ASSUME NEW d \in post
       PROVE  /\ d \in Row /\ attempts[d] + 1 \in Attempt
              /\ inFlight'[d] = [n \in Attempt |-> IF n = attempts[d] + 1 THEN inFlight[d][n] + 1 ELSE inFlight[d][n]]
              /\ InFlight(d)'
  <2>1. d \in Row /\ attempts[d] < MAX_ATTEMPTS
    BY <1>2, <1>12
  <2>2. attempts[d] + 1 \in Attempt
    BY <2>1, WebhookAssumption DEF Attempt, WorkerTypeOK
  <2>3. inFlight'[d] = [n \in Attempt |-> IF n = attempts[d] + 1 THEN inFlight[d][n] + 1 ELSE inFlight[d][n]]
    BY <1>8, <2>1
  <2>4. inFlight[d][attempts[d] + 1] \in Nat
    BY <2>1, <2>2 DEF WorkerTypeOK
  <2>5. inFlight'[d][attempts[d] + 1] > 0
    BY <2>2, <2>3, <2>4
  <2> QED BY <2>1, <2>2, <2>3, <2>5 DEF InFlight
<1>15. ASSUME NEW d \in Row, d \notin post
       PROVE  inFlight'[d] = inFlight[d] /\ (InFlight(d)' <=> InFlight(d))
  <2>1. inFlight'[d] = [n \in Attempt |-> inFlight[d][n]]
    BY <1>8, <1>15
  <2>2. inFlight[d] = [n \in Attempt |-> inFlight[d][n]]
    BY DEF WorkerTypeOK
  <2> QED BY <2>1, <2>2 DEF InFlight
<1>16. ScheduleSound'
  <2>1. ASSUME NEW d \in ready'
        PROVE  status'[d] = "pending"
    BY <1>7, <1>10, <1>11 DEF ScheduleSound, WorkerTypeOK
  <2>2. ASSUME NEW d \in Row, d \notin raced', InFlight(d)'
        PROVE  d \in ready' /\ inFlight'[d] = [n \in Attempt |-> IF n = attempts'[d] + 1 THEN 1 ELSE 0]
    <3>1. CASE d \in post
      <4>1. ~InFlight(d)
        BY <1>2, <1>6, <2>2, <3>1
      <4>2. \A n \in Attempt : inFlight[d][n] = 0
        BY <4>1 DEF InFlight, WorkerTypeOK
      <4>3. d \in ready'
        BY <1>2, <1>10, <3>1
      <4> QED BY <1>6, <1>14, <3>1, <4>2, <4>3
    <3>2. CASE d \notin post
      <4>1. InFlight(d) /\ inFlight'[d] = inFlight[d]
        BY <1>15, <2>2, <3>2
      <4>2. d \in ready /\ inFlight[d] = [n \in Attempt |-> IF n = attempts[d] + 1 THEN 1 ELSE 0]
        BY <1>6, <2>2, <4>1 DEF ScheduleSound
      <4>3. d \notin refuse
        BY <1>2, <1>6, <2>2, <4>1
      <4> QED BY <1>6, <1>10, <4>1, <4>2, <4>3
    <3> QED BY <3>1, <3>2
  <2> QED BY <2>1, <2>2 DEF ScheduleSound
<1>17. RowsSound'
  <2> SUFFICES ASSUME NEW d \in Row
               PROVE  (/\ status[d] = "none" => attempts[d] = 0 /\ d \notin raced
                       /\ status[d] = "pending" => attempts[d] < MAX_ATTEMPTS
                       /\ d \notin raced => posts[d] <= attempts[d] + faults + IF InFlight(d) THEN 1 ELSE 0)'
    BY DEF RowsSound
  <2>1. status'[d] = "none" => attempts'[d] = 0 /\ d \notin raced'
    BY <1>2, <1>6, <1>7 DEF RowsSound, ScheduleSound
  <2>2. status'[d] = "pending" => attempts'[d] < MAX_ATTEMPTS
    BY <1>6, <1>7, <1>11, WebhookAssumption DEF RowsSound
  <2>3. posts[d] \in Nat /\ attempts[d] \in Nat /\ faults \in Nat
    BY DEF WorkerTypeOK
  <2>4. ASSUME d \notin raced'
        PROVE  posts'[d] <= attempts'[d] + faults' + IF InFlight(d)' THEN 1 ELSE 0
    <3>1. d \notin raced /\ posts[d] <= attempts[d] + faults + IF InFlight(d) THEN 1 ELSE 0
      BY <1>6, <2>4 DEF RowsSound
    <3>2. CASE d \in post
      <4>1. ~InFlight(d) /\ InFlight(d)'
        BY <1>2, <1>6, <1>14, <2>4, <3>2
      <4>2. posts'[d] = posts[d] + 1
        BY <1>9, <3>1, <3>2
      <4> QED BY <1>6, <2>3, <3>1, <4>1, <4>2
    <3>3. CASE d \notin post
      <4>1. posts'[d] = posts[d] /\ (InFlight(d)' <=> InFlight(d))
        BY <1>9, <1>15, <3>3
      <4> QED BY <1>6, <2>3, <3>1, <4>1
    <3> QED BY <3>2, <3>3
  <2> QED BY <2>1, <2>2, <2>4
<1>18. OwedSound'
  BY <1>6 DEF OwedSound
<1>19. ASSUME NEW d \in Row, status[d] \in Ended
       PROVE  status'[d] = status[d]
  BY <1>2, <1>7, <1>11, <1>19 DEF ScheduleSound, Ended
<1> QED BY <1>11, <1>13, <1>16, <1>17, <1>18, <1>19

\* The answer to a post.
LEMMA WriteStep ==
    ASSUME WorkerIInv, NEW d \in Row, NEW n \in Attempt, NEW new \in {"pending", "delivered", "failed"},
           new = "pending" => n < MAX_ATTEMPTS, Write(d, n, new)
    PROVE  WorkerIInv' /\ \A r \in Row \ raced : status[r] \in Ended => status'[r] = status[r]
<1> USE DEF WorkerIInv
<1>1. /\ inFlight[d][n] > 0
      /\ inFlight' = [inFlight EXCEPT ![d][n] = inFlight[d][n] - 1]
      /\ status' = [status EXCEPT ![d] = new]
      /\ attempts' = [attempts EXCEPT ![d] = n]
      /\ ready' = ready \ {d} /\ older' = older \cap (ready' \X ready')
      /\ UNCHANGED <<sub, queue, processed, posts, raced, owed, faults>>
  BY DEF Write, Schedule, events, history
<1>2. InFlight(d) /\ n \in 0..MAX_ATTEMPTS /\ inFlight[d][n] - 1 \in Nat
  BY <1>1, WebhookAssumption DEF InFlight, Attempt, WorkerTypeOK
<1>3. status[d] # "none"
  BY <1>2 DEF ScheduleSound, RowsSound
<1>4. WorkerTypeOK'
  <2>1. status' \in [Row -> {"none", "pending", "delivered", "failed"}]
    BY <1>1 DEF WorkerTypeOK
  <2>2. attempts' \in [Row -> 0..MAX_ATTEMPTS]
    BY <1>1, <1>2 DEF WorkerTypeOK
  <2>3. inFlight' \in [Row -> [Attempt -> Nat]]
    BY <1>1, <1>2 DEF WorkerTypeOK
  <2>4. ready' \subseteq Row /\ older' \subseteq ready' \X ready'
    BY <1>1 DEF WorkerTypeOK
  <2> QED BY <1>1, <2>1, <2>2, <2>3, <2>4 DEF WorkerTypeOK
<1>5. QueueSound' /\ CopiesSound' /\ \A e \in WebhookEvent, s \in Sub : Copies(e, s)' = Copies(e, s)
  <2>1. \A r \in Row : status'[r] # "none" <=> status[r] # "none"
    BY <1>1, <1>3 DEF WorkerTypeOK
  <2>2. faults' \in Nat /\ faults' >= faults
    BY <1>1 DEF WorkerTypeOK
  <2> QED BY <1>1, <2>1, <2>2, SameRows
<1>6. ASSUME NEW r \in Row, r # d
      PROVE  /\ status'[r] = status[r] /\ attempts'[r] = attempts[r] /\ inFlight'[r] = inFlight[r]
             /\ (InFlight(r)' <=> InFlight(r)) /\ (r \in ready' <=> r \in ready)
  BY <1>1, <1>6 DEF WorkerTypeOK, InFlight
<1>7. status'[d] = new /\ attempts'[d] = n /\ d \notin ready'
  BY <1>1 DEF WorkerTypeOK
<1>8. ASSUME d \notin raced
      PROVE  /\ n = attempts[d] + 1 /\ status[d] = "pending" /\ ~InFlight(d)'
  <2>1. d \in ready /\ inFlight[d] = [k \in Attempt |-> IF k = attempts[d] + 1 THEN 1 ELSE 0]
    BY <1>2, <1>8 DEF ScheduleSound
  <2>2. n = attempts[d] + 1
    BY <1>1, <2>1
  <2>3. \A k \in Attempt : inFlight'[d][k] = 0
    BY <1>1, <2>1, <2>2 DEF WorkerTypeOK
  <2> QED BY <2>1, <2>2, <2>3 DEF InFlight, ScheduleSound
<1>9. ScheduleSound'
  <2>1. ASSUME NEW r \in ready'
        PROVE  status'[r] = "pending"
    BY <1>1, <1>6 DEF ScheduleSound, WorkerTypeOK
  <2>2. ASSUME NEW r \in Row, r \notin raced', InFlight(r)'
        PROVE  r \in ready' /\ inFlight'[r] = [k \in Attempt |-> IF k = attempts'[r] + 1 THEN 1 ELSE 0]
    <3>1. r # d
      BY <1>1, <1>8, <2>2
    <3>2. r \in ready /\ inFlight[r] = [k \in Attempt |-> IF k = attempts[r] + 1 THEN 1 ELSE 0]
      BY <1>1, <1>6, <2>2, <3>1 DEF ScheduleSound
    <3> QED BY <1>6, <3>1, <3>2
  <2> QED BY <2>1, <2>2 DEF ScheduleSound
<1>10. RowsSound'
  <2> SUFFICES ASSUME NEW r \in Row
               PROVE  (/\ status[r] = "none" => attempts[r] = 0 /\ r \notin raced
                       /\ status[r] = "pending" => attempts[r] < MAX_ATTEMPTS
                       /\ r \notin raced => posts[r] <= attempts[r] + faults + IF InFlight(r) THEN 1 ELSE 0)'
    BY DEF RowsSound
  <2>0. /\ status[r] = "none" => attempts[r] = 0 /\ r \notin raced
        /\ status[r] = "pending" => attempts[r] < MAX_ATTEMPTS
        /\ r \notin raced => posts[r] <= attempts[r] + faults + IF InFlight(r) THEN 1 ELSE 0
    BY DEF RowsSound
  <2>1. CASE r # d
    BY <1>1, <1>6, <2>0, <2>1
  <2>2. CASE r = d
    <3>1. r \notin raced => posts[r] <= n + faults
      BY <1>2, <1>8, <2>0, <2>2 DEF WorkerTypeOK
    <3>2. posts[r] \in Nat /\ n \in Nat /\ faults \in Nat
      BY <1>2, WebhookAssumption DEF WorkerTypeOK
    <3> QED BY <1>1, <1>7, <1>8, <2>2, <3>1, <3>2
  <2> QED BY <2>1, <2>2
<1>11. OwedSound'
  BY <1>1 DEF OwedSound
<1>12. NoSubscriberMissed'
  BY <1>1, <1>5 DEF NoSubscriberMissed, WorkerTypeOK
<1>13. ASSUME NEW r \in Row \ raced, status[r] \in Ended
       PROVE  status'[r] = status[r]
  BY <1>6, <1>8, <1>13 DEF Ended
<1> QED BY <1>4, <1>5, <1>9, <1>10, <1>11, <1>12, <1>13

\* The end of a backoff, or an answer.
LEMMA ProgressStep ==
    ASSUME WorkerIInv, NEW d \in Row, Progress(d)
    PROVE  WorkerIInv' /\ \A r \in Row \ raced : status[r] \in Ended => status'[r] = status[r]
<1>1. CASE BackoffEnds(d)
  <2> USE DEF WorkerIInv
  <2>1. /\ status[d] = "pending" /\ ready' = ready \cup {d} /\ older' = older \cup (ready \X {d})
        /\ UNCHANGED <<sub, queue, processed, status, attempts, inFlight, posts, raced, owed, faults>>
    BY <1>1 DEF BackoffEnds, events, history
  <2>2. WorkerTypeOK'
    BY <2>1 DEF WorkerTypeOK
  <2>3. QueueSound' /\ CopiesSound' /\ \A e \in WebhookEvent, s \in Sub : Copies(e, s)' = Copies(e, s)
    <3>1. faults' \in Nat /\ faults' >= faults
      BY <2>1 DEF WorkerTypeOK
    <3> QED BY <2>1, <3>1, SameRows
  <2>4. ScheduleSound' /\ RowsSound' /\ OwedSound'
    BY <2>1 DEF ScheduleSound, RowsSound, OwedSound, InFlight
  <2>5. NoSubscriberMissed'
    BY <2>1, <2>3 DEF NoSubscriberMissed, WorkerTypeOK
  <2> QED BY <2>1, <2>2, <2>3, <2>4, <2>5
<1>2. ASSUME NEW n \in Attempt, Settle(d, n)
      PROVE  WorkerIInv' /\ \A r \in Row \ raced : status[r] \in Ended => status'[r] = status[r]
  <2>1. CASE Delivered(d, n)
    BY <2>1, WriteStep DEF Delivered
  <2>2. CASE Refused(d, n)
    BY <2>2, WriteStep DEF Refused
  <2>3. CASE RetryOrFail(d, n)
    <3>1. CASE n >= MAX_ATTEMPTS
      BY <2>3, <3>1, WriteStep DEF RetryOrFail
    <3>2. CASE ~(n >= MAX_ATTEMPTS)
      <4>1. n < MAX_ATTEMPTS
        BY <3>2, WebhookAssumption DEF Attempt
      <4> QED BY <2>3, <3>2, <4>1, WriteStep DEF RetryOrFail
    <3> QED BY <3>1, <3>2
  <2> QED BY <1>2, <2>1, <2>2, <2>3 DEF Settle
<1> QED BY <1>1, <1>2 DEF Progress

\* A restart.
LEMMA RestartStep ==
    ASSUME WorkerIInv, Restart
    PROVE  WorkerIInv'
<1> USE DEF WorkerIInv
<1>1. /\ faults' = faults + 1 /\ faults' \in 0..MaxFaults /\ faults \in Nat
      /\ inFlight' = [d \in Row |-> Quiescent]
      /\ UNCHANGED <<sub, queue, processed, status, attempts, ready, older, posts, raced, owed>>
  BY WebhookAssumption DEF Restart, events, deliveries, schedule, history, WorkerTypeOK
<1>2. WorkerTypeOK'
  BY <1>1 DEF WorkerTypeOK, Quiescent
<1>3. QueueSound' /\ CopiesSound' /\ \A e \in WebhookEvent, s \in Sub : Copies(e, s)' = Copies(e, s)
  <2>1. faults' \in Nat /\ faults' >= faults
    BY <1>1
  <2> QED BY <1>1, <2>1, SameRows
<1>4. \A d \in Row : ~InFlight(d)'
  BY <1>1 DEF InFlight, Quiescent
<1>5. ScheduleSound'
  BY <1>1, <1>4 DEF ScheduleSound
<1>6. RowsSound'
  <2> SUFFICES ASSUME NEW d \in Row
               PROVE  (/\ status[d] = "none" => attempts[d] = 0 /\ d \notin raced
                       /\ status[d] = "pending" => attempts[d] < MAX_ATTEMPTS
                       /\ d \notin raced => posts[d] <= attempts[d] + faults + IF InFlight(d) THEN 1 ELSE 0)'
    BY DEF RowsSound
  <2>0. posts[d] \in Nat /\ attempts[d] \in Nat
    BY DEF WorkerTypeOK
  <2>1. d \notin raced => posts[d] <= attempts[d] + faults + 1
    <3>1. d \notin raced => posts[d] <= attempts[d] + faults + IF InFlight(d) THEN 1 ELSE 0
      BY DEF RowsSound
    <3> QED BY <1>1, <2>0, <3>1
  <2>3. /\ status'[d] = "none" => attempts'[d] = 0 /\ d \notin raced'
        /\ status'[d] = "pending" => attempts'[d] < MAX_ATTEMPTS
    BY <1>1 DEF RowsSound
  <2> QED BY <1>1, <1>4, <2>0, <2>1, <2>3
<1>7. OwedSound' /\ NoSubscriberMissed'
  BY <1>1, <1>3 DEF OwedSound, NoSubscriberMissed, WorkerTypeOK
<1> QED BY <1>2, <1>3, <1>5, <1>6, <1>7

\* An answer that the database refuses.
LEMMA RefusedWriteStep ==
    ASSUME WorkerIInv, NEW d \in Row, NEW n \in Attempt, WriteRefused(d, n)
    PROVE  WorkerIInv'
<1> USE DEF WorkerIInv
<1>1. /\ faults' = faults + 1 /\ faults' \in 0..MaxFaults /\ faults \in Nat
      /\ inFlight[d][n] > 0 /\ inFlight' = [inFlight EXCEPT ![d][n] = @ - 1]
      /\ UNCHANGED <<sub, queue, processed, status, attempts, ready, older, posts, raced, owed>>
  BY WebhookAssumption DEF WriteRefused, events, deliveries, schedule, history, WorkerTypeOK
<1>2. inFlight' \in [Row -> [Attempt -> Nat]]
  <2>1. inFlight[d] \in [Attempt -> Nat] /\ inFlight[d][n] - 1 \in Nat
    BY <1>1 DEF WorkerTypeOK
  <2> QED BY <1>1, <2>1 DEF WorkerTypeOK
<1>3. WorkerTypeOK'
  BY <1>1, <1>2 DEF WorkerTypeOK
<1>4. QueueSound' /\ CopiesSound' /\ \A e \in WebhookEvent, s \in Sub : Copies(e, s)' = Copies(e, s)
  <2>1. faults' \in Nat /\ faults' >= faults
    BY <1>1
  <2> QED BY <1>1, <2>1, SameRows
<1>5. ASSUME NEW r \in Row, r # d
      PROVE  inFlight'[r] = inFlight[r] /\ (InFlight(r)' <=> InFlight(r))
  BY <1>1, <1>5 DEF WorkerTypeOK, InFlight
<1>6. ASSUME d \notin raced
      PROVE  ~InFlight(d)'
  <2>1. InFlight(d)
    BY <1>1 DEF InFlight
  <2>2. inFlight[d] = [k \in Attempt |-> IF k = attempts[d] + 1 THEN 1 ELSE 0]
    BY <1>6, <2>1 DEF ScheduleSound
  <2>3. \A k \in Attempt : inFlight'[d][k] = 0
    BY <1>1, <2>2 DEF WorkerTypeOK
  <2> QED BY <2>3 DEF InFlight
<1>7. ScheduleSound'
  BY <1>1, <1>5, <1>6 DEF ScheduleSound
<1>8. RowsSound'
  <2> SUFFICES ASSUME NEW r \in Row
               PROVE  (/\ status[r] = "none" => attempts[r] = 0 /\ r \notin raced
                       /\ status[r] = "pending" => attempts[r] < MAX_ATTEMPTS
                       /\ r \notin raced => posts[r] <= attempts[r] + faults + IF InFlight(r) THEN 1 ELSE 0)'
    BY DEF RowsSound
  <2>0. posts[r] \in Nat /\ attempts[r] \in Nat
    BY DEF WorkerTypeOK
  <2>1. /\ status[r] = "none" => attempts[r] = 0 /\ r \notin raced
        /\ status[r] = "pending" => attempts[r] < MAX_ATTEMPTS
        /\ r \notin raced => posts[r] <= attempts[r] + faults + IF InFlight(r) THEN 1 ELSE 0
    BY DEF RowsSound
  <2>2. CASE r # d
    BY <1>1, <1>5, <2>0, <2>1, <2>2
  <2>3. CASE r = d
    BY <1>1, <1>6, <2>0, <2>1, <2>3
  <2> QED BY <2>2, <2>3
<1>9. OwedSound' /\ NoSubscriberMissed'
  BY <1>1, <1>4 DEF OwedSound, NoSubscriberMissed, WorkerTypeOK
<1> QED BY <1>3, <1>4, <1>7, <1>8, <1>9

-----------------------------------------------------------------------------
(* The theorems *)

\* The invariant holds at first.
LEMMA WorkerStart == WorkerInit => WorkerIInv
<1> SUFFICES ASSUME WorkerInit PROVE WorkerIInv
  OBVIOUS
<1> USE DEF WorkerInit
<1>1. WorkerTypeOK
  BY WebhookAssumption DEF WorkerTypeOK, Quiescent
<1>2. QueueSound /\ OwedSound /\ NoSubscriberMissed
  BY DEF QueueSound, OwedSound, NoSubscriberMissed
<1>3. CopiesSound
  <2> SUFFICES ASSUME NEW e \in WebhookEvent, NEW s \in Sub
               PROVE  Numbered(status, e, s) /\ Cardinality(Copies(e, s)) = 0
    BY DEF CopiesSound
  <2>1. Copies(e, s) = {} /\ RowsFor(status, e, s) = {}
    BY DEF Copies, RowsFor
  <2>2. Cardinality({}) = 0
    BY FS_EmptySet
  <2>3. \A c \in Copy : status[<<e, s, c>>] = "none" /\ ~(c <= 0)
    BY WebhookAssumption DEF Copy, Row
  <2> QED BY <2>1, <2>2, <2>3 DEF Numbered
<1>4. ScheduleSound
  BY DEF ScheduleSound, InFlight, Quiescent
<1>5. RowsSound
  BY WebhookAssumption DEF RowsSound, InFlight, Quiescent
<1> QED BY <1>1, <1>2, <1>3, <1>4, <1>5 DEF WorkerIInv

\* Every step keeps the invariant, and the outcome of every row that did not race.
LEMMA WorkerStep ==
    ASSUME WorkerIInv, [WorkerNext]_workerVars
    PROVE  WorkerIInv' /\ \A d \in Row \ raced : status[d] \in Ended => status'[d] = status[d]
<1>1. CASE (\E s \in Sub : Subscribe(s) \/ Unsubscribe(s)) \/ \E e \in WebhookEvent : Emit(e)
  <2>1. status' = status
    BY <1>1 DEF Subscribe, Unsubscribe, Emit, deliveries
  <2> QED BY <1>1, <2>1, RouteSteps
<1>2. CASE FanoutStops
  BY <1>2, StopStep
<1>3. CASE WorkerTick
  BY <1>3, TickStep
<1>4. CASE Restart
  <2>1. status' = status
    BY <1>4 DEF Restart, deliveries
  <2> QED BY <1>4, <2>1, RestartStep
<1>5. CASE \E d \in Row : Progress(d)
  BY <1>5, ProgressStep
<1>6. CASE UNCHANGED workerVars
  <2>1. UNCHANGED <<sub, queue, processed, status, attempts, ready, older, inFlight, posts, raced, owed, faults>>
    BY <1>6 DEF workerVars, events, deliveries, schedule, history
  <2>2. WorkerTypeOK' /\ faults' \in Nat /\ faults' >= faults
    BY <2>1 DEF WorkerIInv, WorkerTypeOK
  <2>3. QueueSound' /\ CopiesSound' /\ \A e \in WebhookEvent, s \in Sub : Copies(e, s)' = Copies(e, s)
    BY <2>1, <2>2, SameRows
  <2>4. ScheduleSound' /\ RowsSound' /\ OwedSound'
    BY <2>1 DEF WorkerIInv, ScheduleSound, RowsSound, OwedSound, InFlight
  <2>5. NoSubscriberMissed'
    BY <2>1, <2>3 DEF WorkerIInv, WorkerTypeOK, NoSubscriberMissed
  <2> QED BY <2>1, <2>2, <2>3, <2>4, <2>5 DEF WorkerIInv
<1>7. CASE \E d \in Row, n \in Attempt : WriteRefused(d, n)
  <2>1. status' = status
    BY <1>7 DEF WriteRefused, deliveries
  <2> QED BY <1>7, <2>1, RefusedWriteStep
<1> QED BY <1>1, <1>2, <1>3, <1>4, <1>5, <1>6, <1>7 DEF WorkerNext

\* The invariant implies what the worker promises.
LEMMA WorkerConclusion == WorkerIInv => WorkerInv
<1> SUFFICES ASSUME WorkerIInv PROVE WorkerInv
  OBVIOUS
<1> USE DEF WorkerIInv
<1>0. faults \in Nat
  BY DEF WorkerTypeOK
<1>1. OneRowEach
  <2> SUFFICES ASSUME NEW e \in WebhookEvent, NEW s \in Sub
               PROVE  Cardinality(Copies(e, s)) <= 1 + faults
    BY DEF OneRowEach
  <2>1. Copies(e, s) = RowsFor(status, e, s)
    BY DEF Copies, RowsFor
  <2>2. Cardinality(Copies(e, s)) \in Nat
    BY <2>1, CopiesAreFinite
  <2>3. Cardinality(Copies(e, s)) <= IF e \in processed THEN 1 + faults
                                     ELSE IF \E i \in 1..Len(queue) : queue[i] = e THEN faults ELSE 0
    BY DEF CopiesSound
  <2> QED BY <1>0, <2>2, <2>3
<1>2. AttemptsBounded
  <2> SUFFICES ASSUME NEW d \in Row \ raced
               PROVE  posts[d] <= MAX_ATTEMPTS + faults
    BY DEF AttemptsBounded
  <2>1. posts[d] \in Nat /\ attempts[d] \in 0..MAX_ATTEMPTS
    BY DEF WorkerTypeOK
  <2>2. posts[d] <= attempts[d] + faults + IF InFlight(d) THEN 1 ELSE 0
    BY DEF RowsSound
  <2>3. InFlight(d) => attempts[d] < MAX_ATTEMPTS
    BY DEF ScheduleSound, RowsSound
  <2> QED BY <1>0, <2>1, <2>2, <2>3, WebhookAssumption
<1> QED BY <1>1, <1>2 DEF WorkerInv

\* The invariant holds in every state.
LEMMA WorkerInductive == WorkerSpec => []WorkerIInv
<1>1. WorkerIInv /\ [WorkerNext]_workerVars => WorkerIInv'
  BY WorkerStep
<1> QED BY WorkerStart, <1>1, PTL DEF WorkerSpec

\* Between any two steps of the worker a row that did not race is in flight at
\* most once, as the attempt it is due for, is posted at most MAX_ATTEMPTS times
\* and once more for each restart, and has at most one copy for each stopped
\* fan-out, whatever the limits and the number of events and subscribers.
THEOREM WorkerInvariant == WorkerSpec => []WorkerInv
  BY WorkerInductive, WorkerConclusion, PTL

\* fanoutPendingEvents marks an event after its rows: whoever was subscribed when
\* the event was emitted and still is has a row once the event is processed,
\* wherever fan-outs stopped.
THEOREM NobodyIsMissed == WorkerSpec => []NoSubscriberMissed
<1>1. WorkerIInv => NoSubscriberMissed
  BY DEF WorkerIInv
<1> QED BY <1>1, WorkerInductive, PTL

\* No step changes the outcome of a row whose posts never overlapped.
THEOREM OutcomesAreFinal == WorkerSpec => OutcomeIsFinal
<1>1. WorkerIInv /\ [WorkerNext]_workerVars
      => [\A d \in Row \ raced :
             status[d] \in Ended => status'[d] \in {status[d], "none"}]_workerVars
  BY WorkerStep
<1> QED BY <1>1, WorkerInductive, PTL DEF WorkerSpec, OutcomeIsFinal

==============================================================================
