--------------------------- MODULE WebhookDelivery ---------------------------
(***************************************************************************)
(* The webhook worker (services/webhooks.ts), the subscription routes      *)
(* (routes/webhooks.ts) and the three webhook tables.                      *)
(*                                                                         *)
(* A tick of the worker fans the pending events out into delivery rows and *)
(* posts the rows that are due, all without an await; each post is then    *)
(* settled on its own.  The timer starts a tick whether or not the posts   *)
(* of the last one are settled, so a row may be posted while an earlier    *)
(* post of it is in flight, and either of them writes the row.             *)
(*                                                                         *)
(* Time is left out but for its order: `ready` holds the pending rows      *)
(* whose next_attempt_at has come, `older` orders them by it.  The rows of *)
(* one fan-out share one next_attempt_at, so `older` is a partial order.   *)
(***************************************************************************)
EXTENDS Naturals, Sequences, FiniteSets, FiniteSetsExt, SequencesExt

CONSTANTS
    WebhookEvent,   \* rows of webhook_events
    Sub,            \* the (wallet, url) pairs that may subscribe
    Wants,          \* Wants[s]: the events of its wallet that pass its filter
    MAX_ATTEMPTS,
    FanoutLimit,    \* events of one fan-out (100)
    DueLimit,       \* rows of one delivery pass (50)
    MaxInFlight,    \* bound on the posts of a row in flight together as the same
                    \* attempt: how many ticks a response can take
    MaxFaults       \* bound on restarts, on fan-outs stopped half-way by a database
                    \* error or a restart, and on answers that the database refuses

ASSUME WebhookAssumption ==
    /\ Wants \in [Sub -> SUBSET WebhookEvent]
    /\ MAX_ATTEMPTS \in Nat \ {0} /\ FanoutLimit \in Nat \ {0} /\ DueLimit \in Nat \ {0}
    /\ MaxInFlight \in Nat \ {0} /\ MaxFaults \in Nat

\* A delivery row, with the copies that a repeated fan-out inserts.
Row == WebhookEvent \X Sub \X (1..MaxFaults + 1)
Attempt == 1..MAX_ATTEMPTS

VARIABLES
    sub,        \* webhook_subscriptions: "none", "active" or "deleted"
    queue,      \* webhook_events with processed_at NULL, by id
    processed,  \* those with processed_at set
    status,     \* webhook_deliveries: "none" (no such row), "pending",
    attempts,   \* "delivered" or "failed", and the attempts column
    ready,      \* pending rows that are due
    older,      \* <<r, d>>: both are due, and r has been for longer than d
    inFlight,   \* inFlight[d][n]: posts in flight of row d as attempt n
    posts,      \* history: how often row d was posted until it raced
    raced,      \* history: rows taken up again while a post was in flight
    owed,       \* history: <<e, s>> such that s was active when e was emitted
    faults

events == <<queue, processed>>
schedule == <<ready, older>>
deliveries == <<status, attempts, schedule>>
history == <<posts, raced, owed>>
workerVars == <<sub, events, deliveries, inFlight, history, faults>>

Quiescent == [n \in Attempt |-> 0]

WorkerInit ==
    /\ sub = [s \in Sub |-> "none"]
    /\ queue = <<>> /\ processed = {}
    /\ status = [d \in Row |-> "none"] /\ attempts = [d \in Row |-> 0]
    /\ ready = {} /\ older = {}
    /\ inFlight = [d \in Row |-> Quiescent]
    /\ posts = [d \in Row |-> 0] /\ raced = {} /\ owed = {}
    /\ faults = 0

-----------------------------------------------------------------------------
(* The routes and emit() *)

\* POST inserts the row; the pair is UNIQUE, so a deleted one cannot return.
Subscribe(s) ==
    /\ sub[s] = "none"
    /\ sub' = [sub EXCEPT ![s] = "active"]
    /\ UNCHANGED <<events, deliveries, inFlight, history, faults>>

\* DELETE deactivates the row.
Unsubscribe(s) ==
    /\ sub[s] = "active"
    /\ sub' = [sub EXCEPT ![s] = "deleted"]
    /\ UNCHANGED <<events, deliveries, inFlight, history, faults>>

Emit(e) ==
    /\ e \notin processed \cup ToSet(queue)
    /\ queue' = Append(queue, e)
    /\ owed' = owed \cup {<<e, s>> : s \in {t \in Sub : sub[t] = "active" /\ e \in Wants[t]}}
    /\ UNCHANGED <<sub, processed, deliveries, inFlight, posts, raced, faults>>

-----------------------------------------------------------------------------
(* fanoutPendingEvents *)

Copies(e, s) == {d \in Row : d[1] = e /\ d[2] = s /\ status[d] # "none"}

NextCopy(e, s) == <<e, s, Cardinality(Copies(e, s)) + 1>>

Subscribers(e) == {s \in Sub : sub[s] = "active" /\ e \in Wants[s]}

\* The rows that the fan-out of event e inserts for the subscribers in S.
FanoutOf(e, S) == {NextCopy(e, s) : s \in S}

\* The rows of the first n pending events.
Fanout(n) == UNION {FanoutOf(queue[i], Subscribers(queue[i])) : i \in 1..n}

Batch == Min({Len(queue), FanoutLimit})

\* The rows in new are pending and due from now on.
Insert(new) ==
    /\ status' = [d \in Row |-> IF d \in new THEN "pending" ELSE status[d]]
    /\ ready' = ready \cup new
    /\ older' = older \cup (ready \X new)

\* The first n pending events are marked.
Mark(n) ==
    /\ queue' = SubSeq(queue, n + 1, Len(queue))
    /\ processed' = processed \cup {queue[i] : i \in 1..n}

\* Mutant: the event is marked before its rows are inserted.
FanoutStopsMarked ==
    /\ faults < MaxFaults
    /\ faults' = faults + 1
    /\ \E n \in 0..Batch-1 : \E some \in SUBSET Subscribers(queue[n + 1]) :
          Insert(Fanout(n) \cup FanoutOf(queue[n + 1], some)) /\ Mark(n + 1)
    /\ UNCHANGED <<sub, attempts, inFlight, history>>

\* The fan-out stops between two of its writes: some events are done, the next
\* one has some of its rows (which ones, the ids decide that the model leaves
\* out) and is still pending.
FanoutStops ==
    /\ faults < MaxFaults
    /\ faults' = faults + 1
    /\ \E n \in 0..Batch-1 : \E some \in SUBSET Subscribers(queue[n + 1]) :
          Insert(Fanout(n) \cup FanoutOf(queue[n + 1], some)) /\ Mark(n)
    /\ UNCHANGED <<sub, attempts, inFlight, history>>

-----------------------------------------------------------------------------
(* deliverDue *)

InFlight(d) == \E n \in Attempt : inFlight[d][n] > 0

\* The schedule of the rows in rows, which the relation order ranks.
Schedule(rows, order) ==
    /\ ready' = rows
    /\ older' = order \cap (rows \X rows)

\* Mutant: ORDER BY next_attempt_at DESC.
ListNewest(rows, order) ==
    {due \in kSubset(Min({Cardinality(rows), DueLimit}), rows) :
        \A d \in due, r \in rows \ due : <<d, r>> \notin order}

\* Mutant: no ORDER BY.
ListAny(rows, order) == kSubset(Min({Cardinality(rows), DueLimit}), rows)

\* listDueWebhookDeliveries: the rows that have been due for longest.  Rows that
\* are due since the same time come in any order.
ListDue(rows, order) ==
    {due \in kSubset(Min({Cardinality(rows), DueLimit}), rows) :
        \A d \in due, r \in rows \ due : <<r, d>> \notin order}

\* The part of a tick that runs without an await: fan out, list what is due,
\* fail the rows of deleted subscriptions and post the others.  A row stays
\* pending and due until a post of it settles.
WorkerTick ==
    LET new == Fanout(Batch)
        line == ready \cup new
        order == older \cup (ready \X new)
    IN  \E due \in ListDue(line, order) :
        LET post == {d \in due : sub[d[2]] = "active"}
            refuse == due \ post
        IN  /\ \A d \in post, n \in Attempt : inFlight[d][n] < MaxInFlight
            /\ Mark(Batch)
            /\ status' = [d \in Row |-> IF d \in refuse THEN "failed"
                                        ELSE IF d \in new THEN "pending" ELSE status[d]]
            /\ Schedule(line \ refuse, order)
            /\ inFlight' = [d \in Row |-> [n \in Attempt |->
                              IF d \in post /\ n = attempts[d] + 1
                              THEN inFlight[d][n] + 1 ELSE inFlight[d][n]]]
            /\ posts' = [d \in Row |-> IF d \in post \ raced THEN posts[d] + 1 ELSE posts[d]]
            /\ raced' = raced \cup {d \in due : InFlight(d)}
            /\ UNCHANGED <<sub, attempts, owed, faults>>

\* Mutant: listDueWebhookDeliveries does not look at the status.
WriteUnfiltered(d, n, new) ==
    /\ inFlight[d][n] > 0
    /\ inFlight' = [inFlight EXCEPT ![d][n] = @ - 1]
    /\ status' = [status EXCEPT ![d] = new]
    /\ attempts' = [attempts EXCEPT ![d] = n]
    /\ UNCHANGED <<sub, events, schedule, history, faults>>

\* The response to a post of row d as attempt n writes the row, whatever the
\* row says by now.
Write(d, n, new) ==
    /\ inFlight[d][n] > 0
    /\ inFlight' = [inFlight EXCEPT ![d][n] = @ - 1]
    /\ status' = [status EXCEPT ![d] = new]
    /\ attempts' = [attempts EXCEPT ![d] = n]
    /\ Schedule(ready \ {d}, older)
    /\ UNCHANGED <<sub, events, history, faults>>

\* A 2xx and its body; a 4xx and its body.
Delivered(d, n) == Write(d, n, "delivered")
Refused(d, n) == Write(d, n, "failed")

\* Mutants: one attempt too many; the attempts column is not written.
RetryOnceMore(d, n) == Write(d, n, IF n > MAX_ATTEMPTS THEN "failed" ELSE "pending")
RetryUncounted(d, n) ==
    /\ inFlight[d][n] > 0
    /\ inFlight' = [inFlight EXCEPT ![d][n] = @ - 1]
    /\ status' = [status EXCEPT ![d] = "pending"]
    /\ Schedule(ready \ {d}, older)
    /\ UNCHANGED <<sub, events, attempts, history, faults>>

\* scheduleRetryOrFail: another status, a network error, a timeout, a body that
\* cannot be read, or a database error as the answer was to be written.
RetryOrFail(d, n) == Write(d, n, IF n >= MAX_ATTEMPTS THEN "failed" ELSE "pending")

\* The database refuses scheduleRetryOrFail too: the row is left as it is.
WriteRefused(d, n) ==
    /\ faults < MaxFaults
    /\ faults' = faults + 1
    /\ inFlight[d][n] > 0
    /\ inFlight' = [inFlight EXCEPT ![d][n] = @ - 1]
    /\ UNCHANGED <<sub, events, deliveries, history>>

\* The backoff of a pending row is over.
BackoffEnds(d) ==
    /\ status[d] = "pending" /\ d \notin ready
    /\ ready' = ready \cup {d}
    /\ older' = older \cup (ready \X {d})
    /\ UNCHANGED <<sub, events, status, attempts, inFlight, history, faults>>

\* The process restarts: the posts in flight are forgotten, the rows stay.
Restart ==
    /\ faults < MaxFaults
    /\ faults' = faults + 1
    /\ inFlight' = [d \in Row |-> Quiescent]
    /\ UNCHANGED <<sub, events, deliveries, history>>

Settle(d, n) == Delivered(d, n) \/ Refused(d, n) \/ RetryOrFail(d, n)

Progress(d) == BackoffEnds(d) \/ \E n \in Attempt : Settle(d, n)

WorkerNext ==
    \/ \E s \in Sub : Subscribe(s) \/ Unsubscribe(s)
    \/ \E e \in WebhookEvent : Emit(e)
    \/ FanoutStops \/ WorkerTick \/ Restart
    \/ \E d \in Row : Progress(d)
    \/ \E d \in Row, n \in Attempt : WriteRefused(d, n)

WorkerSpec == WorkerInit /\ [][WorkerNext]_workerVars

\* The timer goes on, backoffs end, and every post is answered or times out.
WorkerFairness ==
    /\ WF_workerVars(WorkerTick)
    /\ \A d \in Row : WF_workerVars(Progress(d))

FairWorkerSpec == WorkerSpec /\ WorkerFairness

-----------------------------------------------------------------------------
(* Properties *)

WorkerTypeOK ==
    /\ sub \in [Sub -> {"none", "active", "deleted"}]
    /\ queue \in Seq(WebhookEvent) /\ processed \subseteq WebhookEvent
    /\ status \in [Row -> {"none", "pending", "delivered", "failed"}]
    /\ attempts \in [Row -> 0..MAX_ATTEMPTS]
    /\ ready \subseteq Row /\ older \subseteq ready \X ready
    /\ inFlight \in [Row -> [Attempt -> Nat]]
    /\ posts \in [Row -> Nat] /\ raced \subseteq Row /\ owed \subseteq WebhookEvent \X Sub
    /\ faults \in 0..MaxFaults

Ended == {"delivered", "failed"}

\* The rows of the schedule are pending, and a row that did not race is in
\* flight once, as the attempt that it is due for.
ScheduleSound ==
    /\ \A d \in ready : status[d] = "pending"
    /\ \A d \in Row \ raced : InFlight(d) =>
          d \in ready /\ inFlight[d] = [n \in Attempt |-> IF n = attempts[d] + 1 THEN 1 ELSE 0]

\* A subscriber that was there when an event was emitted, and still is, has a
\* row for it once the event is processed, wherever a fan-out stopped.
NoSubscriberMissed ==
    \A e \in processed : \A s \in Sub :
        <<e, s>> \in owed /\ sub[s] = "active" => Copies(e, s) # {}

\* A subscriber has one row for an event, and one more for each fan-out that
\* stopped half-way.
OneRowEach == \A e \in WebhookEvent, s \in Sub : Cardinality(Copies(e, s)) <= 1 + faults

\* "or fail after MAX_ATTEMPTS" (webhooks.ts:85): a row whose posts never
\* overlapped is posted at most that often, and once more for each restart or
\* answer that could not be written.
AttemptsBounded == \A d \in Row \ raced : posts[d] <= MAX_ATTEMPTS + faults

\* What the worker relies on between two ticks.
WorkerInv == WorkerTypeOK /\ ScheduleSound /\ OneRowEach /\ AttemptsBounded

\* The outcome of a row whose posts never overlapped is final.  (A late post of
\* a raced row overwrites it: see the README.)  A row that is gone has none: in
\* the model the name of an event that is over may stand for a later event.
OutcomeIsFinal ==
    [][\A d \in Row \ raced :
          status[d] \in Ended => status'[d] \in {status[d], "none"}]_workerVars

\* Every subscriber that was there for an event gets a row for it, or leaves.
EveryoneIsPlanned ==
    \A e \in WebhookEvent, s \in Sub : <<e, s>> \in owed ~> sub[s] = "deleted" \/ Copies(e, s) # {}

\* Every single row comes to its end, though ticks are limited, posts overlap
\* and later events keep coming: what has been due for longest is served first.
EveryRowEnds == \A d \in Row : status[d] = "pending" ~> status[d] \in Ended

EveryoneIsServed == EveryoneIsPlanned /\ EveryRowEnds
==============================================================================
