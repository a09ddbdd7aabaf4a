# Lumina API in TLA+

TLA+ modules, TLC configurations and TLAPS proofs kept beside the Lumina API:
an Express server (`src/src`) in front of the Lumina insurance contracts, a
Ponder indexer (`src/indexer`) and their supervisor (`src/scripts`). Paths below
are relative to the repository; `services/x.ts` stands for
`src/services/x.ts`.

The API is one JavaScript process over one SQLite file. Its statements between
two awaits are atomic; everything hard about it happens at the awaits (the
node, the database of the indexer, the webhook receivers), at the timers that
fire whether or not the last tick is over, and at the restarts (`server.ts:22`:
ten seconds after SIGTERM the process exits, whatever is in flight).

## 1. Inventory

| Component | State | Operations | Talks to | What is hard | What makes it correct |
|---|---|---|---|---|---|
| Relayer lock (`utils/lock.ts`) | `inflightLocks`: a promise per key | `withLock` | its callers | all awaiters resume at once, newcomers run between them | one `fn` at a time, no lost wake-up, waiting callers in order |
| Relayer wallet (`utils/ethers.ts`, `services/policies.ts`, `routes/faucet.ts`) | one private key; the NonceManager's count; the node's pool | purchase (sign, send, wait), faucet mint, faucet ETH | lock, node, chain | two nonce views of one key, counted sends that fail, lost answers, replacement, restart with transactions pending | nothing takes effect twice, no answer without its effect, no gap in the nonces |
| Purchase route (`routes/policies.ts`, `db/database.ts`) | tables `policies`, `idempotency` | POST /policies, the sweep at boot | relayer | an `Idempotency-Key` read before an await and stored after it, errors between the two rows | a replay is a genuine receipt; records never run ahead of the chain |
| Faucet (`routes/faucet.ts`, `utils/faucetDb.ts`) | table `faucet_claims`, ETH balance | POST /faucet/claim | lock, relayer | limits checked long before the row is written | cooldown, daily cap, a row only for a paid claim |
| Chain-events emitter (`services/chainEvents.ts`) | kv cursors of six streams | poll, emit | indexer's tables, `webhook_events` | overlapping polls, a cursor that moves back, restart between rows and cursor | no event skipped, history silent, few duplicates |
| Webhook worker (`services/webhooks.ts`, `routes/webhooks.ts`) | `webhook_subscriptions`, `webhook_events`, `webhook_deliveries` | subscribe, unsubscribe, emit, fan-out, deliver, retry | receivers | interrupted fan-out, overlapping posts of one row, unsubscribing meanwhile | nobody missed, attempts bounded, outcome final, everyone served |
| Marketplace and redemption verifiers (`routes/marketplace.ts`, `routes/redeem.ts` and their services) | tables `listings`, `purchases`, `redemptions` | POST /list, /buy, /redeem | node | look-up, awaited receipt, insert; a listing row read before the await | rows are genuine events, registered once; a truthful sale is never refused for a race |
| Indexer handlers and reads (`src/indexer/src/index.ts`, `routes/indexer.ts`, `utils/indexerDb.ts`) | Ponder's tables and checkpoint | one handler per contract event; sums, dashboards, health | chain, supervisor, emitter | starts in the middle of the history, handles events again, is rebuilt from nothing at any time, is read by several queries per answer | the tables say what the chain said at one moment and agree with the API's own; the parts of an answer belong together |
| Indexer supervisor (`src/scripts/indexer-supervisor.mjs`) | child process, flag of the ownership error, watchdog clock | spawn, heal, check, signal | indexer, Postgres, node | drops a schema for good; checks that overlap and read at different times; a second deployment on the same schema | drops its own build's index only after a MigrationError, kills only a child that stalls, catches up again and again |
| Keys, onboarding, authentication (`services/keys.ts`, `routes/keys.ts`, `routes/agent.ts`, `middlewares/auth.ts`) | `agents`, `api_keys` | create, revoke, authenticate, onboard | all routes | addresses spelled in many ways, a key that revokes itself or another | one agent and few active keys per wallet, only the wallet and the admin revoke |
| Request admission (`app.ts`, `middlewares/rateLimit.ts`, the sandbox's limiter) | limiter counters, in memory | the limiters a request passes | all routes | one limiter mounted on several paths, counts per IP and per agent, a restart forgets them | what a wallet and an IP get through in a window's length is bounded |
| Read caches (`utils/cache.ts`, `services/policies.ts`, `services/bonds.ts`) | TTL entries | `makeCache`; policies and bonds of a wallet | node, indexer's tables | fetches that race, a slow one stored last; failed calls cached like answers | a wrong status lasts a TTL and can be explained |
| Process lifecycle, oracle and health, feedback agent | none of their own, or configuration | | | | see PROJECT.json for why they are not modelled |

The hazards found in each part, at their lines, are listed in
`PROJECT.json` under `hazards`, with the properties that watch them.

## 2. Modules

| Module | Models | Composes |
|---|---|---|
| `Mutex` | the promise of a lock: one caller inside | |
| `WithLock` | `withLock` between microtasks | implements `Mutex` |
| `RelayService` | the promise of the relayer to its routes: at most one effect per request, final answers, no answer without the effect | |
| `RelayerTx` | both signers, the node's pool, the chain | uses `Mutex` for the lock, implements `RelayService` |
| `PurchaseRoute` | POST /policies and its two tables | uses `RelayService` for the relayer |
| `Faucet` | POST /faucet/claim and its table | uses `Mutex` for the lock |
| `Supervisor` | the supervisor's loop, heal and watchdog, and the child as far as it relies on it | |
| `Ledger` | the handlers of bonds, burns, policies and triggers, and the public reads of their tables | |
| `ChainEvents` | one stream of the emitter | assumes of the indexer what `Supervisor` shows |
| `WebhookDelivery` | subscriptions, fan-out, delivery | |
| `Marketplace` | the contracts, the three verifier routes, the indexer's tables | |
| `WalletViews` | the cached by-wallet reads of policies and bonds | |
| `Access` | limiters, authentication, the routes that issue and revoke keys, the sandbox's limiter | |
| `MCReads` | the two kinds of read endpoints | extends `WalletViews`, instantiates `Ledger` |
| other `MC...` | instances for TLC: symmetry, model values | extend the module |
| `..._proofs` | theorems and their proofs | extend the module and TLAPS |

`WithLock` is proved to implement `Mutex`, and only then do `RelayerTx` and
`Faucet` use `Mutex`; `RelayerTx` is proved to implement `RelayService`, and
only then does `PurchaseRoute` use it. So each layer is explored with the
layer below in its shortest form.

### How state and actions correspond to the code

*WithLock.* A promise is named by the call that made it. `Call` is the first
run of `withLock`, `Resume` the continuation of an awaiter, taken from the head
of the microtask queue `jobs`, `Settle` the end of `fn` with the `finally`
block. `TestAndSet` is the `while` loop: it runs without interruption to the
next await or into `fn`. A new caller may call between two microtasks, for its
own continuation is a microtask as well, so it can be let in before callers
that have been resumed; `NoOvertaking` therefore orders the callers that wait,
not the newcomers. `Release` empties the queue of the holder's awaiters into
`jobs`; when a holder settles, `jobs` is empty of older resumptions, as each of
them has either taken the lock or gone to wait for the new holder.

*RelayerTx.* A request goes `new`, `waiting`, `sending`, `signed`, `confirming`
and to an answer. `Acquire` takes the lock, `Send` is the choice of the nonce,
`Broadcast` the node's acceptance, `Confirm` the return of `wait()`. The
NonceManager is `base` (what it read once) and `delta` (the sends it counted,
failed ones too); the faucet asks the node each time. `burned` is a history
variable: the free nonces that a failed send has taken. Reading balances,
allowances and pause flags is one admission test against `admits`, which
`AdmissionChanges` moves under the code's feet. A fault is a call that is
rejected, or one whose effect took place and whose answer was lost.

*PurchaseRoute.* `Replay`, `Refuse` and `Submit` are the three outcomes of the
look-up; `Executed` and `PurchaseFails` the relayer's; `Created` writes both
rows and answers, `DbError` stops before, between or after them. `Week` makes
the rows of the idempotency table old enough for the sweep in `Restart`.

*Faucet.* `Check` reads the limits inside the lock, `ReadBalance` the balance,
`Minted` and `Paid` are the two confirmations, the latter with the row.
Time is in ticks; a claim may stay in any of its steps while `Tick` goes on.

*Supervisor.* `loop` is where `main` is: about to spawn, watching a child, or
healing; `child` is Ponder, of which only what the supervisor relies on is
modelled: it takes up a schema of its own build or none (`Migrate`), refuses
another's (`Refuse`, whose message may go unseen), syncs, stalls, ends (`Crash`, or
`Terminate` for the signal). `OWNERSHIP_RE` takes every MigrationError in its
output for a foreign schema: `End` may set the flag too, and the history variable
`mistaken` tells such a flag from one that `Refuse` has set. `owner` and `synced`
are the schema. A check of the watchdog awaits two answers: `Tick`
starts it, `ReadSynced` is the checkpoint and `HeadArrives` the chain, in either
order. The first is kept (`pc` "synced" or "head"), the second is judged with it
(`Conclude`). Without `DATABASE_SCHEMA` the checkpoint is 0 at once. Checks are started by the clock, so two can be in
flight, and the older one may be judged last. `quiet` and `still` count intervals:
the first since the progress the watchdog has noticed, the second, a history
variable, since the real one. `late` is how far into its interval a check is
judged, which decides only the last interval of the span. `TakeOver` is the
supervisor of another deployment on the same schema during a rollout.

*Ledger.* The chain is a log of events with their transaction and index;
`Handle` is Ponder calling the next handler, which inserts rows under an id made
of them (`Key`) and skips an id that exists. `Resume` goes on from the checkpoint
over rows that may be there already, `Drop` begins with empty tables. Events
before `StartBlock` have no handler. `Ask`, `Read` (one query of `Promise.all`,
answered whenever) and `Done` are an answer in the making; the by-owner sums and
the totals are single queries, so they are operators on the tables. `reach`,
`grown`, `waited` and `shaken` are history variables: what the tables hold, and
what has moved while the answer was made. The marketplace's handlers, whose
tables the API keeps as well, are in `Marketplace`.

*ChainEvents.* A poll is `idle`, `polled` (head read), `fetching` (cursor read),
`fetched` (rows read), and advances the cursor. `block` and `mined` are the
chain, `indexed` is how far the table has come: `Index` moves it on and `Drop`
sets it back to nothing, also between the two queries of a poll (`torn`, and
`missed` is what such a poll did not see). Two slots for polls stand for the
timer that does not wait; when a poll is over its variables are reset.

*WebhookDelivery.* `WorkerTick` is one synchronous tick: fan-out, then a post
for each of the oldest due rows. `older` orders the due rows by
`next_attempt_at`, which the rows of one fan-out share; `ListDue` is any of the
lists that `ORDER BY next_attempt_at LIMIT` may return. `Progress` settles one post or makes a
backed-off row due. `FanoutStops` is a fan-out that a restart or a database
error ends half-way: its event is not marked and is fanned out again.
`WriteRefused` is an answer that the database does not let the worker write; when
only the first write is refused, the `catch` takes it for a failed post
(`RetryOrFail`). `MCWebhookDelivery` adds the stream of events: one that is over
lends its name to the next (`Reuse`), so that events never stop coming.

*Marketplace.* The chain is a log; a transaction's hash is its place in it and
its receipt is its one event. A trade's terms (amount, price, fee) are one
value, and so are a body's; a false body has one wrong field. A request posts
(`PostList`, `PostBuy`, `PostRedeem`: look-up by hash, and the listing row that
/buy keeps across its await), is verified when the receipt arrives
(`Verify...`), and writes its row (`Record...`), where UNIQUE constraints and the
`status = 'active'` of the update decide. A request slot is free again once it
is answered. `IndexNext` is Ponder calling the next handler, `Heal` the
supervisor's schema drop.

*WalletViews.* The chain, the indexer's table and the clock move under a fetch, and
the supervisor's heal empties the table (`DropSchema`; `outdated` are the fetches
that have read it before).
A request without a live entry asks the table and, if it is not cached, the
catalogue (`ReadPolicies`), which answer in either order or fail (`RowsArrive`,
`ListingArrives`, `ListingFails`, `QueryFails`), computes the statuses at the
time of the answer and stores them (`Assemble`). When the query fails, the
listing goes on and still fills its cache (`abandoned`). A bond fetch asks the
balances, then the details. An answer is always the entry of its cache at that
moment, so properties of answers are stated of live entries. `told`, `late`,
`shortAt`, `heldAt`, `unheldAt` and `clean` are history variables. The cache's
two keys per wallet for bonds hold the same list and are one here.

*Access.* A request is one step: the limiters keep their counts in memory, so
the awaits of their store end within the request's own microtasks, and the
tables are read and written without any. `Route` lists the limiters that stand
in front of a route: the public one is mounted on `/api/v1` for the statistics
and so counts every request below it, and twice on the paths that have a public
router as well. `Passed` walks them in order to the first that has no room. A
limiter that refuses counts the refused request too, which changes nothing
until its window is over; the model's counts stop at the maximum. A key is its
id, a wallet's address may have several spellings with one `Lower`. `tries`,
`lookups` and `served` log the times of what was let through.

## 3. Runs

| Run | Shows |
|---|---|
| `with_lock` | `withLock` implements the mutex, keeps its awaiters consistent, serves those that wait in line and forgets none |
| `relayer_tx` | one sender at a time; a nonce gap can only come from a purchase that failed before its broadcast; ETH follows its mint; the relayer implements `RelayService`; every request is answered while no nonce is burned |
| `purchase_route` | what a replayed response stands for, and which retries the key protects |
| `faucet` | cooldown and cap of recorded claims, also when they race; a row is a paid claim |
| `chain_events` | nothing between origin and cursor is skipped, though polls overlap and the index starts over below the cursor; history silent; duplicates only from overlaps, restarts and errors; every event settles |
| `supervisor` | the index of the own build is lost only to another deployment or after a MigrationError; only a child that stalled is signalled; the index catches up again and again |
| `webhook_delivery` | nobody missed by an interrupted fan-out; attempts bounded and outcomes final for rows whose posts do not overlap; every row ends, though another event's rows compete for the limited ticks and events never stop coming |
| `marketplace` | rows are genuine and registered once; the stale status check never turns a true sale away; the seller and terms copied from the kept row are those of the chain; the indexer agrees |
| `reads` | cached views: no policy is shown active later than a TTL after its expiry; one shown expired too early is explained by a short catalogue stored within its TTL; only an overtaken fetch, or a dropped schema, takes anything back; a bond answer was true at some time of its fetch. Indexer: the tables are those of one moment of the chain, through batches, repeated handlers and rebuilds; the parts of a dashboard add up; "synced" is said of an index that is |
| `access` | one agent per wallet, few active keys, revoked only by their owner or the admin; what an agent, an IP and the sandbox get through in a window's length, across restarts |
| `relayer_stuck`, `idempotency_twice` | the disagreements of section 6 |

Most runs check one invariant named after the module's subject (`NonceInv`,
`RouteInv`, `CursorInv`, `WorkerInv`, `MarketInv`, ...). It is the conjunction of
the type invariant and of named properties with comments of their own, of which
`GapsAreBurned`, `ReplayIsGenuine`, `RecordedIsExecuted`, `NothingSkipped`,
`NoHistory`, `AttemptsBounded`, `RowsAreGenuine`, `NeverRaced`, `HealsForeign` and
`OneMoment` are the ones to read first.

State counts (distinct): `relayer_tx` 58 thousand, `purchase_route` 187
thousand, `faucet` 728 thousand, `chain_events` 321 thousand, `supervisor` 367
thousand, `webhook_delivery` 24 thousand, `marketplace` 1.1 million, `reads` 3.6
million, `access` 469 thousand.

### Bounds, and why they are enough

- `with_lock`: four callers, so that one holds, two have been resumed and a
  newcomer arrives between them.
- `relayer_tx`: two purchases and a claim (two transactions), one RPC fault and
  one restart: both orders of the two signers, a replacement, a gap with a
  transaction behind it, a pending transaction that outlives the process.
- `purchase_route`: four requests of one key: two purchases can overlap and two
  replays can compare notes. One key suffices, for rows of different keys never
  meet; a second agent brings the clash of the primary key.
- `faucet`: three claims over all assignments of three wallets and three
  addresses; window and cap of two, clock to four, so that a claim of the same
  wallet returns after the window and strangers meet the cap.
- `chain_events`: three events in one to three blocks, two polls at once, one
  failure (a query, a swallowed emit or a restart) and one dropped schema.
- `supervisor`: two checks at once, so that they can be judged out of order; a
  stall of two intervals and a tolerated lag of one block in a chain of three, so
  that a child can be slow without being stalled and stalled without lagging;
  one failed call of the supervisor, or one MigrationError that is not about the
  owner, and one take-over. Crashes, stalls, unseen messages and restarts are not
  bounded.
- `webhook_delivery`: one row per tick, and two events that the subscriber wants,
  so that rows of different events compete, among them two of one fan-out, which
  are due since the same time; two posts of one row and attempt at once; two
  attempts. Behind finitely many events nothing waits for ever, whatever the
  order, so names of events that are over are used again (`Reuse`): with
  `next_attempt_at DESC`, or without the ORDER BY, a row now starves. To keep the
  run small a behaviour has either one fault (two rows of one event then compete)
  or the endless stream; the theorems of section 5 hold of both at once.
- `marketplace`: three transactions, of which the indexer's start block hides
  one; two listings and two accounts for wrong listings and wrong parties; two
  request slots that are used again without bound.
- `reads`, the cached views: one policy, one bond, two fetches at a time, one
  failed call or dropped schema; TTLs of one and two ticks, cover of two, clock to four, so that a
  fetch can begin before an expiry and end after it, and an entry can die.
- `reads`, the indexer's tables: four blocks (three for burns and policies), of
  which the first is before the start block, so that a holder can pass on what
  the index never saw it receive; two holders, one epoch, a batch of two legs;
  one restart, with its tables or without; a lag of one block; a window of one
  tick, clock to two.
- `reads` as a whole: policies and bonds of a wallet share the clock and nothing
  else, and neither do the subjects of the indexer's tables, nor the two modules
  with each other. In a behaviour only one of the modules moves, and the
  constraint `OneTopic` keeps to the behaviours of one subject.
- `access`: one IP, a wallet with two spellings and a second wallet, one active
  key each and two issued in all, so that a limit is met, a key is replaced and
  a stranger's key can be named; windows of two and three ticks, clock to three,
  so that an interval can straddle a window's edge; one restart. The public
  limit is twice the one in front of the keys, as configured. The sandbox
  shares the clock with the rest and nothing else (`SandboxApart`).

Every bound is a constant in the guards (`MaxFaults`, `MaxCrashes`, `MaxTime`,
`MaxTxs`, `MaxInFlight`, ...). The theorems of section 5 do not depend on them.
Symmetry is used in `purchase_route`, `faucet`, `marketplace` and
`reads`, which check no liveness. Deadlock checking is off where requests are
finite and all answered, or the clock and the chain come to their bounds.

### Fairness

- `with_lock`: the event loop drains its microtasks, and each `fn` settles. The
  second is an assumption on the caller; `relayer_stuck` shows a caller that does
  not meet it. No request is obliged to arrive.
- `relayer_tx`: the process runs on, calls are answered or rejected, and the
  chain includes an executable transaction. A transaction behind a gap is not
  executable, and `wait()` has no timeout, so `AnsweredUnlessBurned` needs its
  premise.
- `chain_events`: the timer goes on starting polls, queries are answered, and the
  indexer goes on. The last is what `CatchesUp` says of the supervised indexer.
- `supervisor`, of its own code: it spawns and heals, its timer goes on, checks
  are answered. Healing is strongly fair: not every heal is cut off by a restart.
  Of the rest: the chain goes on, a signalled child ends (the code sends SIGTERM
  and waits, with nothing to follow it), and of what Ponder does again and again
  not all goes wrong in the same way: it is not that every start crashes before
  its migration, every refusal goes unseen, or every child stalls before its
  first block. MigrationErrors that are not about the owner come to an end, for
  each costs the index (`MaxFaults`).
- `webhook_delivery`: the timer goes on, backoffs end, each post is answered or
  times out; refused writes are faults. The code's abort timer is cleared when the headers arrive
  (`services/webhooks.ts:115`), so for the body this is an assumption on the
  receiver.

Faults and restarts are never fair: they may but need not happen. The
properties without fairness (`purchase_route`, `faucet`, `marketplace`,
`reads`, `access`) are safety only.

## 4. What the weaker properties leave open

- A webhook row is posted again while an earlier post of it is in flight, for
  the row stays due. Either answer writes the row, with an attempt number read
  before both. Such rows are `raced`: they may be posted more than MAX_ATTEMPTS
  times, and a late answer may overwrite a final status, also that of a row
  failed as `subscription_inactive`. `AttemptsBounded` and `OutcomeIsFinal` are
  therefore stated for the others; `EveryoneIsServed` holds for all, each row of
  its own.
- `SequentialRetryReplays` excepts swept keys and keys first stored for another
  agent: the table's primary key is the key alone (`db/database.ts:556`).
- A listing ends in the API's table only through POST /buy. One that is
  cancelled, or sold and never posted, stays active there; `IndexerAgrees`
  compares posted sales only.
- A true listing is refused by /list when the floor has risen since: the floor
  is read when the request is verified.
- `ForwardUnlessOvertaken` is about what is shown of one schema: when the supervisor
  drops it, policies disappear from the list until they are indexed anew. And it
  excepts a fetch during which another one stored. It
  is stored last although it read first, and a policy that was shown as
  triggered is shown as active again, for one TTL.
- A failed listing is cached as an empty catalogue, so all active policies of all
  wallets read as expired until it ages out, and 30 seconds longer in answers
  fetched by then: `ExpiredIsExplained` bounds this, it does not exclude it.
- `BondsAreRecent` says nothing of a bond that is left out after a failed call:
  the short list is cached like a full one.
- `NothingSkipped` and `EveryEventSettles` except the events of a poll between
  whose two queries the schema was dropped: its head is that of the old tables,
  its rows those of the new, and the cursor moves on.
- `KilledIsStalled` excepts a child of whom a check was slow, failed, or found the
  schema taken over. A slow check is judged with its old reading; a failed one
  reads as block 0, which is no progress and a great lag, so a database that is
  out for STALL_MS has a healthy child killed.
- `CatchesUp` is about `DATABASE_SCHEMA` set to an identifier. Without it the
  watchdog reads no checkpoint and nothing is healed.
- `KeepsOwnIndex` excepts the other deployment, which drops our index when it
  finds its own build's schema replaced, as we do its, and the heal right after a
  child that printed a MigrationError: the pattern does not tell what it was about
  (section 6).
- `PartsAddUp` allows the handlers that ran while a dashboard was read, and
  `HealthIsHonest` the blocks mined meanwhile. Neither holds of an answer during
  which the index started over.
- With a start block in the middle of the history, `OneMoment` says only that an
  owner is shown no bond it does not hold; one it received before is missing.
- `QuotaPerWallet` and `IpIsBounded` allow 2 max - 1 requests in an interval of a
  window's length, which a client gets that waits for a window's end, and max
  more for each restart, which forgets the counts. The oracle's routes have
  authentication and no quota, so they are not counted in the first.

## 5. Proofs

`tlapm` checks every step; each theorem holds for all values of the constants
that satisfy the named assumptions of the module.

| Module | Theorems | Argument |
|---|---|---|
| `Faucet_proofs`, the lock | `LockInv`; mutual exclusion; implements `Mutex`; nobody overtakes | the entry exists exactly while a `fn` runs, and every waiter is listed once, with the holder's promise or in the microtask queue. Without the list being exact a resumed caller could be resumed twice, or a release could leave an entry behind; the refinement maps each step to one of `Mutex` or to a stutter. A step takes the head of the line, puts it back at the same place, or inserts a newcomer behind the awaiters, so those that wait keep their order |
| `RelayerTx_proofs` | `NonceInv`; one signer at a time; gaps come from burned nonces; ETH after its mint; implements `RelayService`; a request takes effect once (`RequestsTakeEffectOnce`) | no free nonce lies below a pending or signed one but the burned; for this the NonceManager's count must be known too (`ManagerIsBehind`), and it may have counted no free nonce but the one about to be used and the burned. For the refinement, each transaction of a request is in the pool once or in the chain once, and none is there before it is signed (`OnceInv`): so the transaction that takes effect is mined once, and a step answers, takes effect, loses answers in a crash, or changes nothing the service shows. What the service keeps (`PaidOnce`: at most one effect, and one behind each answer ok) is then true of the wallet without a word about nonces |
| `PurchaseRoute_proofs` | `RouteInv`; replays are genuine; records are executed; replays agree; later retries replay; the route keeps to `RelayService` | a row stands for a purchase answered 201 to the row's agent and key, one row per key, and the key of a 201 or a replay stays taken until it is swept. Every step of the route, a restart too, is a step of the service or leaves it alone (`RouteUsesTheService`): the route over the service and the service over the wallet fit together |
| `Faucet_proofs`, the faucet | `FaucetInv`; cooldown; daily cap; only paid is recorded | the lock's holder stays clear of every recorded claim from check to record, for only a holder records and the clock only moves on; the cap needs that claims are finitely many and not in the future |
| `Supervisor_proofs` | `SupervisorInv`; the own index is kept but for the two exceptions of section 4; only a stalled child is signalled | a flag that is up when main heals was set by the last child, which had refused a foreign schema or is `mistaken`; the schema does not become ours while no child runs. As long as no check was slow or failed, checks come one at a time; then `lastSynced` is at most what the index holds, and an index that is still where it was last noticed has stood there at least as long as the watchdog's clock says. Without the second part a reading judged later could be younger than the clock it is judged by |
| `Marketplace_proofs` | `MarketInv`; a truthful body is accepted; the indexer agrees | the contracts list an id once and end it once, on its terms (`LogInv`); a purchase in flight keeps a row of its listing in all but its status, and what was verified stays true of the event (`RequestInv`). A kept listing that is no longer active has its purchase, the purchase is genuine, and the chain has one sale: so it is this one. `IndexInv` says what the indexer has made of the transactions it handled |
| `Webhooks_proofs`, the emitter | `CursorInv`; nothing skipped; history silent; once without overlap | what lies below a cursor that any poll has read is covered, and polls hold exactly the rows between the cursor they read and their head, so a poll that moves the cursor back moves it to a place that is covered. A poll whose head is beyond the index was torn, and what it does not see is missed. `AloneInv` adds that above the cursor only interrupted polls have emitted |
| `Webhooks_proofs`, the worker | `WorkerInv`; nobody is missed; outcomes are final | the copies of a row are numbered without a gap, and a pending event has at most as many as fan-outs were stopped (`CopiesSound`), so the next copy is new and there is room for it; what is owed was wanted and is still wanted when the event is fanned out, for a deleted subscription never comes back (`OwedSound`). A pending row has an attempt left, and a row that did not race is ahead of its attempts by the one post in flight (`RowsSound`) |
| `MCReads_proofs`, the views | `ViewInv`; active in time; early expiry explained; forward unless overtaken; bonds recent | what a live entry says is not inductive: it was in the hands of a fetch before. `Fetched` says of every fetch in flight, and `DurationsStored`, `PoliciesStored` and `BondsStored` of every entry, at which time since its beginning it was true; and a fetch that was not overtaken holds nothing behind what was shown (`InOrder`): the rows of the indexer only go forward while their schema lasts (`TableGrows`), and when it is dropped, what was shown of it counts no more, nor do the fetches that have read it (`outdated`, `SchemaDropStep`) |
| `MCReads_proofs`, the tables | `LedgerInv`; the dashboards add up; the health is honest | the events of a transaction have keys of their own (`KeysDiffer`), so the rows are the legs of the indexed events one to one (`RowsSound`) and every sum of rows is a sum of events; what the checkpoint covers is in the tables (`Covered`), so a resumed indexer leaves no hole; balances are never negative, of the whole chain and of the part before the start block (`Solvent`), so what an owner is shown it has at least; and an answered query lies between the sum now and what was handled since (`AnswersIInv`) |
| `Access_proofs` | `KeysInv`; the quota of a wallet; the limits of an IP | agents are stored in lower case, so a wallet is one agent however it is spelled (`KeysIInv`), and its key is one of the active ones that are counted. An open window has counted its requests and no others, which says nothing of an interval that begins before it: `CountSound` says for every interval that it holds one request less than the window that was open at its beginning, all of one that opened in it, and one window more for each restart. A request passes a prefix of its route (`PassedPrefix`), on which the limiter in front of the logged step stands once, and has room for all that it counts (`GateFits`) |

Each invariant is first checked by TLC as a run's invariant, then proved in
three facts: the initial states satisfy it, each step keeps it (one proof step
per action), and it implies the property. Action properties
(`SequentialRetryReplays`) follow from the same invariant.

The leaves are kept small: each is proved in a fraction of the time the provers
are given, so that a slower machine proves them too; the few that are not small
name their prover and a longer time (`SMTT(30)`, `ZenonT(40)`).

`ReadsAreBoth` ties the run of `MCReads` to the two specifications it composes.

Only model-checked: all liveness (`EveryWaiterEnters`, `AnsweredUnlessBurned`,
`EveryEventSettles`, `EveryoneIsServed`, `CatchesUp`), which the prover does not
reach under fairness. Every other property of a passing run is a theorem.

## 6. Findings

Each is a run that TLC ends with a counterexample, quoted in `PROJECT.json`.

1. *Stuck relayer* (`relayer_stuck`). A purchase that fails at gas estimation has
   been counted; the next one waits in the node behind the gap, and its `wait()`,
   inside the lock, does not end. `utils/lock.ts:18` promises that it does.
2. *Idempotency* (`idempotency_twice`). Two overlapping requests of one key are
   both purchased.

Noted while modelling, and not kept as runs:

- The comment at `utils/ethers.ts:61` says that the lock keeps the NonceManager
  and the bare wallet from diverging. It excludes concurrent sends, which is
  `WindowExclusive`; but the NonceManager reads its nonce once, so after a
  purchase and a faucet claim its next nonce is one the claim has used. The
  model has this state, and `NonceInv` with its part `GapsAreBurned` is stated so
  as to hold in it.
- `routes/faucet.ts:26` says one claim per wallet in 24 hours. A payment whose
  `wait(1)` is rejected is not recorded (`routes/faucet.ts:159`), so the wallet
  can be paid again. `Cooldown` and `RecordedIsPaid` are about recorded claims.
- `services/chainEvents.ts:15-17` promises every event to subscribers but history
  (27-29). A stream whose table is empty at its first poll has no cursor after it
  (213), so its first event is taken for history (218); and a stream that starts
  while the index is still being filled emits the history above the block it
  found. `EveryEventSettles` excepts the first, and the second is a stream whose
  origin is low.
- `scripts/indexer-supervisor.mjs:9-12` heals on an ownership error only; the
  pattern (line 44) also takes any other message that contains "MigrationError", and
  the child's schema is dropped although it is its own build's. Whether Ponder has
  such messages lies outside of this repository, so it is kept as an exception of
  `KeepsOwnIndex` and not as a run.
- The bond list of a wallet asks for balances and drops the epochs without any
  (`services/bonds.ts:240`), so `status=redeemed` never returns a bond.
- `GET /indexer/health` answers "syncing" only without a block in the checkpoint
  or the tables while the chain is no longer than the tolerated lag.
- `GET /policies/:productId/:policyId` shows "Active" after a policy's end until
  the flag is set on chain (`services/policies.ts:200-215`), while the by-wallet
  list derives the end from the clock, as `WalletViews` does.
- `README.md` of the feedback bot has its hedger hold one policy per shield. It
  looks for an active one in `GET /policies`, whose rows have neither `active` nor
  `shield`, so it finds none and buys at each tick.
- `README.md:11` gives the paid tier 100 requests per minute. From one IP they
  cannot be used: `authIpLimiter` lets 60 pass, and on the doubly mounted paths
  `publicIpLimiter` half of its 120.

## 7. Not modelled

- Signatures, hashes, payloads, amounts in full, JSON: data that no property
  tells apart.
- Chain reorganisations, which Ponder handles: the chains of the models only
  append.
- More than one API process on one database: the locks are in memory, and the
  deployment runs one. Two supervisors on one schema are modelled.
- Details of modelled queries: `/stats/protocol` also sums the marketplace's volume
  (`routes/indexer.ts:301-304`), and its "written" is the sum of premiums, each of
  which is one in `Ledger`; the triggers' stream joins the policy's row
  (`services/chainEvents.ts:89-90`), which is there unless the indexer starts
  between a purchase and its trigger.
- A database error in the synchronous part of `deliverOne` (the row of a deleted
  subscription that cannot be failed): the row stays due for the next tick.
- Read routes that are one SQL statement, or one call to the node per field.
  The marketplace's statistics and history use `makeCache` without an await
  between look-up and store; `/live-stats` is the race of `WalletViews` once more,
  with the last value served, marked as stale, when the node fails.
- The oracle's signature, reference data, configuration and the OpenAPI document:
  no state and no order of events.
- The feedback agent, a client of the API that runs elsewhere.

## 8. Plan

Done: lock, relayer, purchase route, faucet (the code that moves money), the
emitter, the webhook worker, the verifier routes, the cached views, access, then
the supervisor and the indexer with its reads; then their proofs. Next:

1. `ChainEvents` and `WebhookDelivery` composed, so that an event is followed from
   the contract to its receiver in one run.
