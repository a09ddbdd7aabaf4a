---------------------------- MODULE PurchaseRoute ----------------------------
(***************************************************************************)
(* POST /api/v1/policies (routes/policies.ts): the Idempotency-Key check,  *)
(* the purchase through the relayer, the two rows written after it, and    *)
(* the restarts of the process in between.  The relayer is RelayService,   *)
(* which RelayerTx implements.                                             *)
(*                                                                         *)
(* A client's retry is another request with the same key and agent.        *)
(***************************************************************************)
EXTENDS Naturals, FiniteSets

CONSTANTS
    Request,    \* the requests that reach the route
    Agent,      \* authenticated agents
    Key,        \* values of the Idempotency-Key header
    NoKey,      \* the request has no such header
    MaxCrashes, \* bound on restarts
    MaxDbErrors \* bound on the database errors of a behaviour

ASSUME NoKeyIsNoKey == NoKey \notin Key
ASSUME BoundsAreNaturals == MaxCrashes \in Nat /\ MaxDbErrors \in Nat

VARIABLES
    agent, key,     \* agent[r], key[r]: what the request carries; never change
    pc,             \* pc[r]: "new", "relaying" or "answered"
    response,       \* response[r]: how the client was answered
    receipt,        \* receipt[r]: the request whose receipt the answer holds
    policies,       \* table policies: the requests whose purchase is recorded
    idempotency,    \* table idempotency: [key, agent, receipt, old]
    swept,          \* history: the keys deleted by sweepIdempotency
    effects, answer,\* the relayer (RelayService)
    crashes, dbErrors

carried == <<agent, key>>
client == <<pc, response, receipt>>
tables == <<policies, idempotency, swept>>
relay == <<effects, answer>>
bounds == <<crashes, dbErrors>>
vars == <<carried, client, tables, relay, bounds>>

Relay == INSTANCE RelayService

Response == {"none", "created", "replayed", "error"}

Init ==
    /\ agent \in [Request -> Agent]
    /\ key \in [Request -> Key \cup {NoKey}]
    /\ pc = [r \in Request |-> "new"]
    /\ response = [r \in Request |-> "none"]
    /\ receipt = [r \in Request |-> r]
    /\ policies = {} /\ idempotency = {} /\ swept = {}
    /\ Relay!Init
    /\ crashes = 0 /\ dbErrors = 0

Respond(r, how) ==
    /\ pc' = [pc EXCEPT ![r] = "answered"]
    /\ response' = [response EXCEPT ![r] = how]

-----------------------------------------------------------------------------
(* Before the purchase *)

\* Mutant: the row is found by its key alone.
FindByKey(r) == {row \in idempotency : row.key = key[r]}

findIdempotency(r) ==
    {row \in idempotency : row.key = key[r] /\ row.agent = agent[r]}

\* The key's response is stored for this agent: 200 with the stored body.
Replay(r) ==
    /\ pc[r] = "new"
    /\ \E row \in findIdempotency(r) : receipt' = [receipt EXCEPT ![r] = row.receipt]
    /\ Respond(r, "replayed")
    /\ UNCHANGED <<carried, tables, relay, bounds>>

\* The body is malformed (before the look-up), or the product or its asset
\* cannot be resolved (after it): 400.
Refuse(r) ==
    /\ pc[r] = "new"
    /\ Respond(r, "error")
    /\ UNCHANGED <<carried, receipt, tables, relay, bounds>>

\* Hand the purchase to the relayer and await its receipt.
Submit(r) ==
    /\ pc[r] = "new"
    /\ findIdempotency(r) = {}
    /\ pc' = [pc EXCEPT ![r] = "relaying"]
    /\ UNCHANGED <<carried, response, receipt, tables, relay, bounds>>

-----------------------------------------------------------------------------
(* The relayer *)

\* The chain executes the purchase, even after the request was answered or
\* lost with its process.
Executed(r) ==
    /\ pc[r] = "relaying" \/ answer[r] # "none"
    /\ Relay!Execute(r)
    /\ UNCHANGED <<carried, client, tables, bounds>>

\* purchaseViaRelayer throws: nothing is recorded or saved.
PurchaseFails(r) ==
    /\ pc[r] = "relaying"
    /\ Relay!Fail(r)
    /\ Respond(r, "error")
    /\ UNCHANGED <<carried, receipt, tables, bounds>>

-----------------------------------------------------------------------------
(* After the purchase: recordPolicy, saveIdempotency and the response run    *)
(* without an await                                                          *)

\* Mutants: INSERT OR REPLACE; nothing saved.
SaveOrReplace(r) ==
    idempotency' = {row \in idempotency : row.key # key[r]} \cup
        {[key |-> key[r], agent |-> agent[r], receipt |-> r, old |-> FALSE]}
SaveNothing(r) == UNCHANGED idempotency

\* INSERT OR IGNORE: the primary key is the key alone, whoever's it is.
saveIdempotency(r) ==
    idempotency' =
        IF key[r] = NoKey \/ \E row \in idempotency : row.key = key[r]
        THEN idempotency
        ELSE idempotency \cup
               {[key |-> key[r], agent |-> agent[r], receipt |-> r, old |-> FALSE]}

Created(r) ==
    /\ pc[r] = "relaying"
    /\ Relay!Succeed(r)
    /\ policies' = policies \cup {r}
    /\ saveIdempotency(r)
    /\ Respond(r, "created")
    /\ UNCHANGED <<carried, receipt, swept, bounds>>

\* recordPolicy throws (UNIQUE(product_id, policy_id), a full disk), or
\* saveIdempotency does after it: 500 although the policy exists on chain.
DbError(r) ==
    /\ dbErrors < MaxDbErrors
    /\ dbErrors' = dbErrors + 1
    /\ pc[r] = "relaying"
    /\ Relay!Succeed(r)
    /\ policies' \in {policies, policies \cup {r}}
    /\ Respond(r, "error")
    /\ UNCHANGED <<carried, receipt, idempotency, swept, crashes>>

-----------------------------------------------------------------------------
(* Time and restarts *)

\* A week passes: every stored row is older than IDEMPOTENCY_TTL_MS.
Week ==
    /\ \E row \in idempotency : ~row.old
    /\ idempotency' = {[row EXCEPT !.old = TRUE] : row \in idempotency}
    /\ UNCHANGED <<carried, client, policies, swept, relay, bounds>>

\* The process dies with its requests, one of them perhaps between its two
\* rows, and boots: getDb() sweeps the old idempotency rows.
Restart ==
    /\ crashes < MaxCrashes
    /\ crashes' = crashes + 1
    /\ LET inFlight == {r \in Request : pc[r] = "relaying"}
           old == {row \in idempotency : row.old}
       IN  /\ Relay!Lose(inFlight)
           /\ pc' = [r \in Request |-> IF r \in inFlight THEN "answered" ELSE pc[r]]
           /\ \E D \in SUBSET {r \in inFlight : effects[r] = 1} :
                 Cardinality(D) <= 1 /\ policies' = policies \cup D
           /\ idempotency' = idempotency \ old
           /\ swept' = swept \cup {row.key : row \in old}
    /\ UNCHANGED <<carried, response, receipt, dbErrors>>

Next ==
    \/ Week \/ Restart
    \/ \E r \in Request :
          \/ Replay(r) \/ Refuse(r) \/ Submit(r)
          \/ Executed(r) \/ PurchaseFails(r)
          \/ Created(r) \/ DbError(r)

Spec == Init /\ [][Next]_vars

-----------------------------------------------------------------------------
(* Properties *)

Row == [key : Key, agent : Agent, receipt : Request, old : BOOLEAN]

TypeOK ==
    /\ agent \in [Request -> Agent] /\ key \in [Request -> Key \cup {NoKey}]
    /\ pc \in [Request -> {"new", "relaying", "answered"}]
    /\ response \in [Request -> Response]
    /\ receipt \in [Request -> Request]
    /\ policies \subseteq Request
    /\ idempotency \subseteq Row
    /\ swept \subseteq Key
    /\ effects \in [Request -> 0..1] /\ answer \in [Request -> Relay!Answer]
    /\ crashes \in 0..MaxCrashes /\ dbErrors \in 0..MaxDbErrors

SameKey(r, s) == key[r] # NoKey /\ key[r] = key[s] /\ agent[r] = agent[s]

\* What a stored row stands for: one row per key, made by a purchase that was
\* answered 201, to the agent and under the key of the row.
RowsAreReceipts ==
    /\ \A row \in idempotency :
          /\ key[row.receipt] = row.key /\ agent[row.receipt] = row.agent
          /\ response[row.receipt] = "created"
    /\ \A x, y \in idempotency : x.key = y.key => x = y

\* A key of a 201 is taken until it is swept, and so is that of a replay, by the
\* very row that was replayed.
KeysAreTaken ==
    \A r \in Request : key[r] \in Key \ swept =>
        /\ response[r] = "created" => \E row \in idempotency : row.key = key[r]
        /\ response[r] = "replayed" =>
              \E row \in idempotency :
                 row.key = key[r] /\ row.agent = agent[r] /\ row.receipt = receipt[r]

\* A replayed response is the receipt of a purchase that was executed and
\* recorded, of this agent and under this key.
ReplayIsGenuine ==
    \A r \in Request : response[r] = "replayed" =>
        LET s == receipt[r]
        IN  SameKey(r, s) /\ effects[s] = 1 /\ s \in policies

\* Replays of one key agree with each other until the key is swept, also when
\* two requests of the key were purchased concurrently.
ReplaysAgree ==
    \A r, s \in Request :
        /\ SameKey(r, s) /\ key[r] \notin swept
        /\ response[r] = "replayed" /\ response[s] = "replayed"
        => receipt[r] = receipt[s]

\* What the key does protect: once a purchase was answered 201 to an agent, no
\* request that arrives later with the key is purchased again, unless the key
\* was swept or first stored for another agent.
SequentialRetryReplays ==
    [][\A r, s \in Request :
          Submit(r) /\ SameKey(r, s) /\ response[s] = "created" =>
              \/ key[r] \in swept
              \/ \E row \in idempotency : row.key = key[r] /\ row.agent # agent[r]]_vars

\* The policies table never runs ahead of the chain, and a 201 means both.
RecordedIsExecuted ==
    /\ \A r \in policies : effects[r] = 1
    /\ \A r \in Request : response[r] = "created" => r \in policies

AnsweredOnce == \A r \in Request : pc[r] # "answered" => response[r] = "none"

\* The inductive invariant of the route.
RouteInv ==
    /\ TypeOK
    /\ AnsweredOnce
    /\ RowsAreReceipts
    /\ KeysAreTaken
    /\ ReplayIsGenuine
    /\ RecordedIsExecuted

\* tests/security/idempotency.test.ts: "Same (key, agent_id) MUST return the
\* cached response on replay; the underlying contract call MUST happen exactly
\* once."
ExactlyOncePerKey ==
    \A r, s \in Request :
        SameKey(r, s) /\ effects[r] = 1 /\ effects[s] = 1 => r = s
==============================================================================
