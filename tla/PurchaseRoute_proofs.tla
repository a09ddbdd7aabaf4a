------------------------- MODULE PurchaseRoute_proofs -------------------------
(***************************************************************************)
(* The idempotency of POST /api/v1/policies, for any number of requests,   *)
(* agents, keys, restarts and database errors: RouteInv is inductive, and  *)
(* it implies what the runs check.                                         *)
(***************************************************************************)
EXTENDS PurchaseRoute, TLAPS

\* The database and the relayer are empty when the first process boots.
LEMMA InitRouteInv == Init => RouteInv
  BY NoKeyIsNoKey, BoundsAreNaturals
     DEF Init, Relay!Init, RouteInv, TypeOK, RowsAreReceipts, KeysAreTaken,
         AnsweredOnce, ReplayIsGenuine, RecordedIsExecuted, Response, Relay!Answer, Row

\* A replay copies a row, and the row is the receipt of a created purchase.
LEMMA ReplayRouteInv ==
    ASSUME RouteInv, NEW r \in Request, Replay(r)
    PROVE  RouteInv'
<1>0. /\ TypeOK /\ AnsweredOnce /\ RowsAreReceipts /\ KeysAreTaken
      /\ ReplayIsGenuine /\ RecordedIsExecuted
  BY DEF RouteInv
<1>1. PICK row \in idempotency :
         /\ row.key = key[r] /\ row.agent = agent[r]
         /\ receipt' = [receipt EXCEPT ![r] = row.receipt]
  BY DEF Replay, findIdempotency
<1>2. /\ row.key \in Key /\ row.agent \in Agent /\ row.receipt \in Request
      /\ key[row.receipt] = row.key /\ agent[row.receipt] = row.agent
      /\ response[row.receipt] = "created"
      /\ row.receipt \in policies /\ effects[row.receipt] = 1
  BY <1>0, <1>1 DEF TypeOK, Row, RowsAreReceipts, RecordedIsExecuted
<1>3. /\ response' = [response EXCEPT ![r] = "replayed"]
      /\ pc' = [pc EXCEPT ![r] = "answered"]
      /\ pc[r] = "new" /\ response[r] = "none"
      /\ UNCHANGED <<carried, tables, relay, bounds>>
  BY <1>0 DEF Replay, Respond, AnsweredOnce
<1> USE DEF carried, tables, relay, bounds
<1>4. TypeOK'
  BY <1>0, <1>1, <1>2, <1>3 DEF TypeOK, Response
<1>5. AnsweredOnce'
  BY <1>0, <1>3 DEF TypeOK, AnsweredOnce
<1>6. RowsAreReceipts'
  BY <1>0, <1>3 DEF TypeOK, Row, RowsAreReceipts
<1>7. KeysAreTaken'
  BY <1>0, <1>1, <1>2, <1>3 DEF TypeOK, KeysAreTaken
<1>8. ReplayIsGenuine'
  BY <1>0, <1>1, <1>2, <1>3, NoKeyIsNoKey DEF TypeOK, ReplayIsGenuine, SameKey
<1>9. RecordedIsExecuted'
  BY <1>0, <1>3 DEF TypeOK, RecordedIsExecuted
<1> QED BY <1>4, <1>5, <1>6, <1>7, <1>8, <1>9 DEF RouteInv

\* A 201 adds its row, unless its key is taken.
LEMMA CreatedRouteInv ==
    ASSUME RouteInv, NEW r \in Request, Created(r)
    PROVE  RouteInv'
<1>0. /\ TypeOK /\ AnsweredOnce /\ RowsAreReceipts /\ KeysAreTaken
      /\ ReplayIsGenuine /\ RecordedIsExecuted
  BY DEF RouteInv
<1>1. /\ pc[r] = "relaying" /\ response[r] = "none"
      /\ pc' = [pc EXCEPT ![r] = "answered"]
      /\ response' = [response EXCEPT ![r] = "created"]
      /\ policies' = policies \cup {r}
      /\ effects[r] = 1 /\ effects' = effects
      /\ answer' = [answer EXCEPT ![r] = "ok"]
      /\ UNCHANGED <<carried, receipt, swept, bounds>>
  BY <1>0 DEF Created, Respond, Relay!Succeed, AnsweredOnce
<1> DEFINE new == [key |-> key[r], agent |-> agent[r], receipt |-> r, old |-> FALSE]
<1>2. \/ /\ key[r] = NoKey \/ \E row \in idempotency : row.key = key[r]
         /\ idempotency' = idempotency
      \/ /\ new \in Row /\ \A row \in idempotency : row.key # key[r]
         /\ idempotency' = idempotency \cup {new}
  BY <1>0 DEF Created, saveIdempotency, TypeOK, Row
<1>a. new.key = key[r] /\ new.agent = agent[r] /\ new.receipt = r
  OBVIOUS
<1> HIDE DEF new
<1> USE DEF carried, bounds
<1>3. TypeOK'
  <2>1. idempotency' \subseteq Row
    BY <1>0, <1>1, <1>2 DEF TypeOK
  <2>2. /\ answer' \in [Request -> Relay!Answer]
        /\ response' \in [Request -> Response]
        /\ pc' \in [Request -> {"new", "relaying", "answered"}]
    BY <1>0, <1>1 DEF TypeOK, Response, Relay!Answer
  <2> QED BY <1>0, <1>1, <2>1, <2>2 DEF TypeOK, Row
<1>4. AnsweredOnce'
  BY <1>0, <1>1 DEF TypeOK, AnsweredOnce
<1>5. RowsAreReceipts'
  BY <1>0, <1>1, <1>2, <1>a DEF TypeOK, Row, RowsAreReceipts
<1>6. KeysAreTaken'
  BY <1>0, <1>1, <1>2, <1>a, NoKeyIsNoKey DEF TypeOK, KeysAreTaken
<1>7. ReplayIsGenuine'
  BY <1>0, <1>1 DEF TypeOK, ReplayIsGenuine, SameKey
<1>8. RecordedIsExecuted'
  BY <1>0, <1>1 DEF TypeOK, RecordedIsExecuted
<1> QED BY <1>3, <1>4, <1>5, <1>6, <1>7, <1>8 DEF RouteInv

\* A week ages the rows and leaves what they say.
LEMMA WeekRouteInv ==
    ASSUME RouteInv, Week
    PROVE  RouteInv'
<1>0. /\ TypeOK /\ AnsweredOnce /\ RowsAreReceipts /\ KeysAreTaken
      /\ ReplayIsGenuine /\ RecordedIsExecuted
  BY DEF RouteInv
<1>1. /\ idempotency' = {[row EXCEPT !.old = TRUE] : row \in idempotency}
      /\ UNCHANGED <<carried, client, policies, swept, relay, bounds>>
  BY DEF Week
<1> USE DEF carried, client, relay, bounds
<1> DEFINE aged(row) == [row EXCEPT !.old = TRUE]
<1>2. \A row \in idempotency :
         /\ aged(row) \in Row
         /\ aged(row).key = row.key /\ aged(row).agent = row.agent
         /\ aged(row).receipt = row.receipt
  BY <1>0 DEF TypeOK, Row
<1>a. idempotency' = {aged(row) : row \in idempotency}
  BY <1>1
<1> HIDE DEF aged
<1>3. /\ \A x \in idempotency' : \E row \in idempotency :
            x = aged(row) /\ x \in Row /\ x.key = row.key /\ x.agent = row.agent
              /\ x.receipt = row.receipt
      /\ \A row \in idempotency : aged(row) \in idempotency'
  BY <1>2, <1>a
<1>4. TypeOK'
  BY <1>0, <1>1, <1>3 DEF TypeOK
<1>5. RowsAreReceipts'
  <2>1. \A x \in idempotency' :
           /\ key[x.receipt] = x.key /\ agent[x.receipt] = x.agent
           /\ response[x.receipt] = "created"
    BY <1>0, <1>3 DEF RowsAreReceipts
  <2>2. \A x, y \in idempotency' : x.key = y.key => x = y
    BY <1>0, <1>3 DEF RowsAreReceipts
  <2> QED BY <1>1, <2>1, <2>2 DEF RowsAreReceipts
<1>6. KeysAreTaken'
  BY SMTT(30), <1>0, <1>1, <1>2, <1>3 DEF KeysAreTaken
<1>7. AnsweredOnce' /\ ReplayIsGenuine' /\ RecordedIsExecuted'
  BY <1>0, <1>1 DEF AnsweredOnce, ReplayIsGenuine, SameKey, RecordedIsExecuted
<1> QED BY <1>4, <1>5, <1>6, <1>7 DEF RouteInv

\* A restart deletes old rows and remembers their keys; it may leave one more
\* recorded policy, of a purchase that was executed.
LEMMA RestartRouteInv ==
    ASSUME RouteInv, Restart
    PROVE  RouteInv'
<1>0. /\ TypeOK /\ AnsweredOnce /\ RowsAreReceipts /\ KeysAreTaken
      /\ ReplayIsGenuine /\ RecordedIsExecuted
  BY DEF RouteInv
<1> DEFINE inFlight == {r \in Request : pc[r] = "relaying"}
           old == {row \in idempotency : row.old}
<1>1. /\ crashes < MaxCrashes /\ crashes' = crashes + 1
      /\ effects' = effects
      /\ answer' = [r \in Request |-> IF r \in inFlight THEN "lost" ELSE answer[r]]
      /\ pc' = [r \in Request |-> IF r \in inFlight THEN "answered" ELSE pc[r]]
      /\ idempotency' = idempotency \ old
      /\ swept' = swept \cup {row.key : row \in old}
      /\ UNCHANGED <<carried, response, receipt, dbErrors>>
  BY DEF Restart, Relay!Lose
<1>2. PICK D \in SUBSET {r \in inFlight : effects[r] = 1} : policies' = policies \cup D
  BY DEF Restart
<1>3. MaxCrashes \in Nat /\ crashes' \in 0..MaxCrashes
  BY <1>0, <1>1, BoundsAreNaturals DEF TypeOK
<1> USE DEF carried
<1>4. TypeOK'
  BY <1>0, <1>1, <1>2, <1>3 DEF TypeOK, Row, Relay!Answer
<1>5. AnsweredOnce' /\ RowsAreReceipts'
  BY <1>0, <1>1 DEF TypeOK, AnsweredOnce, RowsAreReceipts
<1>6. KeysAreTaken'
  BY <1>0, <1>1 DEF TypeOK, Row, KeysAreTaken
<1>7. ReplayIsGenuine' /\ RecordedIsExecuted'
  BY <1>0, <1>1, <1>2 DEF ReplayIsGenuine, SameKey, RecordedIsExecuted
<1> QED BY <1>4, <1>5, <1>6, <1>7 DEF RouteInv

\* The steps that leave the idempotency table alone.
LEMMA OtherRouteInv ==
    ASSUME RouteInv, NEW r \in Request,
           \/ Refuse(r) \/ Submit(r) \/ Executed(r) \/ PurchaseFails(r) \/ DbError(r)
    PROVE  RouteInv'
<1>0. /\ TypeOK /\ AnsweredOnce /\ RowsAreReceipts /\ KeysAreTaken
      /\ ReplayIsGenuine /\ RecordedIsExecuted
  BY DEF RouteInv
<1>1. UNCHANGED <<carried, receipt, idempotency, swept>>
  BY DEF Refuse, Submit, Executed, PurchaseFails, DbError, carried, client, tables
<1>2. /\ pc \in [Request -> {"new", "relaying", "answered"}]
      /\ response \in [Request -> Response]
      /\ effects \in [Request -> 0..1] /\ answer \in [Request -> Relay!Answer]
      /\ policies \subseteq Request
  BY <1>0 DEF TypeOK
<1>3. \/ pc' = pc /\ response' = response
      \/ pc' = [pc EXCEPT ![r] = "relaying"] /\ response' = response /\ pc[r] = "new"
      \/ /\ pc' = [pc EXCEPT ![r] = "answered"]
         /\ response' = [response EXCEPT ![r] = "error"]
         /\ response[r] = "none"
  BY <1>0 DEF Refuse, Submit, Executed, PurchaseFails, DbError, Respond, client, AnsweredOnce
<1>4. effects' = effects \/ effects' = [effects EXCEPT ![r] = 1]
  BY DEF Refuse, Submit, Executed, PurchaseFails, DbError, relay,
         Relay!Execute, Relay!Fail, Relay!Succeed
<1>5. policies' = policies \/ (policies' = policies \cup {r} /\ effects[r] = 1)
  <2>1. CASE DbError(r)
    BY <2>1 DEF DbError, Relay!Succeed
  <2>2. CASE Refuse(r) \/ Submit(r) \/ Executed(r) \/ PurchaseFails(r)
    BY <2>2 DEF Refuse, Submit, Executed, PurchaseFails, tables
  <2> QED BY <2>1, <2>2
<1>6. answer' \in [Request -> Relay!Answer]
  BY <1>2 DEF Refuse, Submit, Executed, PurchaseFails, DbError, relay, Relay!Answer,
              Relay!Execute, Relay!Fail, Relay!Succeed
<1>7. crashes' \in 0..MaxCrashes /\ dbErrors' \in 0..MaxDbErrors
  BY <1>0, BoundsAreNaturals
     DEF TypeOK, Refuse, Submit, Executed, PurchaseFails, DbError, bounds
<1> USE DEF carried
<1>8. TypeOK'
  BY <1>0, <1>1, <1>2, <1>3, <1>4, <1>5, <1>6, <1>7 DEF TypeOK, Response
<1>9. AnsweredOnce'
  BY <1>0, <1>2, <1>3 DEF AnsweredOnce
<1>10. \A q \in Request : /\ response'[q] = "created" <=> response[q] = "created"
                          /\ response'[q] = "replayed" <=> response[q] = "replayed"
  BY <1>2, <1>3
<1>11. RowsAreReceipts'
  BY <1>0, <1>1, <1>10 DEF TypeOK, Row, RowsAreReceipts
<1>12. KeysAreTaken'
  BY <1>0, <1>1, <1>10 DEF KeysAreTaken
<1>13. \A q \in Request : effects[q] = 1 => effects'[q] = 1
  BY <1>2, <1>4
<1>14. ReplayIsGenuine'
  BY <1>0, <1>1, <1>5, <1>10, <1>13 DEF TypeOK, ReplayIsGenuine, SameKey
<1>15. RecordedIsExecuted'
  BY <1>0, <1>2, <1>5, <1>10, <1>13 DEF RecordedIsExecuted
<1> QED BY <1>8, <1>9, <1>11, <1>12, <1>14, <1>15 DEF RouteInv

\* Every step of the route, the relayer, the clock and the process.
LEMMA NextRouteInv == RouteInv /\ [Next]_vars => RouteInv'
<1> SUFFICES ASSUME RouteInv, [Next]_vars PROVE RouteInv'
  OBVIOUS
<1>1. ASSUME NEW r \in Request, Replay(r) PROVE RouteInv'
  BY <1>1, ReplayRouteInv
<1>2. ASSUME NEW r \in Request, Created(r) PROVE RouteInv'
  BY <1>2, CreatedRouteInv
<1>3. ASSUME NEW r \in Request,
             Refuse(r) \/ Submit(r) \/ Executed(r) \/ PurchaseFails(r) \/ DbError(r)
      PROVE  RouteInv'
  BY <1>3, OtherRouteInv
<1>4. CASE Week
  BY <1>4, WeekRouteInv
<1>5. CASE Restart
  BY <1>5, RestartRouteInv
<1>6. CASE UNCHANGED vars
  BY <1>6 DEF vars, carried, client, tables, relay, bounds, RouteInv, TypeOK, AnsweredOnce,
              RowsAreReceipts, KeysAreTaken, ReplayIsGenuine, RecordedIsExecuted, SameKey
<1> QED BY <1>1, <1>2, <1>3, <1>4, <1>5, <1>6 DEF Next

\* The route's inductive invariant holds in every reachable state.
THEOREM RouteInvariant == Spec => []RouteInv
<1>1. Init => RouteInv
  BY InitRouteInv
<1>2. RouteInv /\ [Next]_vars => RouteInv'
  BY NextRouteInv
<1> QED BY <1>1, <1>2, PTL DEF Spec

\* A replayed response is never another agent's, nor one of a purchase that did
\* not happen (findIdempotency, saveIdempotency).
THEOREM ReplaysAreGenuine == Spec => []ReplayIsGenuine
<1>1. RouteInv => ReplayIsGenuine
  BY DEF RouteInv
<1> QED BY <1>1, RouteInvariant, PTL

\* recordPolicy and the 201 come after the receipt, on every path.
THEOREM RecordsAreExecuted == Spec => []RecordedIsExecuted
<1>1. RouteInv => RecordedIsExecuted
  BY DEF RouteInv
<1> QED BY <1>1, RouteInvariant, PTL

\* Two replays of one key never contradict each other before a sweep.
THEOREM ReplaysDoAgree == Spec => []ReplaysAgree
<1>1. RouteInv => ReplaysAgree
  <2> SUFFICES ASSUME RouteInv, NEW r \in Request, NEW s \in Request,
                      SameKey(r, s), key[r] \notin swept,
                      response[r] = "replayed", response[s] = "replayed"
               PROVE  receipt[r] = receipt[s]
    BY DEF ReplaysAgree
  <2>1. key[r] \in Key \ swept /\ key[s] = key[r]
    BY DEF RouteInv, TypeOK, SameKey
  <2>2. PICK x \in idempotency : x.key = key[r] /\ x.receipt = receipt[r]
    BY <2>1 DEF RouteInv, KeysAreTaken
  <2>3. PICK y \in idempotency : y.key = key[r] /\ y.receipt = receipt[s]
    BY <2>1 DEF RouteInv, KeysAreTaken
  <2> QED BY <2>2, <2>3 DEF RouteInv, RowsAreReceipts
<1> QED BY <1>1, RouteInvariant, PTL

\* A retry that arrives after a 201 is never purchased a second time, but for
\* the sweep and for a key that another agent stored first.
THEOREM RetriesReplay == Spec => SequentialRetryReplays
<1>1. RouteInv /\ [Next]_vars =>
        [\A r, s \in Request :
            Submit(r) /\ SameKey(r, s) /\ response[s] = "created" =>
                \/ key[r] \in swept
                \/ \E row \in idempotency : row.key = key[r] /\ row.agent # agent[r]]_vars
  <2> SUFFICES ASSUME RouteInv, NEW r \in Request, NEW s \in Request,
                      Submit(r), SameKey(r, s), response[s] = "created", key[r] \notin swept
               PROVE  \E row \in idempotency : row.key = key[r] /\ row.agent # agent[r]
    OBVIOUS
  <2>1. key[s] \in Key \ swept /\ key[s] = key[r]
    BY DEF RouteInv, TypeOK, SameKey
  <2>2. PICK row \in idempotency : row.key = key[r]
    BY <2>1 DEF RouteInv, KeysAreTaken
  <2> QED BY <2>2 DEF Submit, findIdempotency
<1> QED BY <1>1, RouteInvariant, PTL DEF Spec, SequentialRetryReplays

-----------------------------------------------------------------------------
(* The route and the relayer *)

\* Every step of the route is a step of the service it is promised, or leaves
\* the service alone.
LEMMA RouteStepIsServed == [Next]_vars => [Relay!Next]_(Relay!svars)
<1> SUFFICES ASSUME [Next]_vars PROVE Relay!Next \/ UNCHANGED <<effects, answer>>
  BY DEF Relay!svars
<1>1. ASSUME NEW r \in Request, Executed(r) \/ PurchaseFails(r) \/ Created(r) \/ DbError(r)
      PROVE  Relay!Next
  BY <1>1 DEF Executed, PurchaseFails, Created, DbError, Relay!Next
<1>2. ASSUME NEW r \in Request, Replay(r) \/ Refuse(r) \/ Submit(r)
      PROVE  UNCHANGED <<effects, answer>>
  BY <1>2 DEF Replay, Refuse, Submit, relay
<1>3. CASE Restart
  <2>1. PICK S \in SUBSET Request : Relay!Lose(S)
    BY <1>3 DEF Restart
  <2> QED BY <2>1 DEF Relay!Next
<1>4. CASE Week \/ UNCHANGED vars
  BY <1>4 DEF Week, vars, relay
<1> QED BY <1>1, <1>2, <1>3, <1>4 DEF Next

\* The route asks nothing of the relayer that the relayer has not promised, also
\* when it is killed in the middle of a purchase: with RelayerIsAService, what
\* is proved of the route over RelayService holds over RelayerTx
\* (routes/policies.ts awaits purchaseViaRelayer and reads only its outcome).
THEOREM RouteUsesTheService == Spec => Relay!Spec
<1>1. Init => Relay!Init
  BY DEF Init
<1> QED BY <1>1, RouteStepIsServed, PTL DEF Spec, Relay!Spec

===============================================================================
