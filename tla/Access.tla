-------------------------------- MODULE Access --------------------------------
(***************************************************************************)
(* Who may use the API, and how often: the limiters that a request passes  *)
(* on the way to its route (app.ts, middlewares/rateLimit.ts), the key it  *)
(* brings (middlewares/auth.ts), and the routes that issue and revoke keys *)
(* (routes/agent.ts, routes/keys.ts over services/keys.ts).                *)
(*                                                                         *)
(* A limiter counts in memory.  A client's window opens with its first     *)
(* request and lasts Window[l]; requests beyond the maximum are refused.   *)
(* The code counts those too, which tells nothing more until the window is *)
(* over, so counts stop at the maximum here.  A request is one step: the   *)
(* limiters do await their store, but that is memory, which answers in     *)
(* microtasks, and the tables are read and written without an await.       *)
(*                                                                         *)
(* An address is a wallet's spelling; Lower is toLowerCase.  A key is      *)
(* named by its id; 0 stands for a key that was never issued.              *)
(***************************************************************************)
EXTENDS Integers, Sequences, FiniteSets

CONSTANTS
    Ip,
    Address,
    Lower,      \* Lower[a]: the address in lower case
    Rpm,        \* Rpm[a]: requests per window of the tier of agent a
    Maximum,    \* Maximum[l]: requests of an IP that limiter l lets pass
    Window,     \* Window[l]: the length of its window, in ticks
    ApiWindow,  \* the length of the window of apiLimiter
    MaxKeys,    \* MAX_KEYS_PER_WALLET
    Tolerance,  \* TIMESTAMP_TOLERANCE_SECONDS
    MaxIssued,  \* bound on the keys of a behaviour
    MaxRestarts,\* bound on its restarts
    MaxTime     \* bound on the clock

Limiter == {"public", "authIp", "admin", "onboard", "sandbox"}

ASSUME AccessAssumption ==
    /\ Address \cap {"nobody", "admin"} = {}
    /\ Lower \in [Address -> Address]
    /\ \A a \in Address : Lower[Lower[a]] = Lower[a]
    /\ Rpm \in [Address -> Nat \ {0}]
    /\ Maximum \in [Limiter -> Nat \ {0}] /\ Window \in [Limiter -> Nat \ {0}]
    /\ ApiWindow \in Nat \ {0} /\ MaxKeys \in Nat \ {0} /\ Tolerance \in Nat
    /\ MaxIssued \in Nat /\ MaxRestarts \in Nat /\ MaxTime \in Nat \ {0}

VARIABLES
    now,
    ipWindow,   \* ipWindow[i][l]: [hits, until] of IP i at limiter l
    apiWindow,  \* apiWindow[a]: the same of agent a at apiLimiter
    agents,     \* table agents: the wallets of its rows
    keys,       \* table api_keys: [agent, by], by is who revoked it or "nobody"
    tries,      \* history: tries[i]: when the sandbox bought for IP i
    lookups,    \* history: lookups[i]: when a key was looked up for IP i
    served,     \* history: served[a]: when apiLimiter let agent a through
    restarts

tables == <<agents, keys>>
histories == <<tries, lookups, served>>
vars == <<now, ipWindow, apiWindow, tables, histories, restarts>>

Time == 1..MaxTime
KeyId == DOMAIN keys
Closed == [hits |-> 0, until |-> 0]
NoIpWindows == [i \in Ip |-> [l \in Limiter |-> Closed]]
NoApiWindows == [a \in Address |-> Closed]

Init ==
    /\ now = 1
    /\ ipWindow = NoIpWindows /\ apiWindow = NoApiWindows
    /\ agents = {} /\ keys = <<>>
    /\ tries = [i \in Ip |-> <<>>] /\ lookups = [i \in Ip |-> <<>>]
    /\ served = [a \in Address |-> <<>>]
    /\ restarts = 0

-----------------------------------------------------------------------------
(* Limiters *)

\* n more requests in window w, which has room for them.
Hit(w, n, length) ==
    IF n = 0 \/ w # Closed THEN [w EXCEPT !.hits = @ + n]
    ELSE [hits |-> n, until |-> now + length]

\* How often limiter l stands among the first n of a route.
Times(l, route, n) == Cardinality({m \in 1..n : route[m] = l})

\* The limiters of a route, in the order of app.ts, that the request of IP i
\* passes: up to the first that has no room left.
Passed(i, route) ==
    {n \in DOMAIN route : \A m \in 1..n :
        ipWindow[i][route[m]].hits + Times(route[m], route, m - 1) < Maximum[route[m]]}

Gate(i, route) ==
    LET passed == Cardinality(Passed(i, route))
    IN  [l \in Limiter |-> Hit(ipWindow[i][l], Times(l, route, passed), Window[l])]

\* The limiter in front of the statistics guards all of /api/v1, and that of
\* the public policies and listings guards the paths of the others as well.
PublicRoutes == {<<"public">>, <<"public", "public">>}
KeyRoutes == {<<"public", "authIp">>, <<"public", "public", "authIp">>}
OnboardRoute == <<"public", "authIp", "onboard">>
AdminRoute == <<"public", "admin">>
SandboxRoute == <<"sandbox">>
Route == PublicRoutes \cup KeyRoutes \cup {OnboardRoute, AdminRoute, SandboxRoute}

Counted(i, route) == ipWindow' = [ipWindow EXCEPT ![i] = Gate(i, route)]

Open(i, route) == Passed(i, route) = DOMAIN route

Passes(i, route) == Open(i, route) /\ Counted(i, route)

\* 429 from one of them.
Refused(i) ==
    /\ \E route \in Route : ~Open(i, route) /\ Counted(i, route)
    /\ UNCHANGED <<now, apiWindow, tables, histories, restarts>>

\* A read without a key.
PublicRequest(i) ==
    /\ \E route \in PublicRoutes : Passes(i, route)
    /\ UNCHANGED <<now, apiWindow, tables, histories, restarts>>

\* POST /sandbox/try: a purchase for the sandbox's wallet, without a key.
SandboxTry(i) ==
    /\ Passes(i, SandboxRoute)
    /\ tries' = [tries EXCEPT ![i] = Append(@, now)]
    /\ UNCHANGED <<now, apiWindow, tables, lookups, served, restarts>>

\* GET /sandbox/info, or the sandbox is disabled or does not know the product:
\* counted like a purchase.
SandboxRefused(i) ==
    /\ Passes(i, SandboxRoute)
    /\ UNCHANGED <<now, apiWindow, tables, histories, restarts>>

-----------------------------------------------------------------------------
(* Requests with a key *)

Active(k) == k \in KeyId /\ keys[k].by = "nobody"

LookedUp(i) == lookups' = [lookups EXCEPT ![i] = Append(@, now)]

\* Mutant: the key is looked up before the limiter of the IP has counted.
PresentsUnlimited(i) ==
    /\ \E route \in KeyRoutes : Counted(i, route)
    /\ LookedUp(i)

\* The request reaches authMiddleware and its key is looked up.
Presents(i) ==
    /\ \E route \in KeyRoutes : Passes(i, route)
    /\ LookedUp(i)

\* 401 without a look-up: the header is missing or no key at all.
Keyless(i) ==
    /\ \E route \in KeyRoutes : Passes(i, route)
    /\ UNCHANGED <<now, apiWindow, tables, histories, restarts>>

\* 401: the key is unknown or revoked.
Stranger(i) ==
    /\ Presents(i)
    /\ \E k \in KeyId \cup {0} : ~Active(k)
    /\ UNCHANGED <<now, apiWindow, tables, tries, served, restarts>>

WithinQuota(a) == apiWindow[a].hits < Rpm[a]

\* 429 from apiLimiter.
OverQuota(i, k) ==
    /\ Active(k)
    /\ Presents(i)
    /\ ~WithinQuota(keys[k].agent)
    /\ UNCHANGED <<now, apiWindow, tables, tries, served, restarts>>

\* The request is counted on the agent, not on the key or the IP, and passes.
Authenticated(i, k) ==
    LET a == keys[k].agent IN
    /\ Active(k)
    /\ Presents(i)
    /\ WithinQuota(a)
    /\ apiWindow' = [apiWindow EXCEPT ![a] = Hit(@, 1, ApiWindow)]
    /\ served' = [served EXCEPT ![a] = Append(@, now)]
    /\ UNCHANGED <<now, agents, tries, restarts>>

\* The routes of the oracle ask for a key and have no quota.
OracleRequest(i, k) ==
    /\ Active(k)
    /\ Presents(i)
    /\ UNCHANGED <<now, apiWindow, tables, tries, served, restarts>>

\* A route that leaves the keys alone, or a DELETE that finds nothing to do.
Served(i, k) == Authenticated(i, k) /\ UNCHANGED keys

Revoke(k, who) ==
    /\ Active(k)
    /\ keys' = [keys EXCEPT ![k].by = who]

\* Mutant: any key may be revoked.
OwnedByAnybody(k, a) == k \in KeyId

Owned(k, a) == k \in KeyId /\ keys[k].agent = Lower[a]

\* DELETE /agent/keys/:keyId; the key itself may be the one.
SelfRevoke(i, k) ==
    /\ Authenticated(i, k)
    /\ \E victim \in KeyId :
          Owned(victim, keys[k].agent) /\ Revoke(victim, keys[k].agent)

-----------------------------------------------------------------------------
(* Issuing and revoking keys *)

\* Mutant: the agent is looked up and created as the address is spelled.
AgentOfSpelling(a) == a

\* findOrCreateAgent
AgentOf(a) == Lower[a]

ActiveKeys(a) == {k \in KeyId : keys[k].agent = a /\ keys[k].by = "nobody"}

insertApiKey(a) == Append(keys, [agent |-> a, by |-> "nobody"])

\* issueKey: the count and the insert are one step.
Issue(a) ==
    /\ agents' = agents \cup {AgentOf(a)}
    /\ \/ /\ Cardinality(ActiveKeys(AgentOf(a))) < MaxKeys /\ Len(keys) < MaxIssued
          /\ keys' = insertApiKey(AgentOf(a))
       \/ /\ Cardinality(ActiveKeys(AgentOf(a))) >= MaxKeys
          /\ UNCHANGED keys

\* POST /agent/onboard with a message that names wallet a and the time t,
\* signed by signer.
Onboard(i) ==
    /\ Passes(i, OnboardRoute)
    /\ \E a, signer \in Address, t \in Time :
          LET fresh == now - t <= Tolerance /\ t - now <= Tolerance IN
          \/ fresh /\ Lower[signer] = Lower[a] /\ Issue(a)
          \/ (~fresh \/ Lower[signer] # Lower[a]) /\ UNCHANGED tables
    /\ UNCHANGED <<now, apiWindow, histories, restarts>>

\* POST /keys/generate
Generate(i) ==
    /\ Passes(i, AdminRoute)
    /\ \E a \in Address : Issue(a)
    /\ UNCHANGED <<now, apiWindow, histories, restarts>>

\* DELETE /keys/:id
AdminRevoke(i) ==
    /\ Passes(i, AdminRoute)
    /\ \E k \in KeyId : Revoke(k, "admin")
    /\ UNCHANGED <<now, apiWindow, agents, histories, restarts>>

\* Either without the admin's token, or with a body or an id that is no good.
AdminRefused(i) ==
    /\ Passes(i, AdminRoute)
    /\ UNCHANGED <<now, apiWindow, tables, histories, restarts>>

-----------------------------------------------------------------------------

Expire(w) == IF w.until <= now + 1 THEN Closed ELSE w

\* A window that is over counts like none.
Tick ==
    /\ now < MaxTime
    /\ now' = now + 1
    /\ ipWindow' = [i \in Ip |-> [l \in Limiter |-> Expire(ipWindow[i][l])]]
    /\ apiWindow' = [a \in Address |-> Expire(apiWindow[a])]
    /\ UNCHANGED <<tables, histories, restarts>>

\* A restart forgets the counts and keeps the tables.
Restart ==
    /\ restarts < MaxRestarts
    /\ restarts' = restarts + 1
    /\ ipWindow' = NoIpWindows /\ apiWindow' = NoApiWindows
    /\ UNCHANGED <<now, tables, histories>>

Request(i) ==
    \/ Refused(i) \/ PublicRequest(i) \/ Keyless(i) \/ Stranger(i)
    \/ SandboxRefused(i) \/ SandboxTry(i)
    \/ Onboard(i) \/ Generate(i) \/ AdminRevoke(i) \/ AdminRefused(i)
    \/ \E k \in KeyId : OverQuota(i, k) \/ OracleRequest(i, k) \/ Served(i, k) \/ SelfRevoke(i, k)

Next == Tick \/ Restart \/ \E i \in Ip : Request(i)

Spec == Init /\ [][Next]_vars

-----------------------------------------------------------------------------
(* Properties *)

WindowType(max) == [hits : 0..max, until : Nat]

TypeOK ==
    /\ now \in 1..MaxTime
    /\ \A i \in Ip, l \in Limiter : ipWindow[i][l] \in WindowType(Maximum[l])
    /\ \A a \in Address : apiWindow[a] \in WindowType(Rpm[a])
    /\ agents \subseteq Address
    /\ keys \in Seq([agent : agents, by : Address \cup {"nobody", "admin"}])
    /\ tries \in [Ip -> Seq(Time)] /\ lookups \in [Ip -> Seq(Time)]
    /\ served \in [Address -> Seq(Time)]
    /\ restarts \in 0..MaxRestarts

\* However its address is spelled, a wallet is one agent and has at most
\* MaxKeys active keys (the limit of db/database.ts:412), and each revoked key
\* was revoked by the admin or by the wallet itself.
KeysInv ==
    /\ TypeOK
    /\ \A a, b \in agents : Lower[a] = Lower[b] => a = b
    /\ \A w \in Address :
          Cardinality({k \in KeyId : Lower[keys[k].agent] = Lower[w] /\ Active(k)}) <= MaxKeys
    /\ \A k \in KeyId : keys[k].by \in Address => Lower[keys[k].by] = Lower[keys[k].agent]

\* Of the members of S together, no more is logged in any interval of the given
\* length than windows that open with a request can let pass: two overlap it,
\* the first of them with a request before it; each restart opens another.
Bounded(times, S, max, length) ==
    \A from \in Time :
        Cardinality(UNION {{<<x, n>> : n \in {m \in DOMAIN times[x] :
                                from <= times[x][m] /\ times[x][m] < from + length}} : x \in S})
            <= 2 * max - 1 + restarts * max

\* A wallet is let through as often as its tier allows (README.md:11), whatever
\* keys and spellings its requests use: up to once less than twice as often
\* across the edge of a window.  (The routes of the oracle are not counted.)
QuotaPerWallet ==
    \A w \in Address :
        Bounded(served, {a \in Address : Lower[a] = Lower[w]}, Rpm[Lower[w]], ApiWindow)

\* An IP has keys looked up, good or bad, as often as authIpLimiter allows
\* (rateLimit.ts:69, "never reaching the DB"), and has the sandbox buy as often
\* as its own limiter does ("Hard cap", routes/sandbox.ts:16), whatever else it
\* asks for; with the same edge.
IpIsBounded ==
    \A i \in Ip :
        /\ Bounded(lookups, {i}, Maximum["authIp"], Window["authIp"])
        /\ Bounded(tries, {i}, Maximum["sandbox"], Window["sandbox"])
==============================================================================
