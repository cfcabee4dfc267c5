---------------------------- MODULE AccessPolicy ----------------------------
(***************************************************************************)
(* From a request to its admission: access_context authenticates the       *)
(* caller (app/security.py), enforce_action asks the action policies and   *)
(* the external policy engine (app/policy.py), the decision is recorded in *)
(* policy_decisions and obeyed (app/main.py).                              *)
(*                                                                         *)
(* The signing keys of the identity provider come from a JWKS URL, which   *)
(* its discovery document may name.  Both are cached by URL in one         *)
(* dictionary that all threads share, without a lock: the clock is read,   *)
(* then the cache, then the network, and the answer is stored last.        *)
(*                                                                         *)
(* The provider adds and retires keys and moves its JWKS; the engine       *)
(* changes its mind and fails.  A signature is the key that made it; the   *)
(* issuer and the audience of a token are right.                           *)
(* Keys given inline or by a file are never stale and are left out.        *)
(*                                                                         *)
(* StampedLate, DiscoveredOnce, AllowedOrLocal and RecordAdmitted are the  *)
(* slips the properties must catch, each written before the definition it  *)
(* would replace.                                                          *)
(***************************************************************************)
EXTENDS AccessRoles, FiniteSets

CONSTANTS
    Threads,
    Requests,    \* names of requests
    Request,     \* [token, role, action] of each, the role being that of the header
    Keys,        \* names of signing keys of the provider
    JwksUrls,
    Discovery,   \* the URL of the discovery document
    GroupRole,   \* RD_KG_OIDC_GROUP_ROLE_MAP
    DefaultRole,
    Skew,        \* RD_KG_OIDC_CLOCK_SKEW_SECONDS, in ticks
    TTL,         \* RD_KG_OIDC_JWKS_CACHE_TTL_SECONDS, in ticks
    Options,     \* the settings that may be in force
    Providers,   \* what the provider may publish: where its keys are, and which
    MaxTime,     \* bound: ticks
    MaxChanges   \* bound: changes at the provider and the engine

NoKid == "no_kid"
Secret == "secret"     \* RD_KG_OIDC_HS256_SECRET

Tokens == [alg : {"HS256"}, kid : {NoKid}, key : {Secret, "another"}, exp : Nat,
           claims : SUBSET (Roles \cup DOMAIN GroupRole)]
          \cup
          [alg : {"RS256"}, kid : Keys \cup {NoKid}, key : Keys, exp : Nat,
           claims : SUBSET (Roles \cup DOMAIN GroupRole)]

NoToken == [alg |-> "none", kid |-> NoKid, key |-> "none", exp |-> 0, claims |-> {}]

ASSUME AccessAssumption ==
    /\ Discovery \notin JwksUrls
    /\ Secret \notin Keys /\ NoKid \notin Keys
    /\ GroupRole \in [DOMAIN GroupRole -> Roles]
    /\ DefaultRole \in Roles
    /\ TTL \in Nat \ {0} /\ Skew \in Nat /\ MaxTime \in Nat /\ MaxChanges \in Nat
    /\ Request \in [Requests -> [token : Tokens \cup {NoToken}, role : Roles,
                                   action : DOMAIN ActionRoles]]
    /\ Providers \subseteq [uri : JwksUrls, keys : [JwksUrls -> SUBSET Keys]]
    /\ Options \subseteq [tokens : BOOLEAN, keys : {Discovery} \cup JwksUrls,
                          engine : BOOLEAN, failOpen : BOOLEAN, audit : BOOLEAN]

Urls == {Discovery} \cup JwksUrls
EngineStates == {"permits", "forbids", "malformed", "down"}

VARIABLES
    option,
    now,
    provider,   \* what the provider publishes
    engine,     \* how the engine answers
    cache,      \* _JWKS_CACHE
    visit,      \* the request that each thread serves
    past,       \* the providers there were in each tick
    changes

outside == <<option, now, provider, engine, past, changes>>
vars == <<outside, cache, visit>>

\* A payload is a set: of one URL, or of keys.
NotCached == [until |-> 0, payload |-> {}]
Denied == [allowed |-> FALSE, source |-> "local"]
NoRow == [allowed |-> FALSE, source |-> "none"]
NoRequest == "nothing"
\* "start", "engines" and "lost" are history: when the request came, how the
\* engine has been since its caller is known, whether recording failed.
Idle == [pc |-> "idle", request |-> NoRequest, url |-> Discovery, asked |-> 0, payload |-> {},
         role |-> DefaultRole, decision |-> Denied, row |-> NoRow, lost |-> FALSE,
         start |-> 0, engines |-> {}]

-----------------------------------------------------------------------------
\* access_context_from_authorization

ClaimedRoles(token) ==
    (token.claims \cap Roles) \cup {GroupRole[g] : g \in token.claims \cap DOMAIN GroupRole}

RoleOf(token) ==
    IF ClaimedRoles(token) = {} THEN DefaultRole
    ELSE CHOOSE r \in ClaimedRoles(token) :
            \A s \in ClaimedRoles(token) : ROLE_ORDER[s] <= ROLE_ORDER[r]

Expired(token) == token.exp < now - Skew

\* A request whose token is to be checked waits for keys; HS256 needs none.
Known(r, role) == [Idle EXCEPT !.pc = "known", !.request = r, !.role = role, !.engines = {engine}]
Refused(r) == [Idle EXCEPT !.pc = "refused", !.request = r]

Admission(r) ==
    IF Request[r].token = NoToken THEN IF option.tokens THEN Refused(r) ELSE Known(r, Request[r].role)
    ELSE IF Request[r].token.alg = "RS256"
    THEN [Idle EXCEPT !.pc = "lookup", !.request = r, !.url = option.keys, !.start = now]
    ELSE IF Request[r].token.key = Secret /\ ~Expired(Request[r].token) THEN Known(r, RoleOf(Request[r].token))
    ELSE Refused(r)

Arrive(t, r) ==
    /\ visit[t].pc = "idle"
    /\ visit' = [visit EXCEPT ![t] = Admission(r)]
    /\ UNCHANGED <<outside, cache>>

-----------------------------------------------------------------------------
\* _cached_json, for the discovery document and then for the keys.

DiscoveredOnce(url) ==
    cache[url] # NotCached /\ (url = Discovery \/ cache[url].until > now)
Valid(url) == cache[url] # NotCached /\ cache[url].until > now

\* The discovery document leads to another URL, a JWKS to the check.
Using(v, payload) ==
    IF v.url = Discovery
    THEN [v EXCEPT !.pc = "lookup", !.url = CHOOSE u \in payload : TRUE, !.payload = {}, !.asked = 0]
    ELSE [v EXCEPT !.pc = "verify", !.payload = payload, !.asked = 0]

Lookup(t) ==
    /\ visit[t].pc = "lookup"
    /\ visit' = [visit EXCEPT ![t] =
                    IF Valid(visit[t].url) THEN Using(visit[t], cache[visit[t].url].payload)
                    ELSE [visit[t] EXCEPT !.pc = "fetch", !.asked = now]]
    /\ UNCHANGED <<outside, cache>>

Served(url) == IF url = Discovery THEN {provider.uri} ELSE provider.keys[url]

\* The provider answers now; the answer arrives at Store.
Fetch(t) ==
    /\ visit[t].pc = "fetch"
    /\ visit' = [visit EXCEPT ![t].pc = "store", ![t].payload = Served(visit[t].url)]
    /\ UNCHANGED <<outside, cache>>

\* An entry that has expired does not help.
FetchFails(t) ==
    /\ visit[t].pc \in {"fetch", "store"}
    /\ visit' = [visit EXCEPT ![t] = Refused(visit[t].request)]
    /\ UNCHANGED <<outside, cache>>

StampedLate(v) == [until |-> now + TTL, payload |-> v.payload]
Entry(v) == [until |-> v.asked + TTL, payload |-> v.payload]

Store(t) ==
    /\ visit[t].pc = "store"
    /\ cache' = [cache EXCEPT ![visit[t].url] = Entry(visit[t])]
    /\ visit' = [visit EXCEPT ![t] = Using(visit[t], visit[t].payload)]
    /\ UNCHANGED outside

-----------------------------------------------------------------------------
\* _validate_rs256_jwt

\* A token without a kid needs a JWKS of one key.
Selected(token, keys) ==
    IF token.kid # NoKid THEN keys \cap {token.kid}
    ELSE IF Cardinality(keys) = 1 THEN keys ELSE {}

Accepts(token, keys) == Selected(token, keys) = {token.key} /\ ~Expired(token)

Verify(t) ==
    LET token == Request[visit[t].request].token
        keys == visit[t].payload
    IN /\ visit[t].pc = "verify"
       /\ visit' = [visit EXCEPT ![t] = IF Accepts(token, keys)
                                        THEN Known(visit[t].request, RoleOf(token))
                                        ELSE Refused(visit[t].request)]
       /\ UNCHANGED <<outside, cache>>

-----------------------------------------------------------------------------
\* evaluate_action_policy: what the local policy denies, the engine is not asked.

Decided(t, allowed, source) ==
    visit' = [visit EXCEPT ![t].pc = "record",
                           ![t].decision = [allowed |-> allowed, source |-> source]]

Locally(t) == visit[t].role \in ActionRoles[Request[visit[t].request].action]

Decide(t) ==
    /\ visit[t].pc = "known"
    /\ IF Locally(t) /\ option.engine THEN visit' = [visit EXCEPT ![t].pc = "ask"]
       ELSE Decided(t, Locally(t), "local")
    /\ UNCHANGED <<outside, cache>>

AllowedOrLocal(t) == Decided(t, TRUE, IF engine = "permits" THEN "external" ELSE "local")
\* "external_decision or local_decision": a decision is true whatever it says.
Answered(t) == Decided(t, engine = "permits", "external")

Ask(t) ==
    /\ visit[t].pc = "ask"
    /\ engine \in {"permits", "forbids"}
    /\ Answered(t)
    /\ UNCHANGED <<outside, cache>>

\* A PolicyError: the request is refused, and nothing is recorded.
AskGarbled(t) ==
    /\ visit[t].pc = "ask"
    /\ engine = "malformed"
    /\ visit' = [visit EXCEPT ![t] = Refused(visit[t].request)]
    /\ UNCHANGED <<outside, cache>>

AskInVain(t) ==
    /\ visit[t].pc = "ask"
    /\ engine = "down"
    /\ Decided(t, option.failOpen, IF option.failOpen THEN "external_fail_open" ELSE "external")
    /\ UNCHANGED <<outside, cache>>

\* _record_policy_decision, a transaction of its own; its failure is logged.
Obeyed(t, row, lost) ==
    visit' = [visit EXCEPT ![t].row = row, ![t].lost = lost,
                           ![t].pc = IF visit[t].decision.allowed THEN "admitted" ELSE "refused"]

RecordAdmitted(v) == IF v.decision.allowed THEN v.decision ELSE NoRow
Row(v) == IF option.audit THEN v.decision ELSE NoRow

Record(t) ==
    /\ visit[t].pc = "record"
    /\ Obeyed(t, Row(visit[t]), FALSE)
    /\ UNCHANGED <<outside, cache>>

RecordFails(t) ==
    /\ visit[t].pc = "record" /\ option.audit
    /\ Obeyed(t, NoRow, TRUE)
    /\ UNCHANGED <<outside, cache>>

Leave(t) ==
    /\ visit[t].pc \in {"admitted", "refused"}
    /\ visit' = [visit EXCEPT ![t] = Idle]
    /\ UNCHANGED <<outside, cache>>

-----------------------------------------------------------------------------
\* The provider, the engine and the clock.

Publish(p) ==
    /\ changes < MaxChanges /\ p # provider
    /\ changes' = changes + 1
    /\ provider' = p
    /\ past' = [past EXCEPT ![now] = @ \cup {p}]
    /\ UNCHANGED <<option, now, engine, cache, visit>>

EngineTurns(e) ==
    /\ option.engine /\ changes < MaxChanges /\ e # engine
    /\ changes' = changes + 1
    /\ engine' = e
    /\ visit' = [t \in Threads |-> IF visit[t].engines = {} THEN visit[t]
                                   ELSE [visit[t] EXCEPT !.engines = @ \cup {e}]]
    /\ UNCHANGED <<option, now, provider, past, cache>>

Tick ==
    /\ now < MaxTime
    /\ now' = now + 1
    /\ past' = [past EXCEPT ![now + 1] = {provider}]
    /\ UNCHANGED <<option, provider, engine, changes, cache, visit>>

-----------------------------------------------------------------------------
Init ==
    /\ option \in Options
    /\ now = 0
    /\ provider \in Providers
    /\ engine \in IF option.engine THEN {"permits", "forbids"} ELSE {"permits"}
    /\ cache = [u \in Urls |-> NotCached]
    /\ visit = [t \in Threads |-> Idle]
    /\ past = [i \in 0..MaxTime |-> IF i = 0 THEN {provider} ELSE {}]
    /\ changes = 0

Authenticate(t) ==
    \/ \E r \in Requests : Arrive(t, r)
    \/ Lookup(t) \/ Fetch(t) \/ FetchFails(t) \/ Store(t) \/ Verify(t)

Enforce(t) ==
    \/ Decide(t) \/ Ask(t) \/ AskGarbled(t) \/ AskInVain(t)
    \/ Record(t) \/ RecordFails(t) \/ Leave(t)

Environment ==
    \/ \E p \in Providers : Publish(p)
    \/ \E e \in EngineStates : EngineTurns(e)
    \/ Tick

Next == (\E t \in Threads : Authenticate(t) \/ Enforce(t)) \/ Environment

Spec == Init /\ [][Next]_vars

-----------------------------------------------------------------------------
Pcs == {"idle", "lookup", "fetch", "store", "verify", "known", "ask", "record", "admitted", "refused"}
Decisions == [allowed : BOOLEAN, source : {"local", "external", "external_fail_open"}]

\* Types, and that a payload is what its URL serves.
TypeOK ==
    /\ option \in Options /\ now \in 0..MaxTime /\ changes \in 0..MaxChanges
    /\ provider \in Providers /\ engine \in EngineStates
    /\ past \in [0..MaxTime -> SUBSET Providers]
    /\ \A u \in Urls : cache[u] # NotCached =>
        /\ cache[u].payload \in IF u = Discovery THEN {{v} : v \in JwksUrls} ELSE SUBSET Keys
        /\ cache[u].until \in 1..(now + TTL)
    /\ \A t \in Threads :
        /\ visit[t].pc \in Pcs /\ visit[t].payload \subseteq JwksUrls \cup Keys
        /\ visit[t].pc = "verify" => visit[t].payload \subseteq Keys
        /\ visit[t].decision \in Decisions /\ visit[t].row \in Decisions \cup {NoRow}
        /\ visit[t].role \in Roles /\ visit[t].start \in 0..now /\ visit[t].asked \in 0..now
        /\ visit[t].engines \subseteq EngineStates

\* The ticks that a request may know of by way of the cache.
Window(t) == {i \in 0..now : i > visit[t].start - TTL}
PastProviders(t) == UNION {past[i] : i \in Window(t)}

Settings(t) == visit[t].pc = "verify" /\ visit'[t].pc # "verify"

\* A retired key is accepted for one TTL at most: when a token is accepted, its
\* key was listed at a URL less than a TTL before the request came, and the
\* provider named that URL less than a TTL before it came, too.
KeyWindow ==
    [][\A t \in Threads : Settings(t) /\ visit'[t].pc = "known"
          => \E u \in JwksUrls :
                /\ option.keys = u \/ \E p \in PastProviders(t) : p.uri = u
                /\ \E p \in PastProviders(t) : Request[visit[t].request].token.key \in p.keys[u]]_vars

\* A new key is known after one TTL: a token that names its key, and is not
\* expired, is refused only if the key has not been published for that long.
KeyKnown ==
    [][\A t \in Threads : Settings(t) /\ visit'[t].pc = "refused"
          => LET token == Request[visit[t].request].token
                 url(p) == IF option.keys = Discovery THEN p.uri ELSE option.keys
             IN \/ token.kid # token.key \/ Expired(token)
                \/ \E p \in PastProviders(t) :
                      token.key \notin p.keys[url(p)] \/ url(p) # url(provider)]_vars

\* The engine narrows what the local policy allows and never widens it, and its
\* word is final: an admitted request has a role that its action is open to, and
\* the engine permitted it while it was served, or was down and may be ignored.
PolicyHolds ==
    \A t \in Threads : visit[t].pc = "admitted"
        => /\ visit[t].role \in ActionRoles[Request[visit[t].request].action]
           /\ \/ ~option.engine
              \/ "permits" \in visit[t].engines
              \/ "down" \in visit[t].engines /\ option.failOpen
           /\ option.tokens => Request[visit[t].request].token # NoToken

\* What policy_decisions holds of a request agrees with what became of it, and
\* only failures leave it without a row.
DecisionsTold ==
    [][\A t \in Threads :
          visit[t].pc \in {"ask", "record"} /\ visit'[t].pc \in {"admitted", "refused"}
          => \/ visit'[t].row # NoRow /\ visit'[t].row.allowed = (visit'[t].pc = "admitted")
             \/ ~option.audit \/ engine = "malformed" \/ visit'[t].lost]_vars

-----------------------------------------------------------------------------
\* README.md:382: the last allow and deny decisions are stored in
\* policy_decisions.  With the audit on, a request that was decided has a row
\* unless writing it failed.
DecisionsStored ==
    [][\A t \in Threads :
          /\ option.audit
          /\ visit[t].pc \in {"ask", "record"} /\ visit'[t].pc \in {"admitted", "refused"}
          => visit'[t].row # NoRow \/ visit'[t].lost]_vars
=============================================================================
