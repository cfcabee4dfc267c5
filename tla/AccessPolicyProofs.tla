------------------------- MODULE AccessPolicyProofs -------------------------
(***************************************************************************)
(* Theorems about AccessPolicy for any number of threads, requests, keys,  *)
(* URLs and providers, and for every TTL and clock skew.                   *)
(***************************************************************************)
EXTENDS AccessPolicy, TLAPS

-----------------------------------------------------------------------------
\* The inductive invariant.

\* What the URL serves when p is the provider.
ServedBy(p, url) == IF url = Discovery THEN {p.uri} ELSE p.keys[url]

\* The providers there were from a tick on that is less than a TTL before v
\* came.
Reached(v) == UNION {past[i] : i \in {i \in 0..now : i > v.start - TTL}}

Visits == [pc : Pcs, request : Requests \cup {NoRequest}, url : Urls, asked : Nat,
           payload : SUBSET (JwksUrls \cup Keys), role : Roles, decision : Decisions,
           row : Decisions \cup {NoRow}, lost : BOOLEAN, start : Nat,
           engines : SUBSET EngineStates]

Authenticating == {"lookup", "fetch", "store", "verify"}
Deciding == {"known", "ask", "record"}

\* Where a request looks for keys: the provider named that URL not long ago.
Directed(v) ==
    \/ v.url = option.keys
    \/ option.keys = Discovery /\ v.url \in JwksUrls /\ \E p \in Reached(v) : p.uri = v.url

\* What a request holds was served not long ago, too.
Grounded(v) ==
    /\ v.pc \in Authenticating => v.request \in Requests /\ Request[v.request].token.alg = "RS256"
    /\ v.pc \in Authenticating => Directed(v)
    /\ v.pc \in {"fetch", "store"} => v.start <= v.asked
    /\ v.pc = "store" => \E i \in v.asked..now : \E p \in past[i] : v.payload = ServedBy(p, v.url)
    /\ v.pc = "verify" =>
        v.url \in JwksUrls /\ \E p \in Reached(v) : v.payload = ServedBy(p, v.url)

Permitted(v) ==
    /\ v.role \in ActionRoles[Request[v.request].action]
    /\ \/ ~option.engine
       \/ "permits" \in v.engines
       \/ "down" \in v.engines /\ option.failOpen

\* What has been decided of a request agrees with what was heard since.
Judged(v) ==
    /\ v.pc \in Deciding \cup {"admitted"} =>
        v.request \in Requests /\ (option.tokens => Request[v.request].token # NoToken)
    /\ v.pc \in Deciding => engine \in v.engines
    /\ v.pc = "ask" => option.engine /\ v.role \in ActionRoles[Request[v.request].action]
    /\ v.pc = "record" /\ v.decision.allowed => Permitted(v)
    /\ v.pc = "admitted" => Permitted(v)

VisitOK(v) ==
    /\ v \in Visits
    /\ v.start <= now /\ v.asked <= now
    /\ Grounded(v)
    /\ Judged(v)

\* An entry holds what its URL served, and is used for a TTL from then at most.
EntryOK(u, entry) ==
    /\ entry \in [until : Nat, payload : SUBSET (JwksUrls \cup Keys)]
    /\ entry # NotCached =>
        \E i \in 0..now : \E p \in past[i] :
            /\ entry.payload = ServedBy(p, u)
            /\ entry.until \in 1..(i + TTL)

Settled ==
    /\ option \in Options /\ now \in 0..MaxTime /\ changes \in 0..MaxChanges
    /\ provider \in Providers /\ engine \in EngineStates
    /\ past \in [0..MaxTime -> SUBSET Providers]
    /\ provider \in past[now]

IInv ==
    /\ Settled
    /\ cache = [u \in Urls |-> cache[u]]
    /\ visit = [t \in Threads |-> visit[t]]
    /\ \A u \in Urls : EntryOK(u, cache[u])
    /\ \A t \in Threads : VisitOK(visit[t])

-----------------------------------------------------------------------------
\* What the constants and the requests are.

LEMMA TokenShape ==
  ASSUME NEW r \in Requests
  PROVE  /\ Request[r].token \in Tokens \cup {NoToken}
         /\ Request[r].role \in Roles
         /\ Request[r].token # NoToken => Request[r].token.claims \subseteq Roles \cup DOMAIN GroupRole
         /\ Request[r].token.alg = "RS256" => Request[r].token.key \in Keys
         /\ Request[r].token.alg = "RS256" => Request[r].token # NoToken
<1>1. Request[r] \in [token : Tokens \cup {NoToken}, role : Roles, action : DOMAIN ActionRoles]
  BY AccessAssumption
<1> QED
  BY <1>1 DEF Tokens, NoToken

\* There is a highest role among those that a token claims.
LEMMA HighestRole ==
  ASSUME NEW claimed \in SUBSET Roles, claimed # {}
  PROVE  \E r \in claimed : \A s \in claimed : ROLE_ORDER[s] <= ROLE_ORDER[r]
<1>1. /\ ROLE_ORDER["external_partner"] = 0 /\ ROLE_ORDER["researcher"] = 1
      /\ ROLE_ORDER["analyst"] = 2 /\ ROLE_ORDER["manager"] = 3 /\ ROLE_ORDER["admin"] = 4
  BY DEF ROLE_ORDER
<1>2. CASE "admin" \in claimed
  BY <1>1, <1>2 DEF Roles
<1>3. CASE "admin" \notin claimed /\ "manager" \in claimed
  BY <1>1, <1>3 DEF Roles
<1>4. CASE claimed \cap {"admin", "manager"} = {} /\ "analyst" \in claimed
  BY <1>1, <1>4 DEF Roles
<1>5. CASE claimed \cap {"admin", "manager", "analyst"} = {} /\ "researcher" \in claimed
  BY <1>1, <1>5 DEF Roles
<1>6. CASE claimed = {"external_partner"}
  BY <1>1, <1>6
<1> QED
  BY <1>2, <1>3, <1>4, <1>5, <1>6 DEF Roles

LEMMA RoleIsRole ==
  ASSUME NEW token, token.claims \subseteq Roles \cup DOMAIN GroupRole
  PROVE  RoleOf(token) \in Roles
<1>1. ClaimedRoles(token) \in SUBSET Roles
  BY AccessAssumption DEF ClaimedRoles
<1>2. CASE ClaimedRoles(token) = {}
  BY <1>2, AccessAssumption DEF RoleOf
<1>3. CASE ClaimedRoles(token) # {}
  <2>1. \E h \in ClaimedRoles(token) : \A s \in ClaimedRoles(token) : ROLE_ORDER[s] <= ROLE_ORDER[h]
    BY <1>1, <1>3, HighestRole
  <2>2. RoleOf(token) \in ClaimedRoles(token)
    BY <1>3, <2>1 DEF RoleOf
  <2> QED
    BY <1>1, <2>2
<1> QED
  BY <1>2, <1>3

LEMMA IdleOK == Idle \in Visits
BY AccessAssumption DEF Idle, Visits, Pcs, NoRow, Denied, Decisions, Urls, NoRequest

LEMMA ServedShape ==
  ASSUME NEW p \in Providers, NEW u \in Urls
  PROVE  /\ ServedBy(p, u) \in SUBSET (JwksUrls \cup Keys)
         /\ u = Discovery => ServedBy(p, u) = {p.uri} /\ p.uri \in JwksUrls
         /\ u \in JwksUrls => ServedBy(p, u) = p.keys[u] /\ p.keys[u] \subseteq Keys
<1>1. p \in [uri : JwksUrls, keys : [JwksUrls -> SUBSET Keys]]
  BY AccessAssumption
<1> QED
  BY <1>1, AccessAssumption DEF ServedBy, Urls

-----------------------------------------------------------------------------
\* Steps of one thread.

\* A thread moves, and perhaps the cache; the world stands still.
LEMMA OneMoves ==
  ASSUME IInv, NEW t \in Threads, NEW new, VisitOK(new),
         visit' = [visit EXCEPT ![t] = new], UNCHANGED outside,
         \/ cache' = cache
         \/ \E u \in Urls : \E entry : EntryOK(u, entry) /\ cache' = [cache EXCEPT ![u] = entry]
  PROVE  IInv'
<1>1. UNCHANGED <<option, now, provider, engine, past, changes>>
  BY DEF outside
<1>2. Settled'
  BY <1>1 DEF IInv, Settled
<1>3. \A v : VisitOK(v) => VisitOK(v)'
  BY <1>1 DEF VisitOK, Grounded, Judged, Directed, Permitted, Reached
<1>4. visit' = [s \in Threads |-> visit'[s]] /\ \A s \in Threads : VisitOK(visit'[s])
  BY DEF IInv
<1>5. \A u \in Urls : \A entry : EntryOK(u, entry) => EntryOK(u, entry)'
  BY <1>1 DEF EntryOK
<1>6. cache' = [u \in Urls |-> cache'[u]] /\ \A u \in Urls : EntryOK(u, cache'[u])
  BY DEF IInv
<1> QED
  BY <1>2, <1>3, <1>4, <1>5, <1>6 DEF IInv

\* A request that is refused, or whose caller is known, starts over.
LEMMA RefusedOK ==
  ASSUME IInv, NEW r \in Requests \cup {NoRequest}
  PROVE  VisitOK(Refused(r))
<1>1. /\ Refused(r) \in Visits /\ Refused(r).pc = "refused"
      /\ Refused(r).start = 0 /\ Refused(r).asked = 0
  BY IdleOK DEF Refused, Visits, Idle, Pcs
<1> QED
  BY <1>1, AccessAssumption DEF VisitOK, Grounded, Judged, Authenticating, Deciding, IInv, Settled

LEMMA KnownOK ==
  ASSUME IInv, NEW r \in Requests, NEW role \in Roles,
         option.tokens => Request[r].token # NoToken
  PROVE  VisitOK(Known(r, role))
<1>1. /\ Known(r, role) \in Visits /\ Known(r, role).pc = "known" /\ Known(r, role).request = r
      /\ Known(r, role).start = 0 /\ Known(r, role).asked = 0 /\ Known(r, role).engines = {engine}
  BY IdleOK DEF Known, Visits, Idle, Pcs, IInv, Settled
<1> QED
  BY <1>1, AccessAssumption DEF VisitOK, Grounded, Judged, Authenticating, Deciding, IInv, Settled

-----------------------------------------------------------------------------
\* Authentication.

LEMMA ArriveOK ==
  ASSUME IInv, NEW r \in Requests
  PROVE  VisitOK(Admission(r))
<1>1. CASE Admission(r) = Refused(r)
  BY <1>1, RefusedOK
<1>2. CASE Request[r].token = NoToken /\ ~option.tokens
  BY <1>2, TokenShape, KnownOK DEF Admission
<1>3. CASE Request[r].token # NoToken /\ Admission(r) = Known(r, RoleOf(Request[r].token))
  BY <1>3, TokenShape, RoleIsRole, KnownOK
<1>4. CASE Request[r].token # NoToken /\ Request[r].token.alg = "RS256"
  <2> DEFINE new == [Idle EXCEPT !.pc = "lookup", !.request = r, !.url = option.keys, !.start = now]
  <2>1. option.keys \in Urls /\ now \in Nat
    BY AccessAssumption DEF IInv, Settled, Urls
  <2>2. /\ new \in Visits /\ new.pc = "lookup" /\ new.request = r /\ new.url = option.keys
        /\ new.start = now /\ new.asked = 0
    BY <2>1, IdleOK DEF Visits, Idle, Pcs
  <2>3. new = Admission(r)
    BY <1>4 DEF Admission
  <2> HIDE DEF new
  <2> QED
    BY <1>4, <2>1, <2>2, <2>3 DEF VisitOK, Grounded, Judged, Directed, Deciding
<1> QED
  BY <1>1, <1>2, <1>3, <1>4 DEF Admission

\* What was served since less than a TTL before a request came may be used.
LEMMA UsingOK ==
  ASSUME IInv, NEW v, VisitOK(v), v.pc \in {"lookup", "store"},
         NEW p \in Reached(v), NEW payload, payload = ServedBy(p, v.url)
  PROVE  VisitOK(Using(v, payload))
<1>1. v \in Visits /\ v.url \in Urls /\ v.pc \in Authenticating /\ v.start <= now
  BY DEF VisitOK, Visits, Authenticating
<1>2. p \in Providers
  <2>1. PICK i \in 0..now : p \in past[i]
    BY DEF Reached
  <2>2. i \in 0..MaxTime
    BY AccessAssumption DEF IInv, Settled
  <2> QED
    BY <2>1, <2>2 DEF IInv, Settled
<1>3. Directed(v) /\ v.request \in Requests /\ Request[v.request].token.alg = "RS256"
  BY <1>1 DEF VisitOK, Grounded
<1>4. now \in Nat
  BY AccessAssumption DEF IInv, Settled
<1>5. CASE v.url = Discovery
  <2> DEFINE new == [v EXCEPT !.pc = "lookup", !.url = p.uri, !.payload = {}, !.asked = 0]
  <2>1. payload = {p.uri} /\ p.uri \in JwksUrls
    BY <1>1, <1>2, <1>5, ServedShape
  <2>2. /\ new \in Visits /\ new.pc = "lookup" /\ new.url = p.uri /\ new.asked = 0
        /\ new.request = v.request /\ new.start = v.start
    BY <1>1, <2>1 DEF Visits, Pcs, Urls
  <2>3. Using(v, payload) = new
    BY <1>5, <2>1 DEF Using
  <2>4. Reached(new) = Reached(v)
    BY <2>2 DEF Reached
  <2>5. option.keys = Discovery
    BY <1>3, <1>5, AccessAssumption DEF Directed
  <2> HIDE DEF new
  <2>6. Directed(new)
    BY <2>1, <2>2, <2>4, <2>5 DEF Directed
  <2> QED
    BY <1>1, <1>3, <1>4, <2>2, <2>3, <2>6 DEF VisitOK, Grounded, Judged, Deciding
<1>6. CASE v.url \in JwksUrls
  <2> DEFINE new == [v EXCEPT !.pc = "verify", !.payload = payload, !.asked = 0]
  <2>1. payload \in SUBSET (JwksUrls \cup Keys)
    BY <1>1, <1>2, ServedShape
  <2>2. /\ new \in Visits /\ new.pc = "verify" /\ new.url = v.url /\ new.asked = 0
        /\ new.request = v.request /\ new.start = v.start /\ new.payload = payload
    BY <1>1, <2>1 DEF Visits, Pcs
  <2>3. Using(v, payload) = new
    BY <1>6, AccessAssumption DEF Using
  <2>4. Reached(new) = Reached(v)
    BY <2>2 DEF Reached
  <2> HIDE DEF new
  <2>5. Directed(new)
    BY <1>3, <2>2, <2>4 DEF Directed
  <2> QED
    BY <1>1, <1>3, <1>4, <1>6, <2>2, <2>3, <2>4, <2>5 DEF VisitOK, Grounded, Judged, Deciding
<1> QED
  BY <1>1, <1>5, <1>6 DEF Urls

LEMMA LookupKeeps ==
  ASSUME IInv, NEW t \in Threads, Lookup(t)
  PROVE  IInv'
<1> DEFINE v == visit[t]
           url == visit[t].url
           new == IF Valid(url) THEN Using(v, cache[url].payload)
                  ELSE [v EXCEPT !.pc = "fetch", !.asked = now]
<1>1. /\ v.pc = "lookup" /\ visit' = [visit EXCEPT ![t] = new]
      /\ UNCHANGED outside /\ cache' = cache
  BY DEF Lookup
<1>2. VisitOK(v) /\ EntryOK(url, cache[url])
  BY DEF IInv, VisitOK, Visits
<1>3. now \in Nat /\ TTL \in Nat
  BY AccessAssumption DEF IInv, Settled
<1>4. v \in Visits /\ v.start \in Nat /\ v.start <= now
  BY <1>2 DEF VisitOK, Visits
<1> HIDE DEF v
<1>5. CASE Valid(url)
  <2>1. cache[url] # NotCached /\ cache[url].until > now
    BY <1>5 DEF Valid
  <2>2. PICK i \in 0..now : \E p \in past[i] :
          cache[url].payload = ServedBy(p, url) /\ cache[url].until \in 1..(i + TTL)
    BY <1>2, <2>1 DEF EntryOK
  <2>3. PICK p \in past[i] :
          cache[url].payload = ServedBy(p, url) /\ cache[url].until \in 1..(i + TTL)
    BY <2>2
  <2>4. i > v.start - TTL
    BY <1>3, <1>4, <2>1, <2>3
  <2>5. p \in Reached(v)
    BY <2>3, <2>4 DEF Reached
  <2>6. VisitOK(Using(v, cache[url].payload))
    BY <1>1, <1>2, <2>3, <2>5, UsingOK DEF v
  <2> QED
    BY <1>1, <1>5, <2>6, OneMoves
<1>6. CASE ~Valid(url)
  <2> DEFINE asking == [v EXCEPT !.pc = "fetch", !.asked = now]
  <2>1. /\ asking \in Visits /\ asking.pc = "fetch" /\ asking.asked = now
        /\ asking.url = v.url /\ asking.request = v.request /\ asking.start = v.start
    BY <1>3, <1>4 DEF Visits, Pcs
  <2>2. Reached(asking) = Reached(v)
    BY <2>1 DEF Reached
  <2>3. new = asking
    BY <1>6
  <2> HIDE DEF asking, new
  <2>4. VisitOK(asking)
    BY <1>1, <1>2, <1>3, <1>4, <2>1, <2>2 DEF VisitOK, Grounded, Judged, Directed, Deciding, Authenticating
  <2> QED
    BY <1>1, <2>3, <2>4, OneMoves
<1> QED
  BY <1>5, <1>6

LEMMA FetchKeeps ==
  ASSUME IInv, NEW t \in Threads, Fetch(t)
  PROVE  IInv'
<1> DEFINE v == visit[t]
           new == [v EXCEPT !.pc = "store", !.payload = Served(v.url)]
<1>1. /\ v.pc = "fetch" /\ visit' = [visit EXCEPT ![t] = new]
      /\ UNCHANGED outside /\ cache' = cache
  BY DEF Fetch, IInv
<1>2. VisitOK(v) /\ v \in Visits
  BY DEF IInv, VisitOK
<1> HIDE DEF v
<1>3. /\ now \in Nat /\ provider \in past[now] /\ provider \in Providers
      /\ Served(v.url) = ServedBy(provider, v.url)
  BY AccessAssumption DEF IInv, Settled, Served, ServedBy
<1>4. Served(v.url) \in SUBSET (JwksUrls \cup Keys)
  BY <1>2, <1>3, ServedShape DEF Visits
<1>5. /\ new \in Visits /\ new.pc = "store" /\ new.payload = Served(v.url)
      /\ new.url = v.url /\ new.request = v.request /\ new.start = v.start /\ new.asked = v.asked
  BY <1>2, <1>4 DEF Visits, Pcs
<1>6. Reached(new) = Reached(v)
  BY <1>5 DEF Reached
<1> HIDE DEF new
<1>7. now \in new.asked..now
  BY <1>2, <1>3, <1>5 DEF VisitOK, Visits
<1>8. VisitOK(new)
  BY <1>1, <1>2, <1>3, <1>5, <1>6, <1>7 DEF VisitOK, Grounded, Judged, Directed, Deciding, Authenticating
<1> QED
  BY <1>1, <1>8, OneMoves

LEMMA RefusalKeeps ==
  ASSUME IInv, NEW t \in Threads, FetchFails(t) \/ AskGarbled(t)
  PROVE  IInv'
<1>1. visit[t].request \in Requests \cup {NoRequest}
  BY DEF IInv, VisitOK, Visits
<1>2. /\ visit' = [visit EXCEPT ![t] = Refused(visit[t].request)]
      /\ UNCHANGED outside /\ cache' = cache
  BY DEF FetchFails, AskGarbled
<1> QED
  BY <1>1, <1>2, RefusedOK, OneMoves

LEMMA StoreKeeps ==
  ASSUME IInv, NEW t \in Threads, Store(t)
  PROVE  IInv'
<1> DEFINE v == visit[t]
<1>1. /\ v.pc = "store" /\ visit' = [visit EXCEPT ![t] = Using(v, v.payload)]
      /\ cache' = [cache EXCEPT ![v.url] = Entry(v)] /\ UNCHANGED outside
  BY DEF Store
<1>2. VisitOK(v) /\ v \in Visits /\ v.url \in Urls
  BY DEF IInv, VisitOK, Visits
<1> HIDE DEF v
<1>3. PICK i \in v.asked..now : \E p \in past[i] : v.payload = ServedBy(p, v.url)
  BY <1>1, <1>2 DEF VisitOK, Grounded
<1>4. PICK p \in past[i] : v.payload = ServedBy(p, v.url)
  BY <1>3
<1>5. /\ v.start \in Nat /\ v.asked \in Nat /\ v.start <= v.asked
      /\ now \in Nat /\ TTL \in Nat \ {0}
  BY <1>1, <1>2, AccessAssumption DEF VisitOK, Grounded, Visits, IInv, Settled
<1>6. i \in 0..now /\ i > v.start - TTL /\ v.asked + TTL \in 1..(i + TTL)
  BY <1>3, <1>5
<1>7. VisitOK(Using(v, v.payload))
  <2>1. p \in Reached(v)
    BY <1>4, <1>6 DEF Reached
  <2> QED
    BY <1>1, <1>2, <1>4, <2>1, UsingOK
<1>8. EntryOK(v.url, Entry(v))
  BY <1>2, <1>4, <1>5, <1>6 DEF EntryOK, Entry, Visits
<1> QED
  BY <1>1, <1>2, <1>7, <1>8, OneMoves

LEMMA VerifyKeeps ==
  ASSUME IInv, NEW t \in Threads, Verify(t)
  PROVE  IInv'
<1> DEFINE r == visit[t].request
<1>1. /\ visit[t].pc = "verify" /\ UNCHANGED outside /\ cache' = cache
      /\ \/ visit' = [visit EXCEPT ![t] = Known(r, RoleOf(Request[r].token))]
         \/ visit' = [visit EXCEPT ![t] = Refused(r)]
  BY DEF Verify
<1>2. r \in Requests /\ Request[r].token.alg = "RS256"
  BY <1>1 DEF IInv, VisitOK, Grounded, Authenticating
<1> HIDE DEF r
<1>3. VisitOK(Known(r, RoleOf(Request[r].token))) /\ VisitOK(Refused(r))
  BY <1>2, TokenShape, RoleIsRole, KnownOK, RefusedOK
<1> QED
  BY <1>1, <1>3, OneMoves

-----------------------------------------------------------------------------
\* Enforcement.

\* What keeps its request, role and what was heard of the engine, and only
\* moves on, is as good as the decision it takes.
LEMMA MovedOK ==
  ASSUME IInv, NEW v, VisitOK(v), v.pc \in Deciding,
         NEW new \in Visits, new.pc \in {"ask", "record", "admitted", "refused"},
         new.request = v.request, new.role = v.role, new.engines = v.engines,
         new.start = v.start, new.asked = v.asked,
         new.pc = "ask" => option.engine /\ v.role \in ActionRoles[Request[v.request].action],
         new.pc = "record" /\ new.decision.allowed => Permitted(v),
         new.pc = "admitted" => Permitted(v)
  PROVE  VisitOK(new)
BY DEF VisitOK, Grounded, Judged, Permitted, Deciding, Authenticating

LEMMA DecidedKeeps ==
  ASSUME IInv, NEW t \in Threads, visit[t].pc \in {"known", "ask"},
         NEW allowed \in BOOLEAN, NEW source \in {"local", "external", "external_fail_open"},
         Decided(t, allowed, source), UNCHANGED <<outside, cache>>,
         allowed => Permitted(visit[t])
  PROVE  IInv'
<1> DEFINE v == visit[t]
           decision == [allowed |-> allowed, source |-> source]
           new == [v EXCEPT !.pc = "record", !.decision = decision]
<1>1. visit' = [visit EXCEPT ![t] = new] /\ UNCHANGED outside /\ cache' = cache
  BY DEF Decided, IInv
<1>2. VisitOK(v) /\ v \in Visits /\ v.pc \in Deciding
  BY DEF IInv, VisitOK, Deciding
<1>3. decision \in Decisions /\ decision.allowed = allowed
  BY DEF Decisions
<1> HIDE DEF v, decision
<1>4. /\ new \in Visits /\ new.pc = "record" /\ new.decision = decision /\ new.request = v.request
      /\ new.role = v.role /\ new.engines = v.engines /\ new.start = v.start /\ new.asked = v.asked
  BY <1>2, <1>3 DEF Visits, Pcs
<1> HIDE DEF new
<1>5. VisitOK(new)
  BY <1>2, <1>3, <1>4, MovedOK DEF v
<1> QED
  BY <1>1, <1>5, OneMoves

LEMMA DecideKeeps ==
  ASSUME IInv, NEW t \in Threads, Decide(t)
  PROVE  IInv'
<1> DEFINE v == visit[t]
           new == [v EXCEPT !.pc = "ask"]
<1>1. v.pc = "known" /\ UNCHANGED outside /\ cache' = cache
  BY DEF Decide
<1>2. VisitOK(v) /\ v \in Visits
  BY DEF IInv, VisitOK
<1>3. CASE Locally(t) /\ option.engine
  <2>1. visit' = [visit EXCEPT ![t] = new]
    BY <1>3 DEF Decide, IInv
  <2>2. v.role \in ActionRoles[Request[v.request].action]
    BY <1>3 DEF Locally
  <2> HIDE DEF v
  <2>3. /\ new \in Visits /\ new.pc = "ask" /\ new.request = v.request
        /\ new.role = v.role /\ new.engines = v.engines /\ new.start = v.start /\ new.asked = v.asked
    BY <1>2 DEF Visits, Pcs
  <2> HIDE DEF new
  <2>4. VisitOK(new)
    BY <1>1, <1>2, <1>3, <2>2, <2>3, MovedOK DEF Deciding
  <2> QED
    BY <1>1, <2>1, <2>4, OneMoves
<1>4. CASE ~(Locally(t) /\ option.engine)
  <2>1. Decided(t, Locally(t), "local") /\ Locally(t) \in BOOLEAN
    BY <1>4 DEF Decide, Locally
  <2>2. Locally(t) => Permitted(v)
    BY <1>4 DEF Locally, Permitted
  <2> QED
    BY <1>1, <2>1, <2>2, DecidedKeeps
<1> QED
  BY <1>3, <1>4

LEMMA AskKeeps ==
  ASSUME IInv, NEW t \in Threads, Ask(t) \/ AskInVain(t)
  PROVE  IInv'
<1>1. visit[t].pc = "ask" /\ UNCHANGED <<outside, cache>>
  BY DEF Ask, AskInVain
<1>2. /\ engine \in visit[t].engines
      /\ visit[t].role \in ActionRoles[Request[visit[t].request].action]
  BY <1>1 DEF IInv, VisitOK, Judged, Deciding
<1>3. CASE Ask(t)
  <2>1. Decided(t, engine = "permits", "external")
    BY <1>3 DEF Ask, Answered
  <2>2. engine = "permits" => Permitted(visit[t])
    BY <1>2 DEF Permitted
  <2> QED
    BY <1>1, <2>1, <2>2, DecidedKeeps
<1>4. CASE AskInVain(t)
  <2>1. /\ engine = "down"
        /\ Decided(t, option.failOpen, IF option.failOpen THEN "external_fail_open" ELSE "external")
    BY <1>4 DEF AskInVain
  <2>2. option.failOpen \in BOOLEAN
    BY AccessAssumption DEF IInv, Settled
  <2>3. option.failOpen => Permitted(visit[t])
    BY <1>2, <2>1 DEF Permitted
  <2> QED
    BY <1>1, <2>1, <2>2, <2>3, DecidedKeeps
<1> QED
  BY <1>3, <1>4

LEMMA RecordKeeps ==
  ASSUME IInv, NEW t \in Threads, Record(t) \/ RecordFails(t)
  PROVE  IInv'
<1> DEFINE v == visit[t]
<1>1. v.pc = "record" /\ UNCHANGED outside /\ cache' = cache
  BY DEF Record, RecordFails
<1>2. VisitOK(v) /\ v \in Visits /\ v.decision \in Decisions
  BY DEF IInv, VisitOK, Visits
<1>3. PICK row \in Decisions \cup {NoRow}, lost \in BOOLEAN : Obeyed(t, row, lost)
  BY <1>2 DEF Record, RecordFails, Row
<1> DEFINE new == [v EXCEPT !.row = row, !.lost = lost,
                            !.pc = IF v.decision.allowed THEN "admitted" ELSE "refused"]
<1>4. visit' = [visit EXCEPT ![t] = new]
  BY <1>3 DEF Obeyed, IInv
<1> HIDE DEF v
<1>5. /\ new \in Visits /\ new.pc = (IF v.decision.allowed THEN "admitted" ELSE "refused")
      /\ new.request = v.request
      /\ new.role = v.role /\ new.engines = v.engines /\ new.start = v.start /\ new.asked = v.asked
  BY <1>2 DEF Visits, Pcs
<1>6. v.decision.allowed => Permitted(v)
  BY <1>1, <1>2 DEF VisitOK, Judged
<1> HIDE DEF new
<1>7. VisitOK(new)
  BY <1>1, <1>2, <1>5, <1>6, MovedOK DEF Deciding
<1> QED
  BY <1>1, <1>4, <1>7, OneMoves

LEMMA LeaveKeeps ==
  ASSUME IInv, NEW t \in Threads, Leave(t)
  PROVE  IInv'
<1>1. visit' = [visit EXCEPT ![t] = Idle] /\ UNCHANGED outside /\ cache' = cache
  BY DEF Leave
<1>2. Idle.pc = "idle" /\ Idle.start = 0 /\ Idle.asked = 0
  BY DEF Idle
<1>3. VisitOK(Idle)
  BY <1>2, IdleOK, AccessAssumption
  DEF VisitOK, Grounded, Judged, Authenticating, Deciding, IInv, Settled
<1> QED
  BY <1>1, <1>3, OneMoves

-----------------------------------------------------------------------------
\* The world around.

\* The past only grows, and so does what may be relied on.
Onward ==
    /\ Settled' /\ UNCHANGED <<option, cache>>
    /\ now <= now' /\ \A i \in 0..now : past[i] \subseteq past'[i]

LEMMA LaterOK ==
  ASSUME IInv, Onward, NEW v, VisitOK(v), NEW w \in Visits,
         w.pc = v.pc, w.request = v.request, w.url = v.url, w.asked = v.asked,
         w.payload = v.payload, w.role = v.role, w.decision = v.decision, w.start = v.start,
         v.engines \subseteq w.engines,
         w.pc \in Deciding => engine' \in w.engines
  PROVE  VisitOK(w)'
<1>1. /\ now \in Nat /\ now' \in Nat /\ now <= now' /\ TTL \in Nat
      /\ option' = option /\ \A i \in 0..now : past[i] \subseteq past'[i]
  BY AccessAssumption DEF IInv, Onward, Settled
<1>2. v.start \in Nat /\ v.asked \in Nat /\ w.start <= now' /\ w.asked <= now'
  BY <1>1 DEF VisitOK, Visits
<1>3. Reached(v) \subseteq Reached(w)'
  <2> SUFFICES ASSUME NEW i \in 0..now, i > v.start - TTL, NEW p \in past[i]
               PROVE  p \in Reached(w)'
    BY DEF Reached
  <2>1. i \in 0..now' /\ i > w.start - TTL /\ p \in past'[i]
    BY <1>1
  <2> QED
    BY <2>1 DEF Reached
<1>4. Grounded(w)'
  <2>1. Directed(v) => Directed(w)'
    BY <1>1, <1>3 DEF Directed
  <2>2. ASSUME NEW i \in v.asked..now PROVE i \in w.asked..now' /\ past[i] \subseteq past'[i]
    BY <1>1, <1>2
  <2>3. \A p : ServedBy(p, w.url)' = ServedBy(p, v.url)
    BY DEF ServedBy
  <2> QED
    BY <1>3, <2>1, <2>2, <2>3 DEF VisitOK, Grounded
<1>5. Judged(w)'
  BY <1>1 DEF VisitOK, Judged, Permitted
<1> QED
  BY <1>2, <1>4, <1>5 DEF VisitOK

LEMMA EntriesKeep ==
  ASSUME IInv, Onward
  PROVE  /\ cache' = [u \in Urls |-> cache'[u]]
         /\ \A u \in Urls : EntryOK(u, cache[u])'
<1>1. now \in Nat /\ now' \in Nat /\ now <= now' /\ cache' = cache
  BY AccessAssumption DEF IInv, Onward, Settled
<1>2. \A i \in 0..now : i \in 0..now' /\ past[i] \subseteq past'[i]
  BY <1>1 DEF Onward
<1> QED
  BY <1>1, <1>2 DEF IInv, EntryOK

LEMMA PastGrows ==
  ASSUME IInv, Onward, UNCHANGED <<engine, visit>>
  PROVE  IInv'
<1>1. \A t \in Threads : visit[t] \in Visits /\ VisitOK(visit[t])
  BY DEF IInv, VisitOK
<1>2. \A v : VisitOK(v) => VisitOK(v)'
  <2> SUFFICES ASSUME NEW v, VisitOK(v) PROVE VisitOK(v)'
    OBVIOUS
  <2>1. v \in Visits /\ (v.pc \in Deciding => engine' \in v.engines)
    BY DEF VisitOK, Judged
  <2> QED
    BY <2>1, LaterOK
<1>3. Settled' /\ visit' = visit
  BY DEF Onward
<1> QED
  BY <1>1, <1>2, <1>3, EntriesKeep DEF IInv

LEMMA PublishKeeps ==
  ASSUME IInv, NEW p \in Providers, Publish(p)
  PROVE  IInv'
<1>1. /\ changes \in 0..MaxChanges /\ changes < MaxChanges /\ MaxChanges \in Nat
      /\ now \in 0..MaxTime /\ MaxTime \in Nat /\ past \in [0..MaxTime -> SUBSET Providers]
      /\ provider' = p /\ past' = [past EXCEPT ![now] = past[now] \cup {p}]
      /\ changes' = changes + 1 /\ UNCHANGED <<option, now, engine, cache, visit>>
  BY AccessAssumption DEF IInv, Settled, Publish
<1>2. past' \in [0..MaxTime -> SUBSET Providers] /\ p \in past'[now]
  BY <1>1
<1>3. changes' \in 0..MaxChanges
  BY <1>1
<1>4. Settled'
  BY <1>1, <1>2, <1>3 DEF IInv, Settled
<1>5. \A i \in 0..now : past[i] \subseteq past'[i]
  BY <1>1
<1> QED
  BY <1>1, <1>4, <1>5, PastGrows DEF Onward

LEMMA TickKeeps ==
  ASSUME IInv, Tick
  PROVE  IInv'
<1>1. /\ now \in 0..MaxTime /\ now < MaxTime /\ MaxTime \in Nat
      /\ past \in [0..MaxTime -> SUBSET Providers] /\ provider \in Providers
      /\ now' = now + 1 /\ past' = [past EXCEPT ![now + 1] = {provider}]
      /\ UNCHANGED <<option, provider, engine, changes, cache, visit>>
  BY AccessAssumption DEF IInv, Settled, Tick
<1>2. now + 1 \in 0..MaxTime
  BY <1>1
<1>3. past' \in [0..MaxTime -> SUBSET Providers] /\ provider \in past'[now']
  BY <1>1, <1>2
<1>4. Settled'
  BY <1>1, <1>2, <1>3 DEF IInv, Settled
<1>5. now <= now' /\ \A i \in 0..now : past[i] \subseteq past'[i]
  BY <1>1
<1> QED
  BY <1>1, <1>4, <1>5, PastGrows DEF Onward

LEMMA EngineTurnsKeeps ==
  ASSUME IInv, NEW e \in EngineStates, EngineTurns(e)
  PROVE  IInv'
<1> DEFINE heard(v) == IF v.engines = {} THEN v ELSE [v EXCEPT !.engines = v.engines \cup {e}]
<1>1. /\ changes' = changes + 1 /\ engine' = e /\ changes < MaxChanges
      /\ visit' = [t \in Threads |-> heard(visit[t])]
      /\ UNCHANGED <<option, now, provider, past, cache>>
  BY DEF EngineTurns
<1>2. changes' \in 0..MaxChanges /\ now \in Nat
  BY <1>1, AccessAssumption DEF IInv, Settled
<1>3. Settled'
  BY <1>1, <1>2 DEF IInv, Settled
<1>4. Onward
  BY <1>1, <1>2, <1>3 DEF Onward
<1>5. ASSUME NEW v, VisitOK(v)
      PROVE  VisitOK(heard(v))'
  <2> DEFINE w == heard(v)
  <2>1. v \in Visits /\ (v.pc \in Deciding => engine \in v.engines)
    BY <1>5 DEF VisitOK, Judged
  <2>2. /\ w \in Visits /\ w.pc = v.pc /\ w.request = v.request /\ w.url = v.url /\ w.asked = v.asked
        /\ w.payload = v.payload /\ w.role = v.role /\ w.decision = v.decision /\ w.start = v.start
        /\ v.engines \subseteq w.engines
        /\ v.engines # {} => e \in w.engines
    BY <2>1 DEF Visits
  <2>3. w.pc \in Deciding => engine' \in w.engines
    BY <1>1, <2>1, <2>2
  <2> HIDE DEF w
  <2>4. VisitOK(w)'
    BY <1>4, <1>5, <2>2, <2>3, LaterOK
  <2> QED
    BY <2>4 DEF w
<1> HIDE DEF heard
<1>6. \A t \in Threads : VisitOK(visit[t])
  BY DEF IInv
<1>7. visit' = [t \in Threads |-> visit'[t]] /\ \A t \in Threads : visit'[t] = heard(visit[t])
  BY <1>1
<1>8. \A v : VisitOK(v) => VisitOK(heard(v))'
  BY <1>5
<1> QED
  BY <1>3, <1>4, <1>6, <1>7, <1>8, EntriesKeep DEF IInv

-----------------------------------------------------------------------------
\* All steps.

LEMMA InitIInv == Init => IInv
<1> SUFFICES ASSUME Init PROVE IInv
  OBVIOUS
<1>1. Settled
  BY AccessAssumption DEF Init, Settled, EngineStates
<1>2. \A u \in Urls : EntryOK(u, NotCached)
  BY DEF EntryOK, NotCached
<1>3. VisitOK(Idle)
  <2>1. Idle.pc = "idle" /\ Idle.start = 0 /\ Idle.asked = 0
    BY DEF Idle
  <2> QED
    BY <1>1, <2>1, IdleOK, AccessAssumption
    DEF VisitOK, Grounded, Judged, Authenticating, Deciding, Settled
<1> QED
  BY <1>1, <1>2, <1>3 DEF Init, IInv

LEMMA StutterKeeps == ASSUME IInv, UNCHANGED vars PROVE IInv'
BY DEF IInv, Settled, EntryOK, VisitOK, Grounded, Judged, Directed, Permitted, Reached, vars, outside

LEMMA NextKeeps == IInv /\ [Next]_vars => IInv'
<1> SUFFICES ASSUME IInv, [Next]_vars PROVE IInv'
  OBVIOUS
<1>1. ASSUME NEW t \in Threads, Authenticate(t)
      PROVE  IInv'
  <2>1. ASSUME NEW r \in Requests, Arrive(t, r)
        PROVE  IInv'
    BY <2>1, ArriveOK, OneMoves DEF Arrive
  <2> QED
    BY <1>1, <2>1, LookupKeeps, FetchKeeps, RefusalKeeps, StoreKeeps, VerifyKeeps DEF Authenticate
<1>2. ASSUME NEW t \in Threads, Enforce(t)
      PROVE  IInv'
  BY <1>2, DecideKeeps, AskKeeps, RefusalKeeps, RecordKeeps, LeaveKeeps DEF Enforce
<1>3. CASE Environment
  BY <1>3, PublishKeeps, EngineTurnsKeeps, TickKeeps DEF Environment
<1>4. CASE UNCHANGED vars
  BY <1>4, StutterKeeps
<1> QED
  BY <1>1, <1>2, <1>3, <1>4 DEF Next

\* What requests and the cache hold was served when they say, and what has been
\* decided of a request agrees with what was heard of the engine since.
THEOREM Invariance == Spec => []IInv
BY InitIInv, NextKeeps, PTL DEF Spec

\* What is cached, requested and decided keeps its shape, and a payload is what
\* its URL serves.
THEOREM TypeCorrect == Spec => []TypeOK
<1>1. IInv => TypeOK
  <2> SUFFICES ASSUME IInv PROVE TypeOK
    OBVIOUS
  <2>1. now \in Nat /\ TTL \in Nat /\ Settled
    BY AccessAssumption DEF IInv, Settled
  <2>2. ASSUME NEW i \in 0..now, NEW p \in past[i]
        PROVE  p \in Providers
    <3>1. i \in 0..MaxTime
      BY AccessAssumption DEF IInv, Settled
    <3> QED
      BY <2>1, <3>1 DEF Settled
  <2>3. ASSUME NEW u \in Urls, cache[u] # NotCached
        PROVE  /\ cache[u].payload \in IF u = Discovery THEN {{v} : v \in JwksUrls} ELSE SUBSET Keys
               /\ cache[u].until \in 1..(now + TTL)
    <3>1. EntryOK(u, cache[u])
      BY DEF IInv
    <3>2. PICK i \in 0..now : \E p \in past[i] :
            cache[u].payload = ServedBy(p, u) /\ cache[u].until \in 1..(i + TTL)
      BY <2>3, <3>1 DEF EntryOK
    <3>3. PICK p \in past[i] : cache[u].payload = ServedBy(p, u) /\ cache[u].until \in 1..(i + TTL)
      BY <3>2
    <3>4. p \in Providers
      BY <2>2
    <3>5. cache[u].until \in 1..(now + TTL)
      BY <2>1, <3>3
    <3> QED
      BY <3>3, <3>4, <3>5, ServedShape DEF Urls
  <2>4. ASSUME NEW t \in Threads
        PROVE  /\ visit[t].pc \in Pcs /\ visit[t].payload \subseteq JwksUrls \cup Keys
               /\ visit[t].pc = "verify" => visit[t].payload \subseteq Keys
               /\ visit[t].decision \in Decisions /\ visit[t].row \in Decisions \cup {NoRow}
               /\ visit[t].role \in Roles /\ visit[t].start \in 0..now /\ visit[t].asked \in 0..now
               /\ visit[t].engines \subseteq EngineStates
    <3>1. VisitOK(visit[t]) /\ visit[t] \in Visits
      BY DEF IInv, VisitOK
    <3>2. visit[t].start \in 0..now /\ visit[t].asked \in 0..now
      BY <2>1, <3>1 DEF VisitOK, Visits
    <3>3. ASSUME visit[t].pc = "verify" PROVE visit[t].payload \subseteq Keys
      <4>1. visit[t].url \in JwksUrls
        BY <3>1, <3>3 DEF VisitOK, Grounded
      <4>2. PICK p \in Reached(visit[t]) : visit[t].payload = ServedBy(p, visit[t].url)
        BY <3>1, <3>3 DEF VisitOK, Grounded
      <4>3. p \in Providers
        BY <2>2 DEF Reached
      <4> QED
        BY <4>1, <4>2, <4>3, ServedShape DEF Urls
    <3> QED
      BY <3>1, <3>2, <3>3 DEF Visits
  <2> QED
    BY <2>1, <2>3, <2>4 DEF TypeOK, Settled
<1> QED
  BY <1>1, Invariance, PTL

\* An admitted request has a role that its action is open to, and the engine
\* permitted it while it was served, or was down and may be ignored.
THEOREM PolicyEnforced == Spec => []PolicyHolds
<1>1. IInv => PolicyHolds
  BY DEF IInv, VisitOK, Judged, Permitted, PolicyHolds
<1> QED
  BY <1>1, Invariance, PTL

-----------------------------------------------------------------------------
\* What a step does to one request.

\* A request goes on as its own thread takes it, or as it was.
LEMMA OthersStay ==
  ASSUME IInv, [Next]_vars, NEW t \in Threads, visit'[t].pc # visit[t].pc
  PROVE  Authenticate(t) \/ Enforce(t)
<1>1. ASSUME NEW s \in Threads, Authenticate(s) \/ Enforce(s), s # t
      PROVE  visit'[t] = visit[t]
  BY <1>1 DEF IInv, Authenticate, Enforce, Arrive, Lookup, Fetch, FetchFails, Store, Verify,
              Decide, Decided, Ask, Answered, AskGarbled, AskInVain, Record, RecordFails, Obeyed, Leave
<1>2. ASSUME Environment
      PROVE  visit'[t].pc = visit[t].pc
  <2>1. CASE UNCHANGED visit
    BY <2>1
  <2>2. CASE \E e \in EngineStates : EngineTurns(e)
    <3>1. visit[t] \in Visits
      BY DEF IInv, VisitOK
    <3> QED
      BY <2>2, <3>1 DEF EngineTurns, Visits
  <2> QED
    BY <1>2, <2>1, <2>2 DEF Environment, Publish, Tick
<1>3. CASE UNCHANGED vars
  BY <1>3 DEF vars
<1> QED
  BY <1>1, <1>2, <1>3 DEF Next

\* How a token is checked, and against what.
LEMMA VerifyStep ==
  ASSUME IInv, [Next]_vars, NEW t \in Threads, Settings(t)
  PROVE  /\ visit'[t].pc \in {"known", "refused"}
         /\ visit'[t].pc = "known" <=> Accepts(Request[visit[t].request].token, visit[t].payload)
         /\ visit[t].url \in JwksUrls /\ Directed(visit[t])
         /\ \E p \in Reached(visit[t]) : visit[t].payload = p.keys[visit[t].url]
<1>1. visit[t].pc = "verify" /\ visit'[t].pc # "verify"
  BY DEF Settings
<1>2. Verify(t)
  <2>1. Authenticate(t) \/ Enforce(t)
    BY <1>1, OthersStay
  <2> QED
    BY <1>1, <2>1 DEF Authenticate, Enforce, Arrive, Lookup, Fetch, FetchFails, Store,
                      Decide, Ask, AskGarbled, AskInVain, Record, RecordFails, Leave
<1>3. visit'[t] = IF Accepts(Request[visit[t].request].token, visit[t].payload)
                  THEN Known(visit[t].request, RoleOf(Request[visit[t].request].token))
                  ELSE Refused(visit[t].request)
  BY <1>2 DEF IInv, Verify
<1>4. \A r, role : Known(r, role).pc = "known" /\ Refused(r).pc = "refused"
  BY DEF Known, Refused, Idle
<1>5. VisitOK(visit[t])
  BY DEF IInv
<1>6. /\ visit[t].url \in JwksUrls /\ Directed(visit[t])
      /\ \E p \in Reached(visit[t]) : visit[t].payload = ServedBy(p, visit[t].url)
  BY <1>1, <1>5 DEF VisitOK, Grounded, Authenticating
<1> QED
  BY <1>3, <1>4, <1>6, AccessAssumption DEF ServedBy

LEMMA PastReached ==
  ASSUME NEW t \in Threads
  PROVE  PastProviders(t) = Reached(visit[t])
BY DEF PastProviders, Window, Reached

\* A token that is accepted is signed by a key that was listed less than a TTL
\* before its request came, at a URL the provider named no longer ago.
THEOREM KeyWindowHolds == Spec => KeyWindow
<1> DEFINE Listed(t) ==
      \E u \in JwksUrls :
         /\ option.keys = u \/ \E p \in PastProviders(t) : p.uri = u
         /\ \E p \in PastProviders(t) : Request[visit[t].request].token.key \in p.keys[u]
<1>1. ASSUME IInv, [Next]_vars, NEW t \in Threads, Settings(t), visit'[t].pc = "known"
      PROVE  Listed(t)
  <2> DEFINE v == visit[t]
             token == Request[v.request].token
  <2>1. /\ Accepts(token, v.payload) /\ v.url \in JwksUrls /\ Directed(v)
        /\ \E p \in Reached(v) : v.payload = p.keys[v.url]
    BY <1>1, VerifyStep
  <2>2. token.key \in v.payload
    BY <2>1 DEF Accepts, Selected
  <2>3. option.keys = v.url \/ \E p \in PastProviders(t) : p.uri = v.url
    BY <2>1, PastReached DEF Directed
  <2> QED
    BY <2>1, <2>2, <2>3, PastReached
<1>2. IInv /\ [Next]_vars =>
        [\A t \in Threads : Settings(t) /\ visit'[t].pc = "known" => Listed(t)]_vars
  BY <1>1
<1> QED
  BY <1>2, Invariance, PTL DEF Spec, KeyWindow

\* A token that names its key and is not expired is refused only if its key has
\* not been published, where the provider says it is, for a TTL.
THEOREM KeyKnownHolds == Spec => KeyKnown
<1> DEFINE named(p) == IF option.keys = Discovery THEN p.uri ELSE option.keys
           Excused(t) ==
             LET token == Request[visit[t].request].token
                 url(p) == IF option.keys = Discovery THEN p.uri ELSE option.keys
             IN \/ token.kid # token.key \/ Expired(token)
                \/ \E p \in PastProviders(t) :
                      token.key \notin p.keys[url(p)] \/ url(p) # url(provider)
<1>1. ASSUME IInv, [Next]_vars, NEW t \in Threads, Settings(t), visit'[t].pc = "refused"
      PROVE  Excused(t)
  <2> DEFINE v == visit[t]
             token == Request[v.request].token
  <2>1. /\ ~Accepts(token, v.payload) /\ v.url \in JwksUrls /\ Directed(v)
        /\ v.request \in Requests /\ token.alg = "RS256"
    <3>1. VisitOK(v) /\ v.pc = "verify"
      BY <1>1 DEF IInv, Settings
    <3> QED
      BY <1>1, <3>1, VerifyStep DEF VisitOK, Grounded, Authenticating
  <2>2. PICK p \in Reached(v) : v.payload = p.keys[v.url]
    BY <1>1, VerifyStep
  <2>3. SUFFICES ASSUME token.kid = token.key, ~Expired(token)
                 PROVE  \E q \in PastProviders(t) : token.key \notin q.keys[named(q)] \/ named(q) # named(provider)
    OBVIOUS
  <2>4. token.key \in Keys
    BY <2>1, TokenShape
  <2>5. token.key \notin v.payload
    BY <2>1, <2>3, <2>4, AccessAssumption DEF Accepts, Selected
  <2>6. CASE named(p) = v.url
    BY <2>2, <2>5, <2>6, PastReached
  <2>7. CASE named(p) # v.url
    <3>1. PICK q \in Reached(v) : named(q) = v.url
      BY <2>1, <2>2, <2>7, AccessAssumption DEF Directed
    <3> QED
      BY <2>2, <2>7, <3>1, PastReached
  <2> QED
    BY <2>6, <2>7
<1>2. IInv /\ [Next]_vars =>
        [\A t \in Threads : Settings(t) /\ visit'[t].pc = "refused" => Excused(t)]_vars
  BY <1>1
<1> QED
  BY <1>2, Invariance, PTL DEF Spec, KeyKnown

-----------------------------------------------------------------------------
\* What is recorded of a request that was decided says what became of it, and
\* only failures leave it without a row.
THEOREM DecisionsRecorded == Spec => DecisionsTold
<1> DEFINE Told(t) ==
      \/ visit'[t].row # NoRow /\ visit'[t].row.allowed = (visit'[t].pc = "admitted")
      \/ ~option.audit \/ engine = "malformed" \/ visit'[t].lost
<1>1. ASSUME IInv, [Next]_vars, NEW t \in Threads,
             visit[t].pc \in {"ask", "record"}, visit'[t].pc \in {"admitted", "refused"}
      PROVE  Told(t)
  <2>1. Authenticate(t) \/ Enforce(t)
    BY <1>1, OthersStay
  <2>2. visit[t] \in Visits /\ visit = [s \in Threads |-> visit[s]]
    BY <1>1 DEF IInv, VisitOK
  <2>3. CASE AskGarbled(t)
    BY <2>3 DEF AskGarbled
  <2>4. CASE Record(t) \/ RecordFails(t)
    <3>1. PICK row, lost : /\ Obeyed(t, row, lost)
                           /\ row = visit[t].decision \/ ~option.audit \/ lost
      BY <2>4 DEF Record, RecordFails, Row
    <3>2. /\ visit'[t].row = row /\ visit'[t].lost = lost
          /\ visit'[t].pc = IF visit[t].decision.allowed THEN "admitted" ELSE "refused"
      BY <2>2, <3>1 DEF Obeyed, Visits
    <3>3. visit[t].decision \in Decisions
      BY <2>2 DEF Visits
    <3>4. visit[t].decision # NoRow /\ visit[t].decision.allowed \in BOOLEAN
      BY <3>3 DEF Decisions, NoRow
    <3> QED
      BY <3>1, <3>2, <3>4
  <2>5. CASE Ask(t) \/ AskInVain(t)
    <3>1. visit'[t].pc = "record"
      BY <2>2, <2>5 DEF Ask, Answered, AskInVain, Decided, Visits
    <3> QED
      BY <1>1, <3>1
  <2> QED
    BY <1>1, <2>1, <2>3, <2>4, <2>5 DEF Authenticate, Enforce, Arrive, Lookup, Fetch, FetchFails,
                                        Store, Verify, Decide, Leave
<1>2. IInv /\ [Next]_vars =>
        [\A t \in Threads :
            visit[t].pc \in {"ask", "record"} /\ visit'[t].pc \in {"admitted", "refused"} => Told(t)]_vars
  BY <1>1
<1> QED
  BY <1>2, Invariance, PTL DEF Spec, DecisionsTold
=============================================================================
