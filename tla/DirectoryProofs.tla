--------------------------- MODULE DirectoryProofs ---------------------------
(***************************************************************************)
(* Theorems about Directory for any number of workers, callers, users and  *)
(* groups, and for all requests and snapshots.                             *)
(***************************************************************************)
EXTENDS Directory, TLAPS

-----------------------------------------------------------------------------
\* The inductive invariant.

\* What the tables declare.
Sound(d) ==
    /\ d \in Directories
    /\ \A m \in d.members : m[1] \in Exists(d) /\ m[2] \in Present(d)
    /\ \A u, v \in Present(d) : d.users[u].name = d.users[v].name => u = v

Requesting == {"read", "write", "txn", "end"}
Syncing == {"sync", "users", "groups"}

GroupRows == [name : {Unset}, role : Grants, status : {"active"}]
Jobs ==
    [pc : Pcs, request : Requests \cup {NoRequest}, at : Nat, row : UserRows \cup {Gone} \cup GroupRows,
     failed : Nat, stale : BOOLEAN, view : Directories, source : Directories,
     known : SUBSET (Users \cup Groups), todo : SUBSET (Users \cup Groups)]

\* The row that an operation starts from goes with it.
Suits(row, op, d) ==
    IF op.on = "user"
    THEN /\ op.method = "POST" => row = New
         /\ op.method # "POST" => op.id \in Present(d)
         /\ op.method \in {"PUT", "PATCH"} => row \in UserRows
    ELSE op.method # "DELETE" => row \in GroupRows

OpsOf(j) == {j.request.ops[i] : i \in DOMAIN j.request.ops}

\* What e has otherwise than d, some operation asked for.
ChangesAsked(ops, d, e) ==
    \A u \in Present(d), field \in {"name", "role", "status"} :
        e.users[u][field] # d.users[u][field] => \E op \in ops : Asked(op, u, field)

\* The first n operations have had their effect, of two on one row the later.
OpsEffected(ops, n, d) ==
    \A i \in 1..n :
        \/ \E k \in 1..n : k > i /\ ops[k].on = ops[i].on /\ ops[k].id = ops[i].id
        \/ Effected(d, ops[i])

UsersAgree(j) == \A u \in Present(j.source) \ j.todo : j.view.users[u] = j.source.users[u]
GroupsAgree(j) ==
    \A g \in Exists(j.source) \ j.todo : MembersIn(j.view, g) = MembersIn(j.source, g)

JobOK(j, d) ==
    /\ j \in Jobs
    /\ j.pc \in Requesting => j.request \in Requests /\ j.at \in DOMAIN j.request.ops
    /\ j.pc \in Syncing => j.request = NoRequest
    /\ j.pc \in {"read", "write"} => j.request.mode # "atomic"
    /\ j.pc \in {"read", "write", "txn"} /\ j.request.mode # "loose" => j.failed = 0
    /\ j.pc = "write" => Suits(j.row, j.request.ops[j.at], d)
    /\ j.pc \in InTransaction => Sound(j.view) /\ Present(d) \subseteq Present(j.view)
    /\ j.pc \in {"txn", "end"} /\ ~j.stale => ChangesAsked(OpsOf(j), d, j.view)
    /\ j.pc = "txn" /\ j.request.mode # "loose" => OpsEffected(j.request.ops, j.at - 1, j.view)
    /\ j.pc = "end" /\ j.request.mode # "loose" /\ j.failed = 0 =>
        j.at = Len(j.request.ops) /\ OpsEffected(j.request.ops, j.at, j.view)
    /\ j.pc \in Syncing => j.known \cap Users \subseteq Present(d)
    /\ j.pc = "users" => j.todo \subseteq Present(j.source) /\ UsersAgree(j)
    /\ j.pc = "groups" => j.todo \subseteq Exists(j.source) /\ UsersAgree(j) /\ GroupsAgree(j)

\* One transaction at a time.
Exclusive == \A v, w \in Workers : {job[v].pc, job[w].pc} \subseteq InTransaction => v = w

Visits ==
    [pc : {"idle", "groups", "admitted"}, user : Users \cup {Unset}, own : Grants, role : Grants,
     high : Grants, unset : BOOLEAN]

\* What a caller was granted so far bounds what it has read and may yet read.
VisitOK(v, d) ==
    /\ v \in Visits
    /\ v.pc # "idle" => v.user \in Users
    /\ v.pc = "groups" => Rank(v.own) <= Rank(v.high) /\ Rank(Granted(d, v.user)) <= Rank(v.high)
    /\ v.pc = "admitted" /\ v.own # NoRole => Rank(v.role) <= Rank(v.high)

IInv ==
    /\ Sound(dir)
    /\ job = [w \in Workers |-> job[w]]
    /\ \A w \in Workers : JobOK(job[w], dir)
    /\ Exclusive
    /\ visit = [c \in Callers |-> visit[c]]
    /\ \A c \in Callers : VisitOK(visit[c], dir)

-----------------------------------------------------------------------------
\* Ranks: the highest of some roles is one of them.

LEMMA Ranks ==
  /\ Rank(NoRole) = -1
  /\ \A r \in Grants : Rank(r) \in Int /\ (r # NoRole => Rank(r) >= 0)
BY DEF Rank, Roles, Grants, NoRole, ROLE_ORDER

LEMMA HighestIs ==
  ASSUME NEW S \in SUBSET Grants, S # {}
  PROVE  Highest(S) \in S /\ \A s \in S : Rank(s) <= Rank(Highest(S))
<1> DEFINE Tops(r) == r \in S /\ \A s \in S : Rank(s) <= Rank(r)
<1>1. \A r \in Grants : Rank(r) = CASE r = "admin" -> 4 [] r = "manager" -> 3 [] r = "analyst" -> 2
                                    [] r = "researcher" -> 1 [] r = "external_partner" -> 0 [] OTHER -> -1
  BY DEF Rank, Roles, Grants, NoRole, ROLE_ORDER
<1>2. Grants = {"admin", "manager", "analyst", "researcher", "external_partner", "unset"}
  BY DEF Grants, Roles, NoRole
<1>3. \E r \in S : Tops(r)
  <2>1. CASE "admin" \in S
    BY <1>1, <1>2, <2>1
  <2>2. CASE "admin" \notin S /\ "manager" \in S
    BY <1>1, <1>2, <2>2
  <2>3. CASE "admin" \notin S /\ "manager" \notin S /\ "analyst" \in S
    BY <1>1, <1>2, <2>3
  <2>4. CASE "admin" \notin S /\ "manager" \notin S /\ "analyst" \notin S /\ "researcher" \in S
    BY <1>1, <1>2, <2>4
  <2>5. CASE S \subseteq {"external_partner", "unset"} /\ "external_partner" \in S
    BY <1>1, <1>2, <2>5
  <2>6. CASE S \subseteq {"unset"}
    BY <1>1, <1>2, <2>6
  <2> QED
    BY <1>2, <2>1, <2>2, <2>3, <2>4, <2>5, <2>6
<1> QED
  BY <1>3 DEF Highest

-----------------------------------------------------------------------------
\* Directories.

LEMMA Rows ==
  ASSUME NEW d, Sound(d)
  PROVE  /\ d \in Directories /\ DOMAIN d.users = Users /\ DOMAIN d.groups = Groups
         /\ d.members \subseteq Groups \X Users
         /\ \A u \in Users : d.users[u].role \in Grants
         /\ \A u \in Present(d) : u \in Users /\ d.users[u] \in UserRows /\ d.users[u] # Gone
         /\ \A u \in Users \ Present(d) : d.users[u] = Gone
         /\ \A g \in Exists(d) : g \in Groups /\ d.groups[g] \in Grants
         /\ \A g \in Groups \ Exists(d) : d.groups[g] = NoGroup
<1>1. /\ d.users \in [Users -> UserRows \cup {Gone}] /\ d.groups \in [Groups -> Grants \cup {NoGroup}]
      /\ d.members \subseteq Groups \X Users /\ d \in Directories
  BY DEF Sound, Directories
<1>2. \A u \in Users : d.users[u] \in UserRows \cup {Gone}
  BY <1>1
<1>3. Gone.role \in Grants
  BY DEF Gone, Grants
<1> QED
  BY <1>1, <1>2, <1>3 DEF Present, Exists, UserRows

LEMMA GrantedIs ==
  ASSUME NEW d, Sound(d), NEW u \in Users
  PROVE  /\ {d.users[u].role} \cup GroupRoles(d, u) \subseteq Grants
         /\ Granted(d, u) \in Grants
         /\ \A r \in {d.users[u].role} \cup GroupRoles(d, u) : Rank(r) <= Rank(Granted(d, u))
<1>1. \A g \in Groups : <<g, u>> \in d.members => d.groups[g] \in Grants
  <2> SUFFICES ASSUME NEW g \in Groups, <<g, u>> \in d.members PROVE d.groups[g] \in Grants
    OBVIOUS
  <2>1. <<g, u>>[1] \in Exists(d)
    BY DEF Sound
  <2> QED
    BY <2>1, Rows
<1>2. {d.users[u].role} \cup GroupRoles(d, u) \subseteq Grants
  <2>1. d.users[u].role \in Grants
    BY Rows
  <2>2. ASSUME NEW x \in GroupRoles(d, u) PROVE x \in Grants
    <3>1. PICK g \in {g \in Groups : <<g, u>> \in d.members} : x = d.groups[g]
      BY DEF GroupRoles
    <3> QED
      BY <1>1, <3>1
  <2> QED
    BY <2>1, <2>2
<1> QED
  BY <1>2, HighestIs DEF Granted

LEMMA PutUserFacts ==
  ASSUME NEW d, Sound(d), NEW u \in Users, NEW row \in UserRows
  PROVE  /\ PutUser(d, u, row).error \in {"none", "broken"}
         /\ PutUser(d, u, row).error = "none" =>
              /\ Sound(PutUser(d, u, row).view)
              /\ PutUser(d, u, row).view.users[u] = row
              /\ \A v \in Users \ {u} : PutUser(d, u, row).view.users[v] = d.users[v]
              /\ PutUser(d, u, row).view.groups = d.groups
              /\ PutUser(d, u, row).view.members = d.members
              /\ Present(PutUser(d, u, row).view) = Present(d) \cup {u}
<1>1. CASE Taken(d, u, row.name)
  BY <1>1 DEF PutUser, Result
<1>2. CASE ~Taken(d, u, row.name)
  <2> DEFINE e == [d EXCEPT !.users[u] = row]
  <2>1. PutUser(d, u, row) = [view |-> e, error |-> "none"]
    BY <1>2 DEF PutUser, Result
  <2>2. /\ d \in Directories /\ d.users \in [Users -> UserRows \cup {Gone}]
        /\ row.name \in UserNames /\ row # Gone
    BY DirectoryAssumption DEF Sound, Directories, UserRows, Gone
  <2>3. /\ e \in Directories /\ e.users = [d.users EXCEPT ![u] = row]
        /\ e.groups = d.groups /\ e.members = d.members
    BY <2>2 DEF Directories
  <2> HIDE DEF e
  <2>4. Present(e) = Present(d) \cup {u} /\ Exists(e) = Exists(d)
    BY <2>2, <2>3 DEF Present, Exists
  <2>5. \A m \in e.members : m[1] \in Exists(e) /\ m[2] \in Present(e)
    BY <2>3, <2>4 DEF Sound
  <2>6. ASSUME NEW v \in Present(e), NEW w \in Present(e), e.users[v].name = e.users[w].name
        PROVE  v = w
    <3>1. /\ v \in Users /\ w \in Users
          /\ v # u => v \in Present(d) /\ e.users[v] = d.users[v]
          /\ w # u => w \in Present(d) /\ e.users[w] = d.users[w]
          /\ e.users[u] = row
      BY <2>2, <2>3, <2>4 DEF Present
    <3>2. \A x \in Users \ {u} : d.users[x].name # row.name
      BY <1>2 DEF Taken
    <3> QED
      BY <2>6, <3>1, <3>2 DEF Sound
  <2>7. Sound(e)
    BY <2>3, <2>5, <2>6 DEF Sound
  <2>8. e.users[u] = row /\ \A v \in Users \ {u} : e.users[v] = d.users[v]
    BY <2>2, <2>3
  <2> QED
    <3>1. PutUser(d, u, row).view = e /\ PutUser(d, u, row).error = "none"
      BY <2>1
    <3> QED
      BY <2>3, <2>4, <2>7, <2>8, <3>1, Zenon
<1> QED
  BY <1>1, <1>2

LEMMA PutGroupFacts ==
  ASSUME NEW d, Sound(d), NEW g \in Groups, NEW role \in Grants,
         NEW replaces, NEW members \in SUBSET Users,
         NEW r, r = PutGroup(d, g, role, replaces, members)
  PROVE  /\ r.error \in {"none", "unknown"}
         /\ Sound(r.view) /\ r.view.users = d.users
         /\ \A h \in Groups \ {g} : MembersIn(r.view, h) = MembersIn(d, h)
         /\ Exists(r.view) = Exists(d) \cup {g}
         /\ r.error = "none" /\ replaces => MembersIn(r.view, g) = members
<1> DEFINE written == [d EXCEPT !.groups[g] = role]
<1>1. /\ d \in Directories /\ d.groups \in [Groups -> Grants \cup {NoGroup}]
      /\ d.members \subseteq Groups \X Users
  BY DEF Sound, Directories
<1>2. role # NoGroup
  BY DEF Grants, Roles, NoRole, NoGroup
<1>3. /\ written \in Directories /\ written.groups = [d.groups EXCEPT ![g] = role]
      /\ written.users = d.users /\ written.members = d.members
  BY <1>1 DEF Directories
<1> DEFINE joined == [written EXCEPT !.members = Joined(d, g, members)]
<1>4. Joined(d, g, members) \subseteq Groups \X Users
  BY <1>1 DEF Joined
<1>5. /\ joined \in Directories /\ joined.groups = [d.groups EXCEPT ![g] = role]
      /\ joined.users = d.users /\ joined.members = Joined(d, g, members)
  BY <1>3, <1>4 DEF Directories
<1>6. r = IF ~replaces THEN [view |-> written, error |-> "none"]
          ELSE IF members \subseteq Present(d) THEN [view |-> joined, error |-> "none"]
               ELSE [view |-> written, error |-> "unknown"]
  BY DEF PutGroup, Result
<1> HIDE DEF written, joined
<1>7. ASSUME NEW e \in {written, joined}
      PROVE  Exists(e) = Exists(d) \cup {g} /\ Present(e) = Present(d)
  BY <1>1, <1>2, <1>3, <1>5 DEF Exists, Present
<1>8. Sound(written) /\ \A h \in Groups : MembersIn(written, h) = MembersIn(d, h)
  BY <1>3, <1>7 DEF Sound, MembersIn, Present
<1>9. ASSUME members \subseteq Present(d)
      PROVE  /\ Sound(joined) /\ MembersIn(joined, g) = members
             /\ \A h \in Groups \ {g} : MembersIn(joined, h) = MembersIn(d, h)
  <2>1. \A m \in joined.members : m[1] \in Exists(joined) /\ m[2] \in Present(joined)
    BY <1>5, <1>7, <1>9 DEF Sound, Joined
  <2>2. \A u, v \in Present(joined) : joined.users[u].name = joined.users[v].name => u = v
    BY <1>5, <1>7 DEF Sound
  <2>3. Sound(joined)
    BY <1>5, <2>1, <2>2 DEF Sound
  <2>4. MembersIn(joined, g) = members
    BY <1>5, <1>9 DEF MembersIn, Joined
  <2>5. \A h \in Groups \ {g} : MembersIn(joined, h) = MembersIn(d, h)
    BY <1>5 DEF MembersIn, Joined
  <2> QED
    BY <2>3, <2>4, <2>5
<1>10. CASE ~replaces
  BY <1>3, <1>6, <1>7, <1>8, <1>10
<1>11. CASE replaces /\ members \subseteq Present(d)
  BY <1>5, <1>6, <1>7, <1>9, <1>11
<1>12. CASE replaces /\ ~(members \subseteq Present(d))
  BY <1>3, <1>6, <1>7, <1>8, <1>12
<1> QED
  BY <1>10, <1>11, <1>12

LEMMA WithoutGroupFacts ==
  ASSUME NEW d, Sound(d), NEW g \in Groups, NEW e, e = WithoutGroup(d, g)
  PROVE  /\ Sound(e) /\ e.users = d.users
         /\ Exists(e) = Exists(d) \ {g}
         /\ \A h \in Groups \ {g} : MembersIn(e, h) = MembersIn(d, h)
<1>1. /\ d \in Directories /\ d.groups \in [Groups -> Grants \cup {NoGroup}]
      /\ d.members \subseteq Groups \X Users
  BY DEF Sound, Directories
<1>2. /\ e \in Directories /\ e.users = d.users /\ e.groups = [d.groups EXCEPT ![g] = NoGroup]
      /\ e.members = {m \in d.members : m[1] # g}
  BY <1>1 DEF WithoutGroup, Directories
<1>3. Exists(e) = Exists(d) \ {g} /\ Present(e) = Present(d)
  BY <1>1, <1>2 DEF Exists, Present
<1>4. \A m \in e.members : m[1] \in Exists(e) /\ m[2] \in Present(e)
  BY <1>2, <1>3 DEF Sound
<1>5. \A u, v \in Present(e) : e.users[u].name = e.users[v].name => u = v
  BY <1>2, <1>3 DEF Sound
<1>6. \A h \in Groups \ {g} : MembersIn(e, h) = MembersIn(d, h)
  BY <1>2 DEF MembersIn
<1> QED
  BY <1>2, <1>3, <1>4, <1>5, <1>6 DEF Sound

\* DELETE of a user and what a synchronisation does to the missing ones.
LEMMA DeactivatedFacts ==
  ASSUME NEW d, Sound(d), NEW gone \in SUBSET Present(d),
         NEW e, e = [users |-> Deactivated(d.users, gone), groups |-> d.groups, members |-> d.members]
  PROVE  /\ Sound(e) /\ Present(e) = Present(d) /\ e.groups = d.groups /\ e.members = d.members
         /\ \A u \in Users \ gone : e.users[u] = d.users[u]
         /\ \A u \in gone : /\ e.users[u].status = "inactive" /\ e.users[u].name = d.users[u].name
                           /\ e.users[u].role = d.users[u].role
<1>1. /\ d \in Directories /\ d.users \in [Users -> UserRows \cup {Gone}]
  BY DEF Sound, Directories
<1>2. \A u \in gone : d.users[u] \in UserRows
  BY Rows
<1>3. /\ \A u \in gone : [d.users[u] EXCEPT !.status = "inactive"] \in UserRows
      /\ \A u \in gone : [d.users[u] EXCEPT !.status = "inactive"].name = d.users[u].name
  BY <1>2 DEF UserRows
<1>4. Deactivated(d.users, gone) \in [Users -> UserRows \cup {Gone}]
  BY <1>1, <1>3 DEF Deactivated
<1>5. /\ e \in Directories /\ e.users = Deactivated(d.users, gone)
      /\ e.groups = d.groups /\ e.members = d.members
  BY <1>1, <1>4 DEF Directories
<1>6. /\ \A u \in Users \ gone : e.users[u] = d.users[u]
      /\ \A u \in gone : e.users[u] = [d.users[u] EXCEPT !.status = "inactive"]
  BY <1>5, Rows DEF Deactivated
<1>7. Gone \notin UserRows
  BY DEF Gone, UserRows
<1>8. Present(e) = Present(d)
  <2>1. \A u \in gone : d.users[u] # Gone
    BY Rows
  <2>2. ASSUME NEW u \in gone PROVE e.users[u] # Gone
    <3>1. e.users[u] = [d.users[u] EXCEPT !.status = "inactive"]
      BY <1>6
    <3>2. [d.users[u] EXCEPT !.status = "inactive"] \in UserRows
      BY <1>3
    <3> QED
      BY <1>7, <3>1, <3>2
  <2>3. \A u \in Users : e.users[u] # Gone <=> d.users[u] # Gone
    BY <1>6, <2>1, <2>2
  <2> QED
    BY <2>3 DEF Present
<1>9. Exists(e) = Exists(d)
  BY <1>5 DEF Exists
<1>10. \A u \in Present(d) : e.users[u].name = d.users[u].name
  BY <1>3, <1>6, Rows
<1>11. Sound(e)
  BY <1>5, <1>8, <1>9, <1>10 DEF Sound
<1>12. ASSUME NEW u \in gone PROVE e.users[u].status = "inactive" /\ e.users[u].role = d.users[u].role
  <2>1. d.users[u] \in UserRows /\ e.users[u] = [d.users[u] EXCEPT !.status = "inactive"]
    BY <1>2, <1>6
  <2> QED
    BY <2>1 DEF UserRows
<1> QED
  BY <1>5, <1>6, <1>8, <1>10, <1>11, <1>12

-----------------------------------------------------------------------------
\* One operation.

LEMMA OpShape ==
  ASSUME NEW op \in Operations
  PROVE  /\ op.method \in {"POST", "PUT", "PATCH", "DELETE"} /\ op.on \in {"user", "group"}
         /\ op.role \in Grants /\ op.members \in SUBSET Users /\ op.replaces \in BOOLEAN
         /\ op.on = "user" => /\ op.id \in Users /\ op.name \in UserNames \cup {Unset}
                              /\ op.status \in {"active", "inactive", Unset} /\ ~op.replaces
         /\ op.on = "group" => op.id \in Groups
BY DEF Operations

LEMMA Names == Unset = NoRole /\ Unset \notin {"active", "inactive"} /\ Unset \notin UserNames
BY DirectoryAssumption DEF Unset, NoRole

\* What is not given is what the row has.
LEMMA CompletedRow ==
  ASSUME NEW op \in Operations, op.on = "user", NEW row,
         row \in UserRows \/ (row = New /\ op.name # Unset)
  PROVE  /\ Completed(op, row) \in UserRows
         /\ Completed(op, row).name = Given(op.name, row.name)
         /\ Completed(op, row).role = Given(op.role, row.role)
         /\ Completed(op, row).status = Given(op.status, row.status)
BY OpShape, Names DEF Completed, Given, UserRows, New, Grants

\* A PUT, PATCH or POST of a user, or its DELETE.
LEMMA ApplyUser ==
  ASSUME NEW d, Sound(d), NEW op \in Operations, op.on = "user",
         op.method = "POST" => op.name # Unset,
         NEW row, Suits(row, op, d), NEW r, r = Apply(d, row, op)
  PROVE  /\ r.error \in {"none", "broken"}
         /\ r.error = "none" =>
              /\ Sound(r.view) /\ Present(d) \subseteq Present(r.view)
              /\ r.view.groups = d.groups /\ r.view.members = d.members
              /\ \A u \in Users \ {op.id} : r.view.users[u] = d.users[u]
              /\ Effected(r.view, op)
              /\ row = Existing(d, op) /\ op.id \in Present(d) =>
                   \A field \in {"name", "role", "status"} :
                      r.view.users[op.id][field] # d.users[op.id][field] => Asked(op, op.id, field)
<1>1. op.id \in Users /\ op.name \in UserNames \cup {Unset} /\ op.role \in Grants
      /\ op.status \in {"active", "inactive", Unset}
  BY OpShape
<1>2. CASE op.method = "DELETE"
  <2>1. op.id \in Present(d) /\ d.users[op.id] \in UserRows
    BY <1>2, Rows DEF Suits
  <2> DEFINE e == [d EXCEPT !.users[op.id].status = "inactive"]
  <2>2. r = [view |-> e, error |-> "none"]
    BY <1>2 DEF Apply, Result
  <2>3. /\ d.users \in [Users -> UserRows \cup {Gone}] /\ d \in Directories
        /\ Deactivated(d.users, {op.id}) = [d.users EXCEPT ![op.id].status = "inactive"]
    BY DEF Sound, Directories, Deactivated
  <2> DEFINE gone == {op.id}
  <2>4. e = [users |-> Deactivated(d.users, gone), groups |-> d.groups, members |-> d.members]
    BY <2>3 DEF Directories
  <2>9. gone \in SUBSET Present(d) /\ op.id \in gone /\ Users \ {op.id} = Users \ gone
    BY <2>1
  <2> HIDE DEF e, gone
  <2>5. /\ Sound(e) /\ Present(e) = Present(d) /\ e.groups = d.groups /\ e.members = d.members
        /\ \A u \in Users \ {op.id} : e.users[u] = d.users[u]
        /\ e.users[op.id].status = "inactive" /\ e.users[op.id].name = d.users[op.id].name
        /\ e.users[op.id].role = d.users[op.id].role
    <3>1. /\ Sound(e) /\ Present(e) = Present(d) /\ e.groups = d.groups /\ e.members = d.members
          /\ \A u \in Users \ gone : e.users[u] = d.users[u]
          /\ \A u \in gone : /\ e.users[u].status = "inactive" /\ e.users[u].name = d.users[u].name
                            /\ e.users[u].role = d.users[u].role
      BY <2>4, <2>9, DeactivatedFacts
    <3> QED
      BY <2>9, <3>1
  <2>6. Effected(e, op)
    BY <1>2, <2>5 DEF Effected
  <2>7. \A field \in {"name", "role", "status"} :
           e.users[op.id][field] # d.users[op.id][field] => Asked(op, op.id, field)
    BY <1>2, <2>5 DEF Asked
  <2> QED
    BY <2>2, <2>5, <2>6, <2>7
<1>3. CASE op.method # "DELETE"
  <2> DEFINE new == Completed(op, row)
  <2>1. row \in UserRows \/ (row = New /\ op.name # Unset)
    BY <1>3, OpShape DEF Suits
  <2>2. /\ new \in UserRows
        /\ new.name = Given(op.name, row.name) /\ new.role = Given(op.role, row.role)
        /\ new.status = Given(op.status, row.status)
    BY <2>1, CompletedRow
  <2>3. r = PutUser(d, op.id, new)
    BY <1>3 DEF Apply
  <2> HIDE DEF new
  <2> SUFFICES ASSUME r.error = "none"
               PROVE  /\ Sound(r.view) /\ Present(d) \subseteq Present(r.view)
                      /\ r.view.groups = d.groups /\ r.view.members = d.members
                      /\ \A u \in Users \ {op.id} : r.view.users[u] = d.users[u]
                      /\ Effected(r.view, op)
                      /\ row = Existing(d, op) /\ op.id \in Present(d) =>
                           \A field \in {"name", "role", "status"} :
                              r.view.users[op.id][field] # d.users[op.id][field] => Asked(op, op.id, field)
    BY <1>1, <2>2, <2>3, PutUserFacts
  <2>4. /\ Sound(r.view) /\ r.view.users[op.id] = new
        /\ \A u \in Users \ {op.id} : r.view.users[u] = d.users[u]
        /\ r.view.groups = d.groups /\ r.view.members = d.members
        /\ Present(r.view) = Present(d) \cup {op.id}
    BY <1>1, <2>2, <2>3, PutUserFacts
  <2>6. Effected(r.view, op)
    BY <1>3, <2>2, <2>4 DEF Effected, Given
  <2>7. ASSUME row = Existing(d, op), op.id \in Present(d),
               NEW field \in {"name", "role", "status"}, new[field] # d.users[op.id][field]
        PROVE  Asked(op, op.id, field)
    <3>1. op.method # "POST" => row = d.users[op.id]
      BY <1>3, <2>7 DEF Existing
    <3>2. op.method # "POST" => op[field] # Unset
      BY <2>2, <2>7, <3>1 DEF Given
    <3> QED
      BY <3>2 DEF Asked
  <2> QED
    BY <2>4, <2>6, <2>7
<1> QED
  BY <1>2, <1>3

LEMMA ApplyGroup ==
  ASSUME NEW d, Sound(d), NEW op \in Operations, op.on = "group",
         NEW row, Suits(row, op, d), NEW r, r = Apply(d, row, op)
  PROVE  /\ r.error \in {"none", "unknown"}
         /\ Sound(r.view) /\ r.view.users = d.users
         /\ \A g \in Groups \ {op.id} :
              MembersIn(r.view, g) = MembersIn(d, g) /\ (g \in Exists(r.view) <=> g \in Exists(d))
         /\ r.error = "none" => Effected(r.view, op)
<1>1. op.id \in Groups /\ op.role \in Grants /\ op.members \in SUBSET Users /\ op.replaces \in BOOLEAN
      /\ op.on # "user"
  BY OpShape
<1>2. CASE op.method = "DELETE"
  <2> DEFINE e == WithoutGroup(d, op.id)
  <2>1. r = [view |-> e, error |-> "none"] /\ e = WithoutGroup(d, op.id)
    BY <1>1, <1>2 DEF Apply, Result
  <2> HIDE DEF e
  <2>2. /\ Sound(e) /\ e.users = d.users /\ Exists(e) = Exists(d) \ {op.id}
        /\ \A h \in Groups \ {op.id} : MembersIn(e, h) = MembersIn(d, h)
    BY <1>1, <2>1, WithoutGroupFacts
  <2> QED
    BY <1>1, <1>2, <2>1, <2>2 DEF Effected
<1>3. CASE op.method # "DELETE"
  <2>1. Given(op.role, row.role) \in Grants
    BY <1>1, <1>3, Names DEF Suits, GroupRows, Given
  <2>2. r = PutGroup(d, op.id, Given(op.role, row.role), op.replaces, op.members)
    BY <1>1, <1>3 DEF Apply
  <2>3. /\ r.error \in {"none", "unknown"}
        /\ Sound(r.view) /\ r.view.users = d.users
        /\ \A h \in Groups \ {op.id} : MembersIn(r.view, h) = MembersIn(d, h)
        /\ Exists(r.view) = Exists(d) \cup {op.id}
        /\ r.error = "none" /\ op.replaces => MembersIn(r.view, op.id) = op.members
    BY <1>1, <2>1, <2>2, PutGroupFacts
  <2>4. \A g \in Groups \ {op.id} : g \in Exists(r.view) <=> g \in Exists(d)
    BY <2>3
  <2>5. r.error = "none" => Effected(r.view, op)
    BY <1>1, <1>3, <2>3 DEF Effected
  <2> QED
    BY <2>3, <2>4, <2>5
<1> QED
  BY <1>2, <1>3

\* An operation that has had its effect keeps it beside one on another row.
LEMMA EffectsStay ==
  ASSUME NEW d, NEW e, NEW op \in Operations, NEW o \in Operations,
         o.on # op.on \/ o.id # op.id,
         IF op.on = "user"
         THEN /\ e.groups = d.groups /\ e.members = d.members
              /\ \A u \in Users \ {op.id} : e.users[u] = d.users[u]
         ELSE /\ e.users = d.users
              /\ \A g \in Groups \ {op.id} :
                   MembersIn(e, g) = MembersIn(d, g) /\ (g \in Exists(e) <=> g \in Exists(d)),
         Effected(d, o)
  PROVE  Effected(e, o)
<1>1. CASE o.on = "user"
  <2>1. o.id \in Users /\ e.users[o.id] = d.users[o.id]
    BY <1>1, OpShape
  <2> QED
    BY <1>1, <2>1 DEF Effected
<1>2. CASE o.on # "user"
  <2>1. o.id \in Groups
    BY <1>2, OpShape
  <2>2. MembersIn(e, o.id) = MembersIn(d, o.id) /\ (o.id \in Exists(e) <=> o.id \in Exists(d))
    <3>1. CASE op.on = "user"
      BY <3>1 DEF MembersIn, Exists
    <3>2. CASE op.on # "user"
      BY <1>2, <2>1, <3>2, OpShape
    <3> QED
      BY <3>1, <3>2
  <2> QED
    BY <1>2, <2>2 DEF Effected
<1> QED
  BY <1>1, <1>2

\* The row that is there suits the operation, if it is found.
LEMMA ExistingSuits ==
  ASSUME NEW d, Sound(d), NEW op \in Operations, Found(d, op)
  PROVE  Suits(Existing(d, op), op, d) /\ Existing(d, op) \in UserRows \cup {Gone} \cup GroupRows
<1>1. New \in GroupRows /\ \A x \in Grants : [New EXCEPT !.role = x] \in GroupRows
  BY DEF New, GroupRows, Grants
<1>2. CASE op.method = "POST"
  BY <1>1, <1>2 DEF Existing, Suits
<1>3. CASE op.method # "POST" /\ op.on = "user"
  BY <1>3, Rows DEF Existing, Suits, Found
<1>4. CASE op.method # "POST" /\ op.on # "user"
  <2>1. d.groups[op.id] \in Grants
    BY <1>4, Rows DEF Found
  <2> QED
    BY <1>1, <1>4, <2>1 DEF Existing, Suits
<1> QED
  BY <1>2, <1>3, <1>4

\* Whatever the operation: what it did is sound, is its effect, and leaves the
\* effects of others.
Outcome(d, op, r) ==
    /\ r.error \in {"none", "unknown", "broken"}
    /\ r.error # "broken" => Sound(r.view) /\ Present(d) \subseteq Present(r.view)
    /\ r.error = "none" =>
        /\ Effected(r.view, op)
        /\ \A o \in Operations : o.on # op.on \/ o.id # op.id =>
              (Effected(d, o) => Effected(r.view, o))

LEMMA ApplyFacts ==
  ASSUME NEW d, Sound(d), NEW op \in Operations,
         op.on = "user" /\ op.method = "POST" => op.name # Unset,
         NEW row, Suits(row, op, d), NEW r, r = Apply(d, row, op)
  PROVE  /\ Outcome(d, op, r)
         /\ r.error # "broken" /\ row = Existing(d, op) => ChangesAsked({op}, d, r.view)
<1>1. CASE op.on = "user"
  <2>1. r.error \in {"none", "broken"}
    BY <1>1, ApplyUser
  <2> SUFFICES ASSUME r.error = "none"
               PROVE  /\ Sound(r.view) /\ Present(d) \subseteq Present(r.view) /\ Effected(r.view, op)
                      /\ \A o \in Operations : o.on # op.on \/ o.id # op.id =>
                             (Effected(d, o) => Effected(r.view, o))
                      /\ row = Existing(d, op) =>
                           \A u \in Present(d), field \in {"name", "role", "status"} :
                             r.view.users[u][field] # d.users[u][field] => Asked(op, u, field)
    BY <2>1 DEF Outcome, ChangesAsked
  <2>2. /\ Sound(r.view) /\ Present(d) \subseteq Present(r.view) /\ Effected(r.view, op)
        /\ r.view.groups = d.groups /\ r.view.members = d.members
        /\ \A u \in Users \ {op.id} : r.view.users[u] = d.users[u]
        /\ row = Existing(d, op) /\ op.id \in Present(d) =>
              \A field \in {"name", "role", "status"} :
                 r.view.users[op.id][field] # d.users[op.id][field] => Asked(op, op.id, field)
    BY <1>1, ApplyUser
  <2>3. ASSUME NEW o \in Operations, o.on # op.on \/ o.id # op.id, Effected(d, o)
        PROVE  Effected(r.view, o)
    BY <1>1, <2>2, <2>3, EffectsStay
  <2>4. ASSUME row = Existing(d, op), NEW u \in Present(d), NEW field \in {"name", "role", "status"},
               r.view.users[u][field] # d.users[u][field]
        PROVE  Asked(op, u, field)
    <3>1. u = op.id
      BY <2>2, <2>4 DEF Present
    <3> QED
      BY <2>2, <2>4, <3>1
  <2> QED
    BY <2>2, <2>3, <2>4
<1>2. CASE op.on # "user"
  <2>1. op.on = "group"
    BY <1>2, OpShape
  <2>2. /\ r.error \in {"none", "unknown"}
        /\ Sound(r.view) /\ r.view.users = d.users
        /\ \A g \in Groups \ {op.id} :
             MembersIn(r.view, g) = MembersIn(d, g) /\ (g \in Exists(r.view) <=> g \in Exists(d))
        /\ r.error = "none" => Effected(r.view, op)
    BY <2>1, ApplyGroup
  <2>3. Present(r.view) = Present(d)
    BY <2>2 DEF Present
  <2>4. ASSUME NEW o \in Operations, o.on # op.on \/ o.id # op.id, Effected(d, o)
        PROVE  Effected(r.view, o)
    BY <1>2, <2>2, <2>4, EffectsStay
  <2> QED
    BY <2>2, <2>3, <2>4 DEF Outcome, ChangesAsked
<1> QED
  BY <1>1, <1>2

\* One operation more.
LEMMA AskedStill ==
  ASSUME NEW ops, NEW op \in ops, NEW d, NEW b, NEW e, Present(d) \subseteq Present(b),
         ChangesAsked(ops, d, b), ChangesAsked({op}, b, e)
  PROVE  ChangesAsked(ops, d, e)
<1> SUFFICES ASSUME NEW u \in Present(d), NEW field \in {"name", "role", "status"},
                    e.users[u][field] # d.users[u][field]
             PROVE  \E o \in ops : Asked(o, u, field)
  BY DEF ChangesAsked
<1>1. CASE b.users[u][field] # d.users[u][field]
  BY <1>1 DEF ChangesAsked
<1>2. CASE e.users[u][field] # b.users[u][field]
  BY <1>2 DEF ChangesAsked
<1> QED
  BY <1>1, <1>2

-----------------------------------------------------------------------------
\* Jobs.

LEMMA RequestShape ==
  ASSUME NEW r \in Requests
  PROVE  /\ r.mode \in {"single", "atomic", "loose"} /\ r.limit \in Nat \ {0}
         /\ r.ops \in Seq(Operations) /\ r.ops # <<>> /\ DOMAIN r.ops = 1..Len(r.ops)
         /\ Len(r.ops) \in Nat /\ Len(r.ops) >= 1
         /\ \A i \in DOMAIN r.ops :
              /\ r.ops[i] \in Operations
              /\ r.ops[i].on = "user" /\ r.ops[i].method = "POST" => r.ops[i].name # Unset
<1>1. r \in [mode : {"single", "atomic", "loose"}, limit : Nat \ {0}, ops : Seq(Operations)]
      /\ r.ops # <<>>
  BY DirectoryAssumption
<1>2. r.ops \in Seq(Operations)
  BY <1>1
<1>3. DOMAIN r.ops = 1..Len(r.ops) /\ Len(r.ops) \in Nat
  BY <1>2
<1>4. Len(r.ops) # 0
  BY <1>1, <1>2
<1>5. \A i \in DOMAIN r.ops : r.ops[i] \in Operations
  BY <1>2, <1>3
<1> QED
  BY <1>1, <1>2, <1>3, <1>4, <1>5, DirectoryAssumption

LEMMA NobodyIs == Nobody \in Directories /\ Sound(Nobody) /\ Present(Nobody) = {} /\ Exists(Nobody) = {}
BY DEF Nobody, Directories, Sound, Present, Exists

LEMMA Idle ==
  ASSUME NEW d
  PROVE  JobOK(NoJob, d) /\ NoJob \in Jobs /\ NoJob.pc = "idle"
<1>1. NoJob \in Jobs
  BY NobodyIs DEF NoJob, Jobs, Pcs
<1> QED
  BY <1>1 DEF NoJob, JobOK, Requesting, Syncing, InTransaction

\* A commit by another leaves a job that is not in a transaction as it should be.
LEMMA Monotone ==
  ASSUME NEW j, NEW d, NEW e, JobOK(j, d), Present(d) \subseteq Present(e), j.pc \notin InTransaction
  PROVE  JobOK(j, e)
<1>1. j.pc = "write" => Suits(j.row, j.request.ops[j.at], e)
  BY DEF JobOK, Suits
<1> QED
  BY <1>1 DEF JobOK, InTransaction

\* The operations up to i have had their effect once the ith has had its own.
LEMMA EffectsGrow ==
  ASSUME NEW ops \in Seq(Operations), NEW i \in DOMAIN ops, NEW d, NEW e,
         OpsEffected(ops, i - 1, d), Effected(e, ops[i]),
         \A o \in Operations : o.on # ops[i].on \/ o.id # ops[i].id =>
             (Effected(d, o) => Effected(e, o))
  PROVE  OpsEffected(ops, i, e)
<1>1. i \in 1..Len(ops) /\ Len(ops) \in Nat /\ \A k \in 1..Len(ops) : ops[k] \in Operations
  OBVIOUS
<1> SUFFICES ASSUME NEW h \in 1..i
             PROVE  \/ \E k \in 1..i : k > h /\ ops[k].on = ops[h].on /\ ops[k].id = ops[h].id
                    \/ Effected(e, ops[h])
  BY DEF OpsEffected
<1>2. CASE h = i
  BY <1>2
<1>3. CASE h # i /\ ops[h].on = ops[i].on /\ ops[h].id = ops[i].id
  <2>1. i \in 1..i /\ i > h
    BY <1>1, <1>3
  <2> QED
    BY <1>3, <2>1
<1>4. CASE h # i /\ (ops[h].on # ops[i].on \/ ops[h].id # ops[i].id)
  <2>1. h \in 1..(i - 1) /\ ops[h] \in Operations
    BY <1>1, <1>4
  <2>2. CASE Effected(d, ops[h])
    BY <1>4, <2>1, <2>2
  <2>3. CASE \E k \in 1..(i - 1) : k > h /\ ops[k].on = ops[h].on /\ ops[k].id = ops[h].id
    BY <1>1, <2>3
  <2> QED
    BY <2>1, <2>2, <2>3 DEF OpsEffected
<1> QED
  BY <1>2, <1>3, <1>4

\* The job after an operation that was not broken.
LEMMA ProceedFacts ==
  ASSUME NEW j \in Jobs, j.request \in Requests, j.at \in DOMAIN j.request.ops,
         NEW d, NEW b, Present(d) \subseteq Present(b),
         j.request.mode # "loose" => j.failed = 0 /\ OpsEffected(j.request.ops, j.at - 1, b),
         NEW r, Outcome(b, j.request.ops[j.at], r), r.error # "broken",
         NEW n \in Jobs, n.request = j.request, n.view = r.view, n.pc \in {"txn", "end"},
         ~n.stale => ChangesAsked(OpsOf(j), d, r.view),
         n.failed = (IF r.error = "none" THEN j.failed ELSE j.failed + 1),
         j.request.mode # "loose" /\ r.error # "none" => n.pc = "end",
         n.pc = "txn" => n.at = j.at + 1 /\ j.at # Len(j.request.ops),
         n.pc = "end" => n.at = j.at,
         n.pc = "end" /\ r.error = "none" => j.at = Len(j.request.ops)
  PROVE  JobOK(n, d)
<1> DEFINE ops == j.request.ops
<1>1. /\ ops \in Seq(Operations) /\ DOMAIN ops = 1..Len(ops) /\ Len(ops) \in Nat
      /\ j.at \in Nat /\ j.failed \in Nat
  BY RequestShape DEF Jobs
<1>2. n.at \in DOMAIN ops
  BY <1>1
<1>3. Sound(n.view) /\ Present(d) \subseteq Present(n.view)
  BY DEF Outcome
<1>4. ~n.stale => ChangesAsked(OpsOf(n), d, n.view)
  BY DEF OpsOf
<1>5. r.error = "none" /\ j.request.mode # "loose" => OpsEffected(ops, j.at, n.view)
  BY <1>1, EffectsGrow DEF Outcome
<1>6. n.pc = "txn" /\ n.request.mode # "loose" => n.failed = 0 /\ OpsEffected(ops, n.at - 1, n.view)
  BY <1>1, <1>5
<1>7. n.pc = "end" /\ n.request.mode # "loose" /\ n.failed = 0 =>
         n.at = Len(ops) /\ OpsEffected(ops, n.at, n.view)
  BY <1>1, <1>5
<1> QED
  BY <1>2, <1>3, <1>4, <1>6, <1>7 DEF JobOK, Requesting, Syncing, InTransaction

-----------------------------------------------------------------------------
\* Visits.

LEMMA VisitSeen ==
  ASSUME NEW d, Sound(d), NEW e, Sound(e), NEW v, VisitOK(v, d), v.pc = "groups", NEW s,
         s = [v EXCEPT !.high = Highest({v.high, Granted(e, v.user)}),
                       !.unset = v.unset \/ Granted(e, v.user) = NoRole]
  PROVE  VisitOK(s, e)
<1>1. v.user \in Users /\ {v.own, v.high} \subseteq Grants /\ Rank(v.own) <= Rank(v.high)
      /\ v \in Visits
  BY DEF VisitOK, Visits
<1>2. Granted(e, v.user) \in Grants
  BY <1>1, GrantedIs
<1> DEFINE high == Highest({v.high, Granted(e, v.user)})
<1>3. high \in Grants /\ Rank(v.high) <= Rank(high) /\ Rank(Granted(e, v.user)) <= Rank(high)
  <2>1. {v.high, Granted(e, v.user)} \in SUBSET Grants /\ {v.high, Granted(e, v.user)} # {}
    BY <1>1, <1>2
  <2> QED
    BY <2>1, HighestIs
<1>4. s.pc = "groups" /\ s.user = v.user /\ s.own = v.own /\ s.high = high
  BY <1>1 DEF Visits
<1>6. s \in Visits
  BY <1>1, <1>3 DEF Visits
<1>5. Rank(v.own) <= Rank(high)
  <2>1. Rank(v.own) \in Int /\ Rank(v.high) \in Int /\ Rank(high) \in Int
    BY <1>1, <1>3, Ranks
  <2> QED
    BY <1>1, <1>3, <2>1
<1> QED
  BY <1>1, <1>3, <1>4, <1>5, <1>6 DEF VisitOK

\* The role of an admitted request is one of those read.
LEMMA RoleRead ==
  ASSUME NEW d, Sound(d), NEW v, VisitOK(v, d), v.pc = "groups", v.own # NoRole
  PROVE  Rank(RoleOf(v.own, GroupRoles(d, v.user))) <= Rank(v.high)
<1>1. /\ v.user \in Users /\ {v.own, v.high} \subseteq Grants /\ Rank(v.own) <= Rank(v.high)
      /\ Rank(Granted(d, v.user)) <= Rank(v.high)
  BY DEF VisitOK, Visits
<1>2. /\ GroupRoles(d, v.user) \subseteq Grants /\ Granted(d, v.user) \in Grants
      /\ \A r \in GroupRoles(d, v.user) : Rank(r) <= Rank(Granted(d, v.user))
  BY <1>1, GrantedIs
<1> DEFINE read == {v.own} \cup GroupRoles(d, v.user)
<1>3. Highest(read) \in read /\ Rank(v.own) <= Rank(Highest(read))
  <2>1. read \in SUBSET Grants /\ read # {} /\ v.own \in read
    BY <1>1, <1>2
  <2> HIDE DEF read
  <2> QED
    BY <2>1, HighestIs
<1>4. Highest(read) # NoRole
  <2>1. Rank(v.own) >= 0 /\ Rank(v.own) \in Int /\ Rank(NoRole) = -1
    BY <1>1, Ranks
  <2> QED
    BY <1>3, <2>1
<1>5. RoleOf(v.own, GroupRoles(d, v.user)) = Highest(read)
  BY <1>4, Names DEF RoleOf, Given
<1>6. Rank(Highest(read)) <= Rank(v.high)
  <2>1. Rank(Granted(d, v.user)) \in Int /\ Rank(v.high) \in Int
    BY <1>1, <1>2, Ranks
  <2>2. \A r \in GroupRoles(d, v.user) : Rank(r) \in Int
    BY <1>2, Ranks
  <2>3. CASE Highest(read) = v.own
    BY <1>1, <2>3
  <2>4. CASE Highest(read) \in GroupRoles(d, v.user)
    BY <1>1, <1>2, <2>1, <2>2, <2>4
  <2> QED
    BY <1>3, <2>3, <2>4
<1> QED
  BY <1>5, <1>6

LEMMA RoleReadIs ==
  ASSUME NEW d, Sound(d), NEW v, VisitOK(v, d), v.pc = "groups"
  PROVE  RoleOf(v.own, GroupRoles(d, v.user)) \in Grants
<1>1. v.user \in Users /\ v.own \in Grants
  BY DEF VisitOK, Visits
<1>2. {v.own} \cup GroupRoles(d, v.user) \in SUBSET Grants
  BY <1>1, GrantedIs
<1>3. Highest({v.own} \cup GroupRoles(d, v.user)) \in Grants
  BY <1>2, HighestIs
<1> QED
  BY <1>3, DirectoryAssumption DEF RoleOf, Given, Grants

-----------------------------------------------------------------------------
\* Steps.

\* A step of one worker that commits nothing.
LEMMA JobStep ==
  ASSUME IInv, NEW w \in Workers, NEW n, job' = [job EXCEPT ![w] = n], JobOK(n, dir),
         n.pc \in InTransaction => job[w].pc \in InTransaction \/ ~Locked,
         UNCHANGED <<dir, visit>>
  PROVE  IInv'
<1>1. /\ Sound(dir) /\ Exclusive /\ \A v \in Workers : JobOK(job[v], dir)
      /\ job = [v \in Workers |-> job[v]]
  BY DEF IInv
<1>2. job'[w] = n /\ \A v \in Workers \ {w} : job'[v] = job[v]
  BY <1>1
<1>3. (job = [v \in Workers |-> job[v]])'
  BY <1>1, <1>2
<1>4. \A v \in Workers : JobOK(job'[v], dir')
  <2> SUFFICES ASSUME NEW v \in Workers PROVE JobOK(job'[v], dir)
    OBVIOUS
  <2>1. CASE v = w
    BY <1>2, <2>1
  <2>2. CASE v # w
    BY <1>1, <1>2, <2>2
  <2> QED
    BY <2>1, <2>2
<1>5. Exclusive'
  <2> SUFFICES ASSUME NEW u \in Workers, NEW v \in Workers, u # v
               PROVE  ~({job'[u].pc, job'[v].pc} \subseteq InTransaction)
    BY DEF Exclusive
  <2>1. ~({job[u].pc, job[v].pc} \subseteq InTransaction)
    BY <1>1 DEF Exclusive
  <2> QED
    BY <1>2, <2>1 DEF Locked
<1>6. Sound(dir') /\ (visit = [c \in Callers |-> visit[c]])' /\ \A c \in Callers : VisitOK(visit'[c], dir')
  BY DEF IInv
<1> QED
  BY <1>3, <1>4, <1>5, <1>6 DEF IInv

\* A commit.
LEMMA CommitStep ==
  ASSUME IInv, NEW w \in Workers, job[w].pc \in InTransaction,
         NEW d, Sound(d), Present(dir) \subseteq Present(d), Commit(w, d)
  PROVE  IInv'
<1>1. /\ Sound(dir) /\ Exclusive /\ \A v \in Workers : JobOK(job[v], dir)
      /\ job = [v \in Workers |-> job[v]]
      /\ visit = [c \in Callers |-> visit[c]] /\ \A c \in Callers : VisitOK(visit[c], dir)
  BY DEF IInv
<1>2. dir' = d /\ visit' = Seen(d) /\ job' = [job EXCEPT ![w] = NoJob]
  BY DEF Commit, Done
<1>3. job'[w] = NoJob /\ \A v \in Workers \ {w} : job'[v] = job[v]
  BY <1>1, <1>2
<1>4. (job = [v \in Workers |-> job[v]])'
  BY <1>1, <1>2
<1>5. \A v \in Workers \ {w} : job[v].pc \notin InTransaction
  BY <1>1 DEF Exclusive
<1>6. \A v \in Workers : JobOK(job'[v], d)
  <2> SUFFICES ASSUME NEW v \in Workers PROVE JobOK(job'[v], d)
    OBVIOUS
  <2>1. CASE v = w
    BY <1>3, <2>1, Idle
  <2>2. CASE v # w
    BY <1>1, <1>3, <1>5, <2>2, Monotone
  <2> QED
    BY <2>1, <2>2
<1>7. Exclusive'
  BY <1>3, <1>5, Idle DEF Exclusive, InTransaction
<1>8. (visit = [c \in Callers |-> visit[c]])'
  BY <1>2 DEF Seen
<1>9. \A c \in Callers : VisitOK(visit'[c], d)
  <2> SUFFICES ASSUME NEW c \in Callers PROVE VisitOK(visit'[c], d)
    OBVIOUS
  <2>1. CASE visit[c].pc = "groups"
    <3>1. visit'[c] = [visit[c] EXCEPT !.high = Highest({visit[c].high, Granted(d, visit[c].user)}),
                                       !.unset = visit[c].unset \/ Granted(d, visit[c].user) = NoRole]
      BY <1>2, <2>1 DEF Seen
    <3> QED
      BY <1>1, <2>1, <3>1, VisitSeen
  <2>2. CASE visit[c].pc # "groups"
    <3>1. visit'[c] = visit[c]
      BY <1>2, <2>2 DEF Seen
    <3> QED
      BY <1>1, <2>2, <3>1 DEF VisitOK
  <2> QED
    BY <2>1, <2>2
<1> QED
  BY <1>2, <1>4, <1>6, <1>7, <1>8, <1>9 DEF IInv

\* A step of one caller.
LEMMA VisitStep ==
  ASSUME IInv, NEW c \in Callers, NEW v, visit' = [visit EXCEPT ![c] = v], VisitOK(v, dir),
         UNCHANGED <<dir, job>>
  PROVE  IInv'
<1>1. visit = [b \in Callers |-> visit[b]] /\ \A b \in Callers : VisitOK(visit[b], dir)
  BY DEF IInv
<1>2. (visit = [b \in Callers |-> visit[b]])' /\ \A b \in Callers : VisitOK(visit'[b], dir)
  BY <1>1
<1>3. Exclusive'
  BY DEF IInv, Exclusive
<1> QED
  BY <1>2, <1>3 DEF IInv

LEMMA InitHolds == ASSUME Init PROVE IInv
<1>1. dir = Nobody /\ job = [w \in Workers |-> NoJob] /\ visit = [c \in Callers |-> NoVisit]
  BY DEF Init
<1>2. \A w \in Workers : JobOK(job[w], dir) /\ job[w].pc = "idle"
  BY <1>1, Idle
<1>3. Exclusive
  BY <1>2 DEF Exclusive, InTransaction
<1>4. \A c \in Callers : VisitOK(visit[c], dir)
  BY <1>1 DEF NoVisit, VisitOK, Visits, Grants, NoRole
<1> QED
  BY <1>1, <1>2, <1>3, <1>4, NobodyIs DEF IInv

LEMMA JobIs ==
  ASSUME IInv, NEW w \in Workers
  PROVE  /\ JobOK(job[w], dir) /\ job[w] \in Jobs /\ Sound(dir)
         /\ job[w].at \in Nat /\ job[w].failed \in Nat /\ job[w].stale \in BOOLEAN
         /\ job[w].pc \in Requesting => /\ job[w].request \in Requests
                                        /\ job[w].at \in DOMAIN job[w].request.ops
                                        /\ Op(w) \in Operations /\ Op(w) \in OpsOf(job[w])
                                        /\ Op(w).on = "user" /\ Op(w).method = "POST" => Op(w).name # Unset
<1>1. JobOK(job[w], dir) /\ job[w] \in Jobs /\ Sound(dir)
  BY DEF IInv, JobOK
<1>2. job[w].at \in Nat /\ job[w].failed \in Nat /\ job[w].stale \in BOOLEAN
  BY <1>1 DEF Jobs
<1>3. job[w].pc \in Requesting => job[w].request \in Requests /\ job[w].at \in DOMAIN job[w].request.ops
  BY <1>1 DEF JobOK
<1> QED
  BY <1>1, <1>2, <1>3, RequestShape DEF Op, OpsOf

LEMMA ReceiveStep ==
  ASSUME IInv, NEW w \in Workers, NEW r \in Requests, Receive(w, r)
  PROVE  IInv'
<1>1. r.ops \in Seq(Operations) /\ 1 \in DOMAIN r.ops
  BY RequestShape
<1>2. Sound(dir) /\ dir \in Directories
  BY DEF IInv, Sound
<1>3. CASE r.mode = "atomic"
  <2> DEFINE n == [NoJob EXCEPT !.pc = "txn", !.request = r, !.view = dir]
  <2>1. /\ n.pc = "txn" /\ n.request = r /\ n.view = dir /\ n.at = 1 /\ n.failed = 0 /\ n.stale = FALSE
        /\ n \in Jobs
    BY <1>2, NobodyIs DEF NoJob, Jobs, Pcs, InTransaction
  <2>2. job' = [job EXCEPT ![w] = n] /\ ~Locked /\ UNCHANGED <<dir, visit>>
    BY <1>3 DEF Receive
  <2> HIDE DEF n
  <2>3. JobOK(n, dir)
    BY <1>1, <1>2, <2>1 DEF JobOK, Requesting, Syncing, InTransaction, ChangesAsked, OpsEffected
  <2> QED
    BY <2>2, <2>3, JobStep
<1>4. CASE r.mode # "atomic"
  <2> DEFINE n == [NoJob EXCEPT !.pc = "read", !.request = r]
  <2>1. n.pc = "read" /\ n.request = r /\ n.at = 1 /\ n.failed = 0 /\ n \in Jobs
    BY NobodyIs DEF NoJob, Jobs, Pcs, InTransaction
  <2>2. job' = [job EXCEPT ![w] = n] /\ UNCHANGED <<dir, visit>>
    BY <1>4 DEF Receive
  <2> HIDE DEF n
  <2>3. JobOK(n, dir) /\ n.pc \notin InTransaction
    BY <1>1, <1>4, <2>1 DEF JobOK, Requesting, Syncing, InTransaction
  <2> QED
    BY <2>2, <2>3, JobStep
<1> QED
  BY <1>3, <1>4

\* A job that is dropped.
LEMMA DoneStep ==
  ASSUME IInv, NEW w \in Workers, Done(w), UNCHANGED <<dir, visit>>
  PROVE  IInv'
BY Idle, JobStep DEF Done, InTransaction

LEMMA ReadStep ==
  ASSUME IInv, NEW w \in Workers, Read(w)
  PROVE  IInv'
<1> DEFINE j == job[w]
           op == Op(w)
<1>1. j.pc = "read" /\ UNCHANGED <<dir, visit>>
  BY DEF Read
<1>2. /\ JobOK(j, dir) /\ j \in Jobs /\ Sound(dir) /\ j.at \in Nat /\ j.failed \in Nat
      /\ j.request \in Requests /\ j.at \in DOMAIN j.request.ops /\ op \in Operations
      /\ op = j.request.ops[j.at]
  BY <1>1, JobIs DEF Requesting, Op
<1>3. j.request.mode # "atomic" /\ (j.request.mode # "loose" => j.failed = 0)
  BY <1>1, <1>2 DEF JobOK
<1>4. CASE Found(dir, op) /\ job' = [job EXCEPT ![w].pc = "write", ![w].row = Existing(dir, op)]
  <2>1. Suits(Existing(dir, op), op, dir) /\ Existing(dir, op) \in UserRows \cup {Gone} \cup GroupRows
    BY <1>2, <1>4, ExistingSuits
  <2> DEFINE n == [j EXCEPT !.pc = "write", !.row = Existing(dir, op)]
  <2>2. job' = [job EXCEPT ![w] = n]
    BY <1>4
  <2>3. /\ n.pc = "write" /\ n.row = Existing(dir, op) /\ n.request = j.request /\ n.at = j.at
        /\ n.failed = j.failed /\ n \in Jobs
    BY <1>2, <2>1 DEF Jobs, Pcs
  <2> HIDE DEF n
  <2>4. JobOK(n, dir) /\ n.pc \notin InTransaction
    BY <1>2, <1>3, <2>1, <2>3 DEF JobOK, Requesting, Syncing, InTransaction
  <2> QED
    BY <1>1, <2>2, <2>4, JobStep
<1>5. CASE /\ ~Last(w) /\ ~Stops(w, j.failed + 1)
           /\ job' = [job EXCEPT ![w].at = j.at + 1, ![w].failed = j.failed + 1]
  <2> DEFINE n == [j EXCEPT !.at = j.at + 1, !.failed = j.failed + 1]
  <2>1. job' = [job EXCEPT ![w] = n]
    BY <1>5
  <2>2. n.pc = "read" /\ n.request = j.request /\ n.at = j.at + 1 /\ n \in Jobs
    <3>1. j.at + 1 \in Nat /\ j.failed + 1 \in Nat
      BY <1>2
    <3>2. n \in Jobs
      BY <1>2, <3>1 DEF Jobs
    <3> QED
      BY <1>1, <1>2, <3>2 DEF Jobs
  <2> HIDE DEF n
  <2>3. j.request.mode = "loose" /\ j.at + 1 \in DOMAIN j.request.ops
    <3>1. j.at # Len(j.request.ops)
      BY <1>5 DEF Last
    <3>2. DOMAIN j.request.ops = 1..Len(j.request.ops) /\ Len(j.request.ops) \in Nat
      BY <1>2, RequestShape
    <3> QED
      BY <1>2, <1>5, <3>1, <3>2 DEF Stops
  <2>4. JobOK(n, dir) /\ n.pc \notin InTransaction
    BY <1>2, <2>2, <2>3 DEF JobOK, Requesting, Syncing, InTransaction
  <2> QED
    BY <1>1, <2>1, <2>4, JobStep
<1>6. CASE Done(w)
  BY <1>1, <1>6, DoneStep
<1> QED
  BY <1>4, <1>5, <1>6 DEF Read

\* What follows an operation, whether it starts the transaction or is in it: b is
\* what the operation was applied to.
LEMMA ProceedStep ==
  ASSUME IInv, NEW w \in Workers, job[w].pc \in {"write", "txn"}, UNCHANGED <<dir, visit>>,
         job[w].pc = "write" => ~Locked,
         NEW b, Present(dir) \subseteq Present(b),
         job[w].request.mode # "loose" =>
             job[w].failed = 0 /\ OpsEffected(job[w].request.ops, job[w].at - 1, b),
         NEW r, Outcome(b, Op(w), r), NEW stale \in BOOLEAN,
         r.error # "broken" /\ ~stale => ChangesAsked(OpsOf(job[w]), dir, r.view),
         Proceed(w, r, stale)
  PROVE  IInv'
<1> DEFINE j == job[w]
           failed == IF r.error = "none" THEN j.failed ELSE j.failed + 1
           stop == r.error # "none" /\ Stops(w, failed)
           n == [j EXCEPT !.view = r.view, !.failed = failed, !.row = Gone, !.stale = stale,
                          !.pc = IF stop \/ Last(w) THEN "end" ELSE "txn",
                          !.at = IF stop \/ Last(w) THEN j.at ELSE j.at + 1]
<1>1. /\ JobOK(j, dir) /\ j \in Jobs /\ j.at \in Nat /\ j.failed \in Nat /\ j.request \in Requests
      /\ j.at \in DOMAIN j.request.ops
  BY JobIs DEF Requesting
<1>2. CASE r.error = "broken" /\ Done(w)
  BY <1>2, DoneStep
<1>3. CASE r.error # "broken" /\ job' = [job EXCEPT ![w] = n]
  <2>1. failed \in Nat /\ j.at + 1 \in Nat
    BY <1>1
  <2>2. r.view \in Directories
    BY <1>3 DEF Sound, Outcome
  <2>3. n \in Jobs
    <3> HIDE DEF failed, stop
    <3> QED
      BY <1>1, <2>1, <2>2 DEF Jobs, Pcs, InTransaction
  <2>4. /\ n.request = j.request /\ n.view = r.view /\ n.stale = stale /\ n.failed = failed
        /\ n.pc = (IF stop \/ Last(w) THEN "end" ELSE "txn")
        /\ n.at = (IF stop \/ Last(w) THEN j.at ELSE j.at + 1)
    <3> HIDE DEF failed, stop
    <3> QED
      BY <1>1 DEF Jobs
  <2> HIDE DEF n
  <2>5. /\ n.pc \in {"txn", "end"}
        /\ j.request.mode # "loose" /\ r.error # "none" => n.pc = "end"
        /\ n.pc = "txn" => n.at = j.at + 1 /\ j.at # Len(j.request.ops)
        /\ n.pc = "end" => n.at = j.at
        /\ n.pc = "end" /\ r.error = "none" => j.at = Len(j.request.ops)
    BY <2>4 DEF Stops, Last
  <2>6. JobOK(n, dir)
    <3>1. /\ n.failed = (IF r.error = "none" THEN j.failed ELSE j.failed + 1)
          /\ Outcome(b, j.request.ops[j.at], r)
          /\ ~n.stale => ChangesAsked(OpsOf(j), dir, r.view)
      BY <1>3, <2>4 DEF Op
    <3> HIDE DEF failed, stop
    <3> QED
      BY <1>1, <1>3, <2>3, <2>4, <2>5, <3>1, ProceedFacts
  <2>7. j.pc \in InTransaction \/ ~Locked
    BY DEF InTransaction
  <2> QED
    BY <1>3, <2>6, <2>7, JobStep
<1>4. job' = [job EXCEPT ![w].view = r.view, ![w].failed = failed, ![w].row = Gone, ![w].stale = stale,
                         ![w].pc = IF stop \/ Last(w) THEN "end" ELSE "txn",
                         ![w].at = IF stop \/ Last(w) THEN j.at ELSE j.at + 1]
        => job' = [job EXCEPT ![w] = n]
  <2> HIDE DEF failed, stop
  <2> QED
    BY DEF IInv
<1> QED
  BY <1>2, <1>3, <1>4 DEF Proceed

LEMMA WriteStep ==
  ASSUME IInv, NEW w \in Workers, Write(w)
  PROVE  IInv'
<1> DEFINE j == job[w]
           op == Op(w)
           row == job[w].row
           r == Apply(dir, row, op)
           stale == row # Existing(dir, op)
<1>1. j.pc = "write" /\ ~Locked /\ UNCHANGED <<dir, visit>> /\ Proceed(w, r, stale)
  BY DEF Write
<1>2. /\ JobOK(j, dir) /\ Sound(dir) /\ j.request \in Requests /\ op \in Operations /\ op \in OpsOf(j)
      /\ op.on = "user" /\ op.method = "POST" => op.name # Unset
  BY <1>1, JobIs DEF Requesting
<1>3. Suits(row, op, dir) /\ (j.request.mode # "loose" => j.failed = 0) /\ j.request.mode # "atomic"
  BY <1>1, <1>2 DEF JobOK, Op
<1>4. j.request.mode # "loose" => OpsEffected(j.request.ops, j.at - 1, dir)
  <2> SUFFICES ASSUME j.request.mode # "loose" PROVE OpsEffected(j.request.ops, j.at - 1, dir)
    OBVIOUS
  <2>1. j.request.mode = "single" /\ j.at \in 1..Len(j.request.ops)
    BY <1>1, <1>2, <1>3, RequestShape, JobIs DEF Requesting
  <2>2. Len(j.request.ops) = 1
    BY <1>2, <2>1, DirectoryAssumption
  <2>3. j.at = 1
    BY <2>1, <2>2
  <2> QED
    BY <2>3 DEF OpsEffected
<1>5. Outcome(dir, op, r) /\ (r.error # "broken" /\ ~stale => ChangesAsked({op}, dir, r.view))
  <2> HIDE DEF op, row
  <2> QED
    BY <1>2, <1>3, ApplyFacts
<1>6. r.error # "broken" /\ ~stale => ChangesAsked(OpsOf(j), dir, r.view)
  <2> HIDE DEF op, r, stale
  <2> QED
    BY <1>2, <1>5 DEF ChangesAsked
<1>7. stale \in BOOLEAN
  OBVIOUS
<1> HIDE DEF stale, r
<1> QED
  BY <1>1, <1>3, <1>4, <1>5, <1>6, <1>7, ProceedStep

LEMMA ContinueStep ==
  ASSUME IInv, NEW w \in Workers, Continue(w)
  PROVE  IInv'
<1> DEFINE j == job[w]
           op == Op(w)
           b == j.view
           r == IF Found(b, op) THEN Apply(b, Existing(b, op), op) ELSE Result(b, "unknown")
<1>1. j.pc = "txn" /\ UNCHANGED <<dir, visit>> /\ Proceed(w, r, j.stale)
  BY DEF Continue
<1>2. /\ JobOK(j, dir) /\ j.request \in Requests /\ op \in Operations /\ op \in OpsOf(j)
      /\ op.on = "user" /\ op.method = "POST" => op.name # Unset
      /\ j.stale \in BOOLEAN
  BY <1>1, JobIs DEF Requesting
<1>3. /\ Sound(b) /\ Present(dir) \subseteq Present(b)
      /\ j.request.mode # "loose" => j.failed = 0 /\ OpsEffected(j.request.ops, j.at - 1, b)
      /\ ~j.stale => ChangesAsked(OpsOf(j), dir, b)
  BY <1>1, <1>2 DEF JobOK, InTransaction
<1>4. Outcome(b, op, r) /\ (r.error # "broken" => ChangesAsked({op}, b, r.view))
  <2> HIDE DEF op, b
  <2>1. CASE Found(b, op)
    <3> DEFINE row == Existing(b, op)
    <3>1. Suits(row, op, b)
      BY <1>2, <1>3, <2>1, ExistingSuits
    <3>2. r = Apply(b, row, op) /\ row = Existing(b, op)
      BY <2>1
    <3> HIDE DEF row, r
    <3> QED
      BY <1>2, <1>3, <3>1, <3>2, ApplyFacts
  <2>2. CASE ~Found(b, op)
    <3>1. r.view = b /\ r.error = "unknown"
      BY <2>2 DEF Result
    <3> HIDE DEF r
    <3> QED
      BY <1>3, <3>1 DEF Outcome, ChangesAsked
  <2> QED
    BY <2>1, <2>2
<1>5. r.error # "broken" /\ ~j.stale => ChangesAsked(OpsOf(j), dir, r.view)
  <2> HIDE DEF op, b, r
  <2> QED
    BY <1>2, <1>3, <1>4, AskedStill
<1> HIDE DEF r
<1> QED
  BY <1>1, <1>2, <1>3, <1>4, <1>5, ProceedStep

LEMMA EndStep ==
  ASSUME IInv, NEW w \in Workers, End(w)
  PROVE  IInv'
<1>1. job[w].pc = "end" /\ Commit(w, IF Keeps(w) THEN job[w].view ELSE dir)
  BY DEF End
<1>2. Sound(dir) /\ Sound(job[w].view) /\ Present(dir) \subseteq Present(job[w].view)
  BY <1>1 DEF IInv, JobOK, InTransaction
<1>3. job[w].pc \in InTransaction
  BY <1>1 DEF InTransaction
<1>4. CASE Keeps(w)
  BY <1>1, <1>2, <1>3, <1>4, CommitStep
<1>5. CASE ~Keeps(w)
  BY <1>1, <1>2, <1>3, <1>5, CommitStep
<1> QED
  BY <1>4, <1>5

LEMMA SyncReadStep ==
  ASSUME IInv, NEW w \in Workers, NEW s \in Snapshots, SyncRead(w, s)
  PROVE  IInv'
<1> DEFINE n == [NoJob EXCEPT !.pc = "sync", !.source = s, !.known = Present(dir) \cup Exists(dir)]
<1>1. /\ s \in Directories
      /\ Present(dir) \cup Exists(dir) \subseteq Users \cup Groups
      /\ (Present(dir) \cup Exists(dir)) \cap Users \subseteq Present(dir)
  BY DirectoryAssumption DEF Present, Exists
<1>2. /\ n.pc = "sync" /\ n.request = NoRequest /\ n.known = Present(dir) \cup Exists(dir)
      /\ n \in Jobs
  BY <1>1, NobodyIs DEF NoJob, Jobs, Pcs
<1>3. job' = [job EXCEPT ![w] = n] /\ UNCHANGED <<dir, visit>>
  BY DEF SyncRead
<1> HIDE DEF n
<1>4. JobOK(n, dir) /\ n.pc \notin InTransaction
  BY <1>1, <1>2 DEF JobOK, Requesting, Syncing, InTransaction
<1> QED
  BY <1>3, <1>4, JobStep

LEMMA SyncBeginStep ==
  ASSUME IInv, NEW w \in Workers, SyncBegin(w)
  PROVE  IInv'
<1> DEFINE j == job[w]
           n == [j EXCEPT !.pc = "users", !.view = dir, !.todo = Present(j.source)]
<1>1. j.pc = "sync" /\ ~Locked /\ UNCHANGED <<dir, visit>> /\ job' = [job EXCEPT ![w] = n]
  BY DEF SyncBegin
<1>2. JobOK(j, dir) /\ j \in Jobs /\ Sound(dir) /\ dir \in Directories
  BY JobIs DEF Sound
<1>3. Present(j.source) \subseteq Users
  BY DEF Present
<1>4. /\ n.pc = "users" /\ n.view = dir /\ n.todo = Present(j.source) /\ n.source = j.source
      /\ n.request = j.request /\ n.known = j.known /\ n \in Jobs
  BY <1>2, <1>3 DEF Jobs, Pcs, InTransaction
<1>5. j.request = NoRequest /\ j.known \cap Users \subseteq Present(dir)
  BY <1>1, <1>2 DEF JobOK, Syncing
<1> HIDE DEF n
<1>6. JobOK(n, dir)
  BY <1>2, <1>4, <1>5 DEF JobOK, Requesting, Syncing, InTransaction, UsersAgree
<1> QED
  BY <1>1, <1>6, JobStep

\* What is known of a synchronisation that has begun.
LEMMA SyncIs ==
  ASSUME IInv, NEW w \in Workers, job[w].pc \in {"users", "groups"}
  PROVE  /\ job[w] \in Jobs /\ job[w].request = NoRequest
         /\ job[w].known \cap Users \subseteq Present(dir)
         /\ Sound(job[w].view) /\ Present(dir) \subseteq Present(job[w].view)
         /\ job[w].source \in Directories /\ UsersAgree(job[w])
BY JobIs DEF JobOK, Jobs, InTransaction, Syncing

LEMMA SourceRows ==
  ASSUME NEW s \in Directories
  PROVE  /\ \A u \in Present(s) : u \in Users /\ s.users[u] \in UserRows
         /\ \A g \in Exists(s) : g \in Groups /\ s.groups[g] \in Grants
BY DEF Directories, Present, Exists

\* A synchronisation that has written something is still one.
LEMMA SyncOn ==
  ASSUME IInv, NEW w \in Workers, job[w].pc \in {"users", "groups"},
         NEW n \in Jobs, n.pc \in {"users", "groups"}, n.source = job[w].source,
         n.request = job[w].request, n.known = job[w].known,
         Sound(n.view), Present(job[w].view) \subseteq Present(n.view), UsersAgree(n),
         n.pc = "users" => n.todo \subseteq Present(n.source),
         n.pc = "groups" => n.todo \subseteq Exists(n.source) /\ GroupsAgree(n)
  PROVE  JobOK(n, dir)
BY SyncIs DEF JobOK, Requesting, Syncing, InTransaction

LEMMA SyncUserStep ==
  ASSUME IInv, NEW w \in Workers, NEW u \in Users, SyncUser(w, u)
  PROVE  IInv'
<1> DEFINE j == job[w]
           row == j.source.users[u]
           r == PutUser(j.view, u, row)
           n == [j EXCEPT !.view = r.view, !.todo = j.todo \ {u}]
<1>1. j.pc = "users" /\ u \in j.todo /\ UNCHANGED <<dir, visit>>
  BY DEF SyncUser
<1>2. /\ j \in Jobs /\ Sound(j.view) /\ j.source \in Directories /\ UsersAgree(j)
      /\ j.todo \subseteq Present(j.source)
  BY <1>1, SyncIs, JobIs DEF JobOK
<1>3. row \in UserRows
  BY <1>1, <1>2, SourceRows
<1>4. CASE r.error = "none"
  <2>1. /\ Sound(r.view) /\ r.view.users[u] = row
        /\ \A v \in Users \ {u} : r.view.users[v] = j.view.users[v]
        /\ Present(r.view) = Present(j.view) \cup {u}
    <3> HIDE DEF row
    <3> QED
      BY <1>2, <1>3, <1>4, PutUserFacts
  <2> HIDE DEF r
  <2>2. job' = [job EXCEPT ![w] = n]
    BY <1>4 DEF SyncUser, r
  <2>3. /\ n.pc = "users" /\ n.view = r.view /\ n.todo = j.todo \ {u} /\ n.source = j.source
        /\ n.request = j.request /\ n.known = j.known /\ n \in Jobs
    BY <1>1, <1>2, <2>1 DEF Jobs, Sound
  <2> HIDE DEF n
  <2>4. UsersAgree(n)
    <3> SUFFICES ASSUME NEW v \in Present(j.source) \ (j.todo \ {u})
                 PROVE  r.view.users[v] = j.source.users[v]
      BY <2>3 DEF UsersAgree
    <3>1. v \in Users
      BY DEF Present
    <3> QED
      BY <1>2, <2>1, <3>1 DEF UsersAgree
  <2>5. JobOK(n, dir)
    BY <1>1, <1>2, <2>1, <2>3, <2>4, SyncOn
  <2> QED
    BY <1>1, <2>2, <2>5, JobStep DEF InTransaction
<1>5. CASE r.error # "none"
  BY <1>1, <1>5, DoneStep DEF SyncUser
<1> QED
  BY <1>4, <1>5

LEMMA SyncUsersDoneStep ==
  ASSUME IInv, NEW w \in Workers, SyncUsersDone(w)
  PROVE  IInv'
<1> DEFINE j == job[w]
           n == [j EXCEPT !.pc = "groups", !.todo = Exists(j.source)]
<1>1. j.pc = "users" /\ j.todo = {} /\ UNCHANGED <<dir, visit>> /\ job' = [job EXCEPT ![w] = n]
  BY DEF SyncUsersDone
<1>2. j \in Jobs /\ UsersAgree(j) /\ Sound(j.view)
  BY <1>1, SyncIs
<1>3. Exists(j.source) \subseteq Groups
  BY DEF Exists
<1>4. /\ n.pc = "groups" /\ n.view = j.view /\ n.todo = Exists(j.source) /\ n.source = j.source
      /\ n.request = j.request /\ n.known = j.known /\ n \in Jobs
  BY <1>2, <1>3 DEF Jobs, Pcs, InTransaction
<1> HIDE DEF n
<1>5. UsersAgree(n) /\ GroupsAgree(n)
  BY <1>1, <1>2, <1>4 DEF UsersAgree, GroupsAgree
<1>6. JobOK(n, dir)
  BY <1>1, <1>2, <1>4, <1>5, SyncOn
<1> QED
  BY <1>1, <1>6, JobStep DEF InTransaction

LEMMA SyncGroupStep ==
  ASSUME IInv, NEW w \in Workers, NEW g \in Groups, SyncGroup(w, g)
  PROVE  IInv'
<1> DEFINE j == job[w]
           role == j.source.groups[g]
           members == MembersIn(j.source, g)
           r == PutGroup(j.view, g, role, TRUE, members)
           n == [j EXCEPT !.view = r.view, !.todo = j.todo \ {g}]
<1>1. j.pc = "groups" /\ g \in j.todo /\ UNCHANGED <<dir, visit>>
  BY DEF SyncGroup
<1>2. /\ j \in Jobs /\ Sound(j.view) /\ j.source \in Directories /\ UsersAgree(j) /\ GroupsAgree(j)
      /\ j.todo \subseteq Exists(j.source)
  BY <1>1, SyncIs, JobIs DEF JobOK
<1>3. role \in Grants /\ members \in SUBSET Users
  BY <1>1, <1>2, SourceRows DEF MembersIn
<1>4. CASE r.error = "none"
  <2>1. /\ Sound(r.view) /\ r.view.users = j.view.users
        /\ \A h \in Groups \ {g} : MembersIn(r.view, h) = MembersIn(j.view, h)
        /\ MembersIn(r.view, g) = members
    <3>1. r = PutGroup(j.view, g, role, TRUE, members)
      OBVIOUS
    <3> HIDE DEF role, members, r
    <3> QED
      BY <1>2, <1>3, <1>4, <3>1, PutGroupFacts
  <2>2. job' = [job EXCEPT ![w] = n]
    BY <1>4 DEF SyncGroup
  <2> HIDE DEF r
  <2>3. /\ n.pc = "groups" /\ n.view = r.view /\ n.todo = j.todo \ {g} /\ n.source = j.source
        /\ n.request = j.request /\ n.known = j.known /\ n \in Jobs
    BY <1>1, <1>2, <2>1 DEF Jobs, Sound
  <2> HIDE DEF n
  <2>4. UsersAgree(n)
    <3> SUFFICES ASSUME NEW u \in Present(j.source) \ n.todo
                 PROVE  r.view.users[u] = j.source.users[u]
      BY <2>3 DEF UsersAgree
    <3>1. u \notin j.todo
      BY <1>1, <1>2, <2>3, DirectoryAssumption DEF Present, Exists
    <3> QED
      BY <1>2, <2>1, <3>1 DEF UsersAgree
  <2>5. GroupsAgree(n)
    <3> SUFFICES ASSUME NEW h \in Exists(j.source) \ n.todo
                 PROVE  MembersIn(r.view, h) = MembersIn(j.source, h)
      BY <2>3 DEF GroupsAgree
    <3>1. CASE h = g
      BY <2>1, <3>1
    <3>2. CASE h # g
      <4>1. h \in Groups /\ h \notin j.todo
        BY <2>3, <3>2 DEF Exists
      <4> QED
        BY <1>2, <2>1, <3>2, <4>1 DEF GroupsAgree
    <3> QED
      BY <3>1, <3>2
  <2>6. Present(j.view) \subseteq Present(n.view)
    BY <2>1, <2>3 DEF Present
  <2>7. JobOK(n, dir)
    BY <1>1, <1>2, <2>1, <2>3, <2>4, <2>5, <2>6, SyncOn
  <2> QED
    BY <1>1, <2>2, <2>7, JobStep DEF InTransaction
<1>5. CASE r.error # "none"
  BY <1>1, <1>5, DoneStep DEF SyncGroup
<1> QED
  BY <1>4, <1>5

\* What the last step of a synchronisation does to its view.
LEMMA PurgedFacts ==
  ASSUME IInv, NEW w \in Workers, job[w].pc = "groups", NEW e, e = Purged(w)
  PROVE  /\ Sound(e) /\ Present(e) = Present(job[w].view)
         /\ \A u \in Users \ AbsentUsers(w) : e.users[u] = job[w].view.users[u]
         /\ \A u \in AbsentUsers(w) : e.users[u].status = "inactive"
         /\ \A g \in Groups \ AbsentGroups(w) : MembersIn(e, g) = MembersIn(job[w].view, g)
         /\ Exists(e) = Exists(job[w].view) \ AbsentGroups(w)
<1> DEFINE d == job[w].view
           gone == AbsentUsers(w)
           lost == AbsentGroups(w)
           f == [users |-> Deactivated(d.users, gone), groups |-> d.groups, members |-> d.members]
<1>1. Sound(d) /\ Present(dir) \subseteq Present(d) /\ job[w].known \cap Users \subseteq Present(dir)
  BY SyncIs
<1>2. gone \in SUBSET Present(d) /\ lost \in SUBSET Groups
  BY <1>1 DEF AbsentUsers, AbsentGroups
<1>3. d.groups \in [Groups -> Grants \cup {NoGroup}] /\ d.members \subseteq Groups \X Users
  BY <1>1 DEF Sound, Directories
<1>4. /\ e.users = f.users /\ e.groups = [g \in Groups |-> IF g \in lost THEN NoGroup ELSE d.groups[g]]
      /\ e.members = {m \in f.members : m[1] \notin lost} /\ f.groups = d.groups /\ f.members = d.members
      /\ e = [users |-> e.users, groups |-> e.groups, members |-> e.members]
  BY DEF Purged
<1> HIDE DEF d, gone, lost
<1>5. /\ Sound(f) /\ Present(f) = Present(d)
      /\ \A u \in Users \ gone : f.users[u] = d.users[u]
      /\ \A u \in gone : f.users[u].status = "inactive"
  <2>1. f = [users |-> Deactivated(d.users, gone), groups |-> d.groups, members |-> d.members]
    OBVIOUS
  <2> HIDE DEF f
  <2>2. /\ Sound(f) /\ Present(f) = Present(d) /\ f.groups = d.groups /\ f.members = d.members
        /\ \A u \in Users \ gone : f.users[u] = d.users[u]
        /\ \A u \in gone : /\ f.users[u].status = "inactive" /\ f.users[u].name = d.users[u].name
                          /\ f.users[u].role = d.users[u].role
    BY <1>1, <1>2, <2>1, DeactivatedFacts
  <2> QED
    BY <2>2
<1> HIDE DEF f
<1>6. Present(e) = Present(f)
  BY <1>4 DEF Present
<1>7. Exists(e) = Exists(d) \ lost /\ Exists(f) = Exists(d)
  BY <1>2, <1>4 DEF Exists
<1>8. e \in Directories
  <2>1. e.users \in [Users -> UserRows \cup {Gone}]
    BY <1>4, <1>5 DEF Sound, Directories
  <2>2. e.groups \in [Groups -> Grants \cup {NoGroup}]
    BY <1>3, <1>4
  <2>3. e.members \subseteq Groups \X Users
    BY <1>3, <1>4
  <2> QED
    BY <1>4, <2>1, <2>2, <2>3 DEF Directories
<1>9. \A m \in e.members : m[1] \in Exists(e) /\ m[2] \in Present(e)
  BY <1>4, <1>5, <1>6, <1>7 DEF Sound
<1>10. \A u, v \in Present(e) : e.users[u].name = e.users[v].name => u = v
  BY <1>4, <1>5, <1>6 DEF Sound
<1>11. \A g \in Groups \ lost : MembersIn(e, g) = MembersIn(d, g)
  BY <1>4 DEF MembersIn
<1>12. Sound(e)
  BY <1>8, <1>9, <1>10 DEF Sound
<1> QED
  BY <1>4, <1>5, <1>6, <1>7, <1>11, <1>12 DEF d, gone, lost

LEMMA SyncEndStep ==
  ASSUME IInv, NEW w \in Workers, SyncEnd(w)
  PROVE  IInv'
<1>1. job[w].pc = "groups" /\ Commit(w, Purged(w))
  BY DEF SyncEnd
<1>2. Sound(Purged(w)) /\ Present(Purged(w)) = Present(job[w].view)
  BY <1>1, PurgedFacts
<1>3. Present(dir) \subseteq Present(Purged(w))
  BY <1>1, <1>2, SyncIs
<1> QED
  BY <1>1, <1>2, <1>3, CommitStep DEF InTransaction

LEMMA ServeStep ==
  ASSUME IInv, NEW c \in Callers, Serve(c)
  PROVE  IInv'
<1>1. Sound(dir) /\ VisitOK(visit[c], dir)
  BY DEF IInv
<1>2. ASSUME NEW u \in Users, ReadUser(c, u) PROVE IInv'
  <2> DEFINE v == [pc |-> "groups", user |-> u, own |-> dir.users[u].role, role |-> NoRole,
                   high |-> Granted(dir, u), unset |-> Granted(dir, u) = NoRole]
  <2>1. visit' = [visit EXCEPT ![c] = v] /\ UNCHANGED <<dir, job>>
    BY <1>2 DEF ReadUser
  <2>2. /\ dir.users[u].role \in Grants /\ Granted(dir, u) \in Grants
        /\ Rank(dir.users[u].role) <= Rank(Granted(dir, u))
    BY <1>1, GrantedIs
  <2>3. v \in Visits
    BY <2>2 DEF Visits, Grants
  <2>4. Rank(Granted(dir, u)) <= Rank(Granted(dir, u))
    BY <2>2, Ranks
  <2>5. VisitOK(v, dir)
    BY <2>2, <2>3, <2>4 DEF VisitOK
  <2> HIDE DEF v
  <2> QED
    BY <2>1, <2>5, VisitStep
<1>3. CASE ReadGroups(c)
  <2> DEFINE role == RoleOf(visit[c].own, GroupRoles(dir, visit[c].user))
             v == [visit[c] EXCEPT !.pc = "admitted", !.role = role]
  <2>1. visit[c].pc = "groups" /\ UNCHANGED <<dir, job>> /\ visit' = [visit EXCEPT ![c] = v]
    BY <1>3 DEF ReadGroups
  <2>2. role \in Grants /\ (visit[c].own # NoRole => Rank(role) <= Rank(visit[c].high))
    BY <1>1, <2>1, RoleRead, RoleReadIs
  <2> HIDE DEF role
  <2>3. /\ v.pc = "admitted" /\ v.user = visit[c].user /\ v.own = visit[c].own
        /\ v.role = role /\ v.high = visit[c].high /\ v \in Visits
    BY <1>1, <2>2 DEF VisitOK, Visits
  <2> HIDE DEF v
  <2>4. VisitOK(v, dir)
    BY <1>1, <2>1, <2>2, <2>3 DEF VisitOK
  <2> QED
    BY <2>1, <2>4, VisitStep
<1>4. CASE Leave(c)
  <2>1. visit' = [visit EXCEPT ![c] = NoVisit] /\ UNCHANGED <<dir, job>>
    BY <1>4 DEF Leave
  <2>2. VisitOK(NoVisit, dir)
    BY DEF NoVisit, VisitOK, Visits, Grants, NoRole
  <2> QED
    BY <2>1, <2>2, VisitStep
<1> QED
  BY <1>2, <1>3, <1>4 DEF Serve

LEMMA Step ==
  ASSUME IInv, Next
  PROVE  IInv'
<1>1. ASSUME NEW w \in Workers, Scim(w) PROVE IInv'
  BY <1>1, ReceiveStep, ReadStep, WriteStep, ContinueStep, EndStep DEF Scim
<1>2. ASSUME NEW w \in Workers, Sync(w) PROVE IInv'
  BY <1>2, SyncReadStep, SyncBeginStep, SyncUsersDoneStep, SyncEndStep, SyncUserStep, SyncGroupStep
  DEF Sync
<1>3. ASSUME NEW w \in Workers, Fail(w) PROVE IInv'
  BY <1>3, DoneStep DEF Fail
<1>4. ASSUME NEW c \in Callers, Serve(c) PROVE IInv'
  BY <1>4, ServeStep
<1> QED
  BY <1>1, <1>2, <1>3, <1>4 DEF Next

LEMMA Stutter ==
  ASSUME IInv, UNCHANGED vars
  PROVE  IInv'
<1>1. dir' = dir /\ job' = job /\ visit' = visit
  BY DEF vars
<1>2. Exclusive'
  BY <1>1 DEF IInv, Exclusive
<1> QED
  BY <1>1, <1>2 DEF IInv

-----------------------------------------------------------------------------
\* The strengthened invariant: the directory is sound, each job's view is what
\* its request or snapshot has done so far, one transaction is open at a time,
\* and what a caller was granted bounds what it reads.
THEOREM Invariance == Spec => []IInv
<1>1. Init => IInv
  BY InitHolds
<1>2. IInv /\ [Next]_vars => IInv'
  BY Step, Stutter
<1> QED
  BY <1>1, <1>2, PTL DEF Spec

\* The directory is what its tables declare, at every commit.
THEOREM TypeCorrect == Spec => []TypeOK
<1>1. IInv => TypeOK
  <2> SUFFICES ASSUME IInv PROVE TypeOK
    OBVIOUS
  <2>1. \A w \in Workers : job[w] \in Jobs
    BY DEF IInv, JobOK
  <2>2. Sound(dir) /\ \A c \in Callers : visit[c].pc \in {"idle", "groups", "admitted"}
    BY DEF IInv, VisitOK, Visits
  <2> QED
    BY <2>1, <2>2 DEF TypeOK, Sound, Jobs, GroupRows
<1> QED
  BY <1>1, Invariance, PTL

\* A token never raises the role that the directory grants to a user with a role
\* of its own.
THEOREM RoleHolds == Spec => []RoleBounded
<1>1. IInv => RoleBounded
  BY DEF IInv, VisitOK, RoleBounded
<1> QED
  BY <1>1, Invariance, PTL

-----------------------------------------------------------------------------
\* Only End and SyncEnd change the directory, and it is their worker's commit.
LEMMA WhoCommits ==
  ASSUME IInv, Next, dir' # dir
  PROVE  \E w \in Workers : End(w) \/ SyncEnd(w)
BY DEF Next, Scim, Sync, Serve, Receive, Read, Write, Continue, SyncRead, SyncBegin, SyncUser,
       SyncUsersDone, SyncGroup, Fail, ReadUser, ReadGroups, Leave

\* The worker that commits is the only one in a transaction.
LEMMA ItCommits ==
  ASSUME IInv, NEW v \in Workers, End(v) \/ SyncEnd(v)
  PROVE  \A w \in Workers : job[w].pc \in InTransaction => w = v
<1>1. job[v].pc \in InTransaction
  BY DEF End, SyncEnd, InTransaction
<1> QED
  BY <1>1 DEF IInv, Exclusive

\* A request has operations, a synchronisation has none.
LEMMA SyncsIs ==
  ASSUME IInv, NEW w \in Workers
  PROVE  /\ End(w) => ~Syncs(w) /\ job[w].request \in Requests
         /\ SyncEnd(w) => Syncs(w)
         /\ Ops(w) = OpsOf(job[w])
<1>1. Ops(w) = OpsOf(job[w])
  BY DEF Ops, OpsOf
<1>2. ASSUME End(w) PROVE ~Syncs(w) /\ job[w].request \in Requests
  <2>1. job[w].pc \in Requesting
    BY <1>2 DEF End, Requesting
  <2> QED
    BY <1>1, <2>1, JobIs DEF Syncs
<1>3. ASSUME SyncEnd(w) PROVE Syncs(w)
  <2>1. job[w].request.ops = <<>>
    BY <1>3, SyncIs DEF SyncEnd, NoRequest
  <2> QED
    BY <2>1 DEF Syncs, Ops
<1> QED
  BY <1>1, <1>2, <1>3

\* A single request or an atomic bulk that changes the directory has done all of
\* its operations: the failed ones stop it, and End then drops its view.
THEOREM AllOrNothingHolds == Spec => AllOrNothing
<1>1. ASSUME IInv, Next, NEW w \in Workers,
             Commits(w), ~Syncs(w), job[w].request.mode # "loose"
      PROVE  AllDone(w)
  <2> DEFINE ops == job[w].request.ops
  <2>1. job[w].pc \in InTransaction /\ dir' # dir
    BY <1>1 DEF Commits
  <2>2. End(w)
    BY <1>1, <2>1, WhoCommits, ItCommits, SyncsIs
  <2>3. job[w].pc = "end" /\ Keeps(w) /\ dir' = job[w].view
    BY <2>1, <2>2 DEF End, Commit
  <2>4. job[w].failed = 0
    BY <1>1, <2>3 DEF Keeps
  <2>5. job[w].at = Len(ops) /\ OpsEffected(ops, job[w].at, dir')
    BY <1>1, <2>3, <2>4, JobIs DEF JobOK
  <2>6. DOMAIN ops = 1..Len(ops)
    BY <1>1, <2>2, SyncsIs, RequestShape
  <2> QED
    BY <2>5, <2>6 DEF OpsEffected, AllDone
<1>2. IInv /\ [Next]_vars =>
        [\A w \in Workers :
            Commits(w) /\ ~Syncs(w) /\ job[w].request.mode # "loose" => AllDone(w)]_vars
  BY <1>1
<1> QED
  BY <1>2, Invariance, PTL DEF Spec, AllOrNothing

\* A field of a user changes only if a payload gives it, but for a
\* synchronisation and a request whose row another one changed in between.
THEOREM FieldsKept == Spec => FieldsHold
<1>1. ASSUME IInv, Next, NEW u \in Present(dir), NEW field \in {"name", "role", "status"},
             dir'.users[u][field] # dir.users[u][field]
      PROVE  \E w \in Workers : Changed(u, field, w)
  <2>1. dir' # dir
    BY <1>1
  <2>2. PICK w \in Workers : End(w) \/ SyncEnd(w)
    BY <1>1, <2>1, WhoCommits
  <2>3. job[w].pc \in InTransaction /\ Done(w)
    BY <2>2 DEF End, SyncEnd, Commit, InTransaction
  <2>4. job'[w] = NoJob
    BY <1>1, <2>3 DEF Done, IInv
  <2>5. Commits(w)
    BY <2>1, <2>3, <2>4, Idle DEF Commits
  <2>6. CASE SyncEnd(w)
    BY <1>1, <2>5, <2>6, SyncsIs DEF Changed
  <2>7. CASE End(w) /\ ~job[w].stale
    <3>1. job[w].pc = "end" /\ dir' = job[w].view
      BY <2>1, <2>7 DEF End, Commit
    <3>2. ChangesAsked(OpsOf(job[w]), dir, dir')
      BY <1>1, <2>7, <3>1, JobIs DEF JobOK
    <3>3. \E op \in OpsOf(job[w]) : Asked(op, u, field)
      BY <1>1, <3>2 DEF ChangesAsked
    <3> QED
      BY <1>1, <2>5, <3>3, SyncsIs DEF Changed
  <2> QED
    BY <2>2, <2>5, <2>6, <2>7 DEF Changed
<1>2. IInv /\ [Next]_vars =>
        [\A u \in Present(dir), field \in {"name", "role", "status"} :
            dir'.users[u][field] # dir.users[u][field]
            => \E w \in Workers : Changed(u, field, w)]_vars
  BY <1>1
<1> QED
  BY <1>2, Invariance, PTL DEF Spec, FieldsHold

\* After a synchronisation the directory is the snapshot, but for what others
\* added since the script read its list.
THEOREM SyncFaithful == Spec => SyncAgrees
<1>1. ASSUME IInv, Next, NEW w \in Workers, Commits(w), Syncs(w)
      PROVE  Agrees(job[w].source, job[w].known)
  <2> DEFINE source == job[w].source
             view == job[w].view
  <2>1. job[w].pc \in InTransaction /\ dir' # dir
    BY <1>1 DEF Commits
  <2>2. SyncEnd(w)
    BY <1>1, <2>1, WhoCommits, ItCommits, SyncsIs
  <2>3. job[w].pc = "groups" /\ job[w].todo = {} /\ dir' = Purged(w)
    BY <2>2 DEF SyncEnd, Commit
  <2>4. UsersAgree(job[w]) /\ GroupsAgree(job[w])
    BY <1>1, <2>3, JobIs DEF JobOK
  <2>5. /\ \A u \in Users \ AbsentUsers(w) : dir'.users[u] = view.users[u]
        /\ \A u \in AbsentUsers(w) : dir'.users[u].status = "inactive"
        /\ \A g \in Groups \ AbsentGroups(w) : MembersIn(dir', g) = MembersIn(view, g)
        /\ Exists(dir') = Exists(view) \ AbsentGroups(w)
    BY <1>1, <2>3, PurgedFacts
  <2>6. ASSUME NEW u \in Present(source) PROVE dir'.users[u] = source.users[u]
    BY <2>3, <2>4, <2>5 DEF AbsentUsers, UsersAgree, Present
  <2>7. ASSUME NEW g \in Exists(source) PROVE MembersIn(dir', g) = MembersIn(source, g)
    BY <2>3, <2>4, <2>5 DEF AbsentGroups, GroupsAgree, Exists
  <2>8. ASSUME "users" \in Missing, NEW u \in Users \ Present(source), dir'.users[u].status = "active"
        PROVE  u \notin job[w].known
    BY <2>5, <2>8 DEF AbsentUsers
  <2>9. ASSUME "groups" \in Missing, NEW g \in Exists(dir') \ Exists(source)
        PROVE  g \notin job[w].known
    BY <2>5, <2>9 DEF AbsentGroups, Exists
  <2> QED
    BY <2>6, <2>7, <2>8, <2>9 DEF Agrees
<1>2. IInv /\ [Next]_vars =>
        [\A w \in Workers : Commits(w) /\ Syncs(w) => Agrees(job[w].source, job[w].known)]_vars
  BY <1>1
<1> QED
  BY <1>2, Invariance, PTL DEF Spec, SyncAgrees
=============================================================================
