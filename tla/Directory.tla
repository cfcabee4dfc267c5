----------------------------- MODULE Directory -----------------------------
(***************************************************************************)
(* The local directory of users and groups: the SCIM endpoints and their   *)
(* bulk requests (app/main.py, app/directory.py), the synchronisation with *)
(* a snapshot of AD or LDAP (app/directory_sync.py), and the role a        *)
(* request gets from it (apply_directory_context).                         *)
(*                                                                         *)
(* A PUT or PATCH reads a row in autocommit mode, completes what its       *)
(* payload does not give from it, and writes the whole row back.  A        *)
(* transaction begins at the first write; a bulk request that is atomic    *)
(* has a snapshot from its savepoint on.  A bulk is one transaction either *)
(* way.                                                                    *)
(*                                                                         *)
(* A user is found by id here; names are there because they are UNIQUE.    *)
(* The other columns are completed and written as role and name are.  What *)
(* a payload gives has been parsed; its id is the id of its path.  Audit   *)
(* rows decide nothing and are left out.                                   *)
(*                                                                         *)
(* ActiveByDefault, NoCascade, KeptWhenFailed, KeptAll and TokenRoleToo    *)
(* are slips the properties must catch, each written before the definition *)
(* it would replace.                                                       *)
(***************************************************************************)
EXTENDS AccessRoles, Sequences

CONSTANTS
    Workers,    \* threads that serve SCIM requests, and the sync script
    Callers,    \* threads that serve other requests
    Users,      \* ids of users
    UserNames,
    Groups,     \* ids of groups
    Requests,   \* SCIM requests: single, or a bulk
    Snapshots,  \* what the directory of the enterprise may hold
    Missing,    \* "users" for deactivate_missing, "groups" for delete_missing_groups
    TokenRole   \* the role in a caller's token or header

NoRole == "unset"
Unset == "unset"
Grants == Roles \cup {NoRole}

\* A field of an operation is Unset, or no members are given, where the payload
\* has none.
Operations ==
    [method : {"POST", "PUT", "PATCH", "DELETE"}, on : {"user"}, id : Users,
     name : UserNames \cup {Unset}, role : Grants, status : {"active", "inactive", Unset},
     replaces : {FALSE}, members : {{}}]
    \cup
    [method : {"POST", "PUT", "PATCH", "DELETE"}, on : {"group"}, id : Groups,
     name : {Unset}, role : Grants, status : {Unset},
     replaces : BOOLEAN, members : SUBSET Users]

Gone == [name |-> Unset, role |-> NoRole, status |-> "absent"]
UserRows == [name : UserNames, role : Grants, status : {"active", "inactive"}]
NoGroup == "absent"

Directories ==
    [users : [Users -> UserRows \cup {Gone}], groups : [Groups -> Grants \cup {NoGroup}],
     members : SUBSET (Groups \X Users)]

Present(d) == {u \in Users : d.users[u] # Gone}
Exists(d) == {g \in Groups : d.groups[g] # NoGroup}

ASSUME DirectoryAssumption ==
    /\ Unset \notin UserNames
    /\ Requests \subseteq [mode : {"single", "atomic", "loose"}, limit : Nat \ {0},
                           ops : Seq(Operations)]
    /\ \A r \in Requests :
        /\ r.ops # <<>> /\ (r.mode = "single" => Len(r.ops) = 1)
        /\ \A i \in DOMAIN r.ops :
            r.ops[i].on = "user" /\ r.ops[i].method = "POST" => r.ops[i].name # Unset
    /\ Snapshots \subseteq Directories
    /\ Users \cap Groups = {}
    /\ Missing \subseteq {"users", "groups"}
    /\ TokenRole \in Roles

VARIABLES
    dir,     \* the committed directory
    job,     \* what each worker is doing
    visit    \* what each caller is doing

vars == <<dir, job, visit>>

Nobody == [users |-> [u \in Users |-> Gone], groups |-> [g \in Groups |-> NoGroup], members |-> {}]
NoRequest == [mode |-> "single", limit |-> 1, ops |-> <<>>]
\* "stale" records that the row read had changed by the time of the first write.
NoJob == [pc |-> "idle", request |-> NoRequest, at |-> 1, row |-> Gone, failed |-> 0, stale |-> FALSE,
          view |-> Nobody, source |-> Nobody, known |-> {}, todo |-> {}]
NoVisit == [pc |-> "idle", user |-> Unset, own |-> NoRole, role |-> NoRole,
            high |-> NoRole, unset |-> FALSE]

-----------------------------------------------------------------------------
\* The role the directory gives a user, for the history of a visit.
Rank(role) == IF role \in Roles THEN ROLE_ORDER[role] ELSE 0 - 1
Highest(set) == CHOOSE r \in set : \A s \in set : Rank(s) <= Rank(r)
GroupRoles(d, u) == {d.groups[g] : g \in {g \in Groups : <<g, u>> \in d.members}}
Granted(d, u) == Highest({d.users[u].role} \cup GroupRoles(d, u))

\* Whoever is between its two reads sees the new directory by the second.
Seen(d) ==
    [c \in Callers |->
        IF visit[c].pc # "groups" THEN visit[c]
        ELSE [visit[c] EXCEPT !.high = Highest({visit[c].high, Granted(d, visit[c].user)}),
                              !.unset = visit[c].unset \/ Granted(d, visit[c].user) = NoRole]]

Done(w) == job' = [job EXCEPT ![w] = NoJob]
Commit(w, d) == dir' = d /\ visit' = Seen(d) /\ Done(w)

InTransaction == {"txn", "end", "users", "groups"}
Locked == \E v \in Workers : job[v].pc \in InTransaction

-----------------------------------------------------------------------------
\* One operation, on its own or in a bulk.

Op(w) == job[w].request.ops[job[w].at]
Found(d, op) == op.method = "POST" \/ op.id \in (IF op.on = "user" THEN Present(d) ELSE Exists(d))

\* The row it starts from.  A group's row is its role; a DELETE needs the id only.
New == [name |-> Unset, role |-> NoRole, status |-> "active"]
Existing(d, op) ==
    IF op.method = "POST" THEN New
    ELSE IF op.method = "DELETE" THEN Gone
    ELSE IF op.on = "user" THEN d.users[op.id] ELSE [New EXCEPT !.role = d.groups[op.id]]

Given(value, default) == IF value = Unset THEN default ELSE value

ActiveByDefault(op, row) ==
    [name |-> Given(op.name, row.name), role |-> Given(op.role, row.role),
     status |-> Given(op.status, "active")]
\* parse_scim_user_payload: a role that is removed or not known is kept, too.
Completed(op, row) ==
    [name |-> Given(op.name, row.name), role |-> Given(op.role, row.role),
     status |-> Given(op.status, row.status)]

Result(d, error) == [view |-> d, error |-> error]

Taken(d, u, name) == \E v \in Users \ {u} : d.users[v].name = name

\* "broken" is an IntegrityError, which the bulk request does not catch.
PutUser(d, u, row) ==
    IF Taken(d, u, row.name) THEN Result(d, "broken")
    ELSE Result([d EXCEPT !.users[u] = row], "none")

NoCascade(d, g) == [d EXCEPT !.groups[g] = NoGroup]
WithoutGroup(d, g) ==
    [d EXCEPT !.groups[g] = NoGroup, !.members = {m \in d.members : m[1] # g}]

Joined(d, g, members) == {m \in d.members : m[1] # g} \cup ({g} \X members)

\* A group is written before its members are looked up.
PutGroup(d, g, role, replaces, members) ==
    LET written == [d EXCEPT !.groups[g] = role]
    IN IF ~replaces THEN Result(written, "none")
       ELSE IF members \subseteq Present(d)
            THEN Result([written EXCEPT !.members = Joined(d, g, members)], "none")
            ELSE Result(written, "unknown")

Apply(d, row, op) ==
    IF op.on = "user"
    THEN IF op.method = "DELETE" THEN Result([d EXCEPT !.users[op.id].status = "inactive"], "none")
         ELSE PutUser(d, op.id, Completed(op, row))
    ELSE IF op.method = "DELETE" THEN Result(WithoutGroup(d, op.id), "none")
         ELSE PutGroup(d, op.id, Given(op.role, row.role), op.replaces, op.members)

-----------------------------------------------------------------------------
\* SCIM requests.  An error of SQLite, a lock held too long, a crash: Fail.

Receive(w, r) ==
    /\ job[w].pc = "idle"
    /\ r.mode = "atomic" => ~Locked
    /\ job' = [job EXCEPT ![w] =
                  IF r.mode = "atomic" THEN [NoJob EXCEPT !.pc = "txn", !.request = r, !.view = dir]
                  ELSE [NoJob EXCEPT !.pc = "read", !.request = r]]
    /\ UNCHANGED <<dir, visit>>

\* An operation failed: the request goes on, or it stops.
Stops(w, failed) ==
    \/ job[w].request.mode # "loose"
    \/ failed >= job[w].request.limit
Last(w) == job[w].at = Len(job[w].request.ops)

Read(w) ==
    LET found == Found(dir, Op(w))
        failed == job[w].failed + 1
    IN /\ job[w].pc = "read"
       /\ \/ /\ found
             /\ job' = [job EXCEPT ![w].pc = "write", ![w].row = Existing(dir, Op(w))]
          \/ /\ ~found /\ ~Last(w) /\ ~Stops(w, failed)
             /\ job' = [job EXCEPT ![w].at = job[w].at + 1, ![w].failed = failed]
          \/ /\ ~found /\ (Last(w) \/ Stops(w, failed))
             /\ Done(w)
       /\ UNCHANGED <<dir, visit>>

\* What an operation's outcome means for the request.
Proceed(w, result, stale) ==
    LET failed == IF result.error = "none" THEN job[w].failed ELSE job[w].failed + 1
        stop == result.error # "none" /\ Stops(w, failed)
    IN \/ /\ result.error = "broken"
          /\ Done(w)
       \/ /\ result.error # "broken"
          /\ job' = [job EXCEPT ![w].view = result.view, ![w].failed = failed, ![w].row = Gone,
                                ![w].stale = stale,
                                ![w].pc = IF stop \/ Last(w) THEN "end" ELSE "txn",
                                ![w].at = IF stop \/ Last(w) THEN job[w].at ELSE job[w].at + 1]

Write(w) ==
    /\ job[w].pc = "write"
    /\ ~Locked
    /\ Proceed(w, Apply(dir, job[w].row, Op(w)),
               job[w].row # Existing(dir, Op(w)))
    /\ UNCHANGED <<dir, visit>>

Continue(w) ==
    LET view == job[w].view
    IN /\ job[w].pc = "txn"
       /\ Proceed(w, IF Found(view, Op(w)) THEN Apply(view, Existing(view, Op(w)), Op(w))
                     ELSE Result(view, "unknown"), job[w].stale)
       /\ UNCHANGED <<dir, visit>>

KeptWhenFailed(w) == TRUE
\* A bulk that is not atomic keeps what it wrote, also by the failed operations.
Keeps(w) == job[w].failed = 0 \/ job[w].request.mode = "loose"

End(w) ==
    /\ job[w].pc = "end"
    /\ Commit(w, IF Keeps(w) THEN job[w].view ELSE dir)

-----------------------------------------------------------------------------
\* scripts/sync_directory.py, with deactivate_missing and delete_missing_groups.

SyncRead(w, s) ==
    /\ job[w].pc = "idle"
    /\ job' = [job EXCEPT ![w] = [NoJob EXCEPT !.pc = "sync", !.source = s,
                                                !.known = Present(dir) \cup Exists(dir)]]
    /\ UNCHANGED <<dir, visit>>

SyncBegin(w) ==
    /\ job[w].pc = "sync"
    /\ ~Locked
    /\ job' = [job EXCEPT ![w].pc = "users", ![w].view = dir,
                          ![w].todo = Present(job[w].source)]
    /\ UNCHANGED <<dir, visit>>

\* Users are written one after the other; an error ends the script.
SyncUser(w, u) ==
    LET result == PutUser(job[w].view, u, job[w].source.users[u])
    IN /\ job[w].pc = "users" /\ u \in job[w].todo
       /\ IF result.error = "none"
          THEN job' = [job EXCEPT ![w].view = result.view, ![w].todo = job[w].todo \ {u}]
          ELSE Done(w)
       /\ UNCHANGED <<dir, visit>>

SyncUsersDone(w) ==
    /\ job[w].pc = "users" /\ job[w].todo = {}
    /\ job' = [job EXCEPT ![w].pc = "groups", ![w].todo = Exists(job[w].source)]
    /\ UNCHANGED <<dir, visit>>

MembersIn(d, g) == {u \in Users : <<g, u>> \in d.members}

SyncGroup(w, g) ==
    LET source == job[w].source
        result == PutGroup(job[w].view, g, source.groups[g], TRUE, MembersIn(source, g))
    IN /\ job[w].pc = "groups" /\ g \in job[w].todo
       /\ IF result.error = "none"
          THEN job' = [job EXCEPT ![w].view = result.view, ![w].todo = job[w].todo \ {g}]
          ELSE Done(w)
       /\ UNCHANGED <<dir, visit>>

\* What the directory had when the script began to read and the snapshot lacks.
KeptAll(w) == {}
AbsentUsers(w) ==
    IF "users" \in Missing THEN (job[w].known \cap Users) \ Present(job[w].source) ELSE {}
AbsentGroups(w) ==
    IF "groups" \in Missing THEN (job[w].known \cap Groups) \ Exists(job[w].source) ELSE {}

Deactivated(rows, gone) ==
    [u \in Users |-> IF u \in gone THEN [rows[u] EXCEPT !.status = "inactive"] ELSE rows[u]]

Purged(w) ==
    LET view == job[w].view
    IN [users |-> Deactivated(view.users, AbsentUsers(w)),
        groups |-> [g \in Groups |-> IF g \in AbsentGroups(w) THEN NoGroup ELSE view.groups[g]],
        members |-> {m \in view.members : m[1] \notin AbsentGroups(w)}]

SyncEnd(w) ==
    /\ job[w].pc = "groups" /\ job[w].todo = {}
    /\ Commit(w, Purged(w))

Fail(w) ==
    /\ job[w].pc # "idle"
    /\ Done(w)
    /\ UNCHANGED <<dir, visit>>

-----------------------------------------------------------------------------
\* access_context, with RD_KG_DIRECTORY_REQUIRED: two reads, two moments.

ReadUser(c, u) ==
    /\ visit[c].pc = "idle"
    /\ dir.users[u].status = "active"
    /\ visit' = [visit EXCEPT ![c] = [pc |-> "groups", user |-> u, own |-> dir.users[u].role,
                                      role |-> NoRole, high |-> Granted(dir, u),
                                      unset |-> Granted(dir, u) = NoRole]]
    /\ UNCHANGED <<dir, job>>

TokenRoleToo(own, groupRoles) == Highest({own, TokenRole} \cup groupRoles)
RoleOf(own, groupRoles) == Given(Highest({own} \cup groupRoles), TokenRole)

ReadGroups(c) ==
    /\ visit[c].pc = "groups"
    /\ visit' = [visit EXCEPT ![c].pc = "admitted",
                              ![c].role = RoleOf(visit[c].own, GroupRoles(dir, visit[c].user))]
    /\ UNCHANGED <<dir, job>>

Leave(c) ==
    /\ visit[c].pc # "idle"
    /\ visit' = [visit EXCEPT ![c] = NoVisit]
    /\ UNCHANGED <<dir, job>>

-----------------------------------------------------------------------------
Init ==
    /\ dir = Nobody
    /\ job = [w \in Workers |-> NoJob]
    /\ visit = [c \in Callers |-> NoVisit]

Scim(w) ==
    \/ \E r \in Requests : Receive(w, r)
    \/ Read(w) \/ Write(w) \/ Continue(w) \/ End(w)

Sync(w) ==
    \/ \E s \in Snapshots : SyncRead(w, s)
    \/ SyncBegin(w) \/ SyncUsersDone(w) \/ SyncEnd(w)
    \/ \E u \in Users : SyncUser(w, u)
    \/ \E g \in Groups : SyncGroup(w, g)

Serve(c) == (\E u \in Users : ReadUser(c, u)) \/ ReadGroups(c) \/ Leave(c)

Next ==
    \/ \E w \in Workers : Scim(w) \/ Sync(w) \/ Fail(w)
    \/ \E c \in Callers : Serve(c)

Spec == Init /\ [][Next]_vars

-----------------------------------------------------------------------------
Pcs == {"idle", "read", "write", "sync"} \cup InTransaction

\* Types, and what the tables declare: names are UNIQUE, memberships refer to
\* rows; one transaction writes at a time.
TypeOK ==
    /\ dir \in Directories
    /\ \A m \in dir.members : m[1] \in Exists(dir) /\ m[2] \in Present(dir)
    /\ \A u, v \in Present(dir) : dir.users[u].name = dir.users[v].name => u = v
    /\ \A w \in Workers :
        /\ job[w].pc \in Pcs
        /\ job[w].request \in Requests \cup {NoRequest}
        /\ job[w].at \in Nat /\ job[w].failed \in Nat
        /\ job[w].row \in UserRows \cup {Gone} \cup [name : {Unset}, role : Grants, status : {"active"}]
        /\ {job[w].view, job[w].source} \subseteq Directories
        /\ job[w].known \cup job[w].todo \subseteq Users \cup Groups
    /\ \A c \in Callers : visit[c].pc \in {"idle", "groups", "admitted"}

\* A step commits what w did.
Commits(w) == job[w].pc \in InTransaction /\ job'[w].pc = "idle" /\ dir' # dir
Ops(w) == {job[w].request.ops[i] : i \in DOMAIN job[w].request.ops}
Syncs(w) == Ops(w) = {}

Effected(d, op) ==
    IF op.on = "user"
    THEN IF op.method = "DELETE" THEN d.users[op.id].status = "inactive"
         ELSE /\ d.users[op.id].status = Given(op.status, d.users[op.id].status)
              /\ d.users[op.id].role = Given(op.role, d.users[op.id].role)
              /\ d.users[op.id].name = Given(op.name, d.users[op.id].name)
    ELSE /\ (op.method = "DELETE") = (op.id \notin Exists(d))
         /\ op.replaces /\ op.method # "DELETE" => MembersIn(d, op.id) = op.members

\* A single request or an atomic bulk that changes the directory has done all
\* of its operations, of two on one row the later; otherwise it has done none.
AllDone(w) ==
    LET ops == job[w].request.ops
    IN \A i \in DOMAIN ops :
           \/ \E k \in DOMAIN ops : k > i /\ ops[k].on = ops[i].on /\ ops[k].id = ops[i].id
           \/ Effected(dir', ops[i])

AllOrNothing ==
    [][\A w \in Workers :
          Commits(w) /\ ~Syncs(w) /\ job[w].request.mode # "loose" => AllDone(w)]_vars

\* A request changes a field of a user only if its payload says so: whoever is
\* deactivated stays so.  The exceptions are a synchronisation, and a request
\* whose row was changed by another one between its read and its write.
Asked(op, u, field) ==
    /\ op.on = "user" /\ op.id = u
    /\ \/ op.method = "POST"
       \/ op.method = "DELETE" /\ field = "status"
       \/ op[field] # Unset

Changed(u, field, w) ==
    Commits(w) /\ (Syncs(w) \/ job[w].stale \/ \E op \in Ops(w) : Asked(op, u, field))

FieldsHold ==
    [][\A u \in Present(dir), field \in {"name", "role", "status"} :
          dir'.users[u][field] # dir.users[u][field]
          => \E w \in Workers : Changed(u, field, w)]_vars

\* After a synchronisation the directory is the snapshot, but for what others
\* added since the script read its list: nobody the snapshot lacks is active, and
\* no other group is left, where the script was told to see to it.
Agrees(source, known) ==
    /\ \A u \in Present(source) : dir'.users[u] = source.users[u]
    /\ \A g \in Exists(source) : MembersIn(dir', g) = MembersIn(source, g)
    /\ "users" \in Missing =>
         \A u \in Users \ Present(source) : dir'.users[u].status = "active" => u \notin known
    /\ "groups" \in Missing => \A g \in Exists(dir') \ Exists(source) : g \notin known

SyncAgrees ==
    [][\A w \in Workers : Commits(w) /\ Syncs(w) => Agrees(job[w].source, job[w].known)]_vars

\* A token's role never raises the one the directory grants: unless the user has
\* no role of its own, a request gets a role that the directory granted at some
\* moment while it read, or a lower one.
RoleBounded ==
    \A c \in Callers :
        visit[c].pc = "admitted" /\ visit[c].own # NoRole
        => Rank(visit[c].role) <= Rank(visit[c].high)

-----------------------------------------------------------------------------
\* README.md:371: the role of the directory is authoritative once it is set.
\* While the directory grants a role at every moment, no request gets a higher one.
RoleAuthoritative ==
    \A c \in Callers :
        visit[c].pc = "admitted" /\ ~visit[c].unset => Rank(visit[c].role) <= Rank(visit[c].high)
=============================================================================
