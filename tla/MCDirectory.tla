---------------------------- MODULE MCDirectory ----------------------------
(***************************************************************************)
(* Small instances of Directory.                                           *)
(***************************************************************************)
EXTENDS Directory, TLC

CONSTANTS w1, w2, c1, ann, bob, annie, bobby, staff

OnUser(method, id, name, role, status) ==
    [method |-> method, on |-> "user", id |-> id, name |-> name, role |-> role, status |-> status,
     replaces |-> FALSE, members |-> {}]
OnGroup(method, id, role, replaces, members) ==
    [method |-> method, on |-> "group", id |-> id, name |-> Unset, role |-> role, status |-> Unset,
     replaces |-> replaces, members |-> members]
Bulk(mode, ops) == [mode |-> mode, limit |-> 2, ops |-> ops]

AddAnn == OnUser("POST", ann, annie, NoRole, Unset)
AddBob == OnUser("POST", bob, bobby, NoRole, Unset)
Promote == OnUser("PATCH", ann, Unset, "researcher", Unset)
Remove == OnUser("DELETE", ann, Unset, NoRole, Unset)
Employ == OnGroup("POST", staff, "researcher", TRUE, {ann})
Enlist == OnGroup("PUT", staff, NoRole, TRUE, {ann, bob})
Close == OnGroup("DELETE", staff, NoRole, FALSE, {})

SomeRequests ==
    {Bulk("single", <<op>>) : op \in {AddAnn, Promote, Remove, Employ, Close}}
    \cup {Bulk("atomic", <<Promote, Enlist>>), Bulk("loose", <<Enlist, AddBob>>)}

\* The name of a user now belongs to another one.
Renamed ==
    {[users |-> [u \in Users |-> IF u = bob THEN [name |-> annie, role |-> "analyst", status |-> "active"]
                                 ELSE Gone],
      groups |-> [g \in Groups |-> NoGroup], members |-> {}]}
Hired ==
    {[users |-> [u \in Users |-> IF u = bob THEN [name |-> bobby, role |-> "analyst", status |-> "active"]
                                 ELSE Gone],
      groups |-> [g \in Groups |-> NoRole], members |-> Groups \X {bob}]}
\* What a synchronisation may find.
Rosters == Hired \cup Renamed
Workforce == Permutations(Workers)
=============================================================================
