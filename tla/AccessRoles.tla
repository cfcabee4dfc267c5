---------------------------- MODULE AccessRoles ----------------------------
(***************************************************************************)
(* Who may view and who may export data of a given confidentiality: the    *)
(* pure part of app/security.py, with the role tables of app/config.py.    *)
(* A confidentiality label that no table knows falls back to "researcher", *)
(* for viewing and for exporting alike.                                    *)
(***************************************************************************)
EXTENDS Integers

Roles == {"external_partner", "researcher", "analyst", "manager", "admin"}

ROLE_ORDER == [external_partner |-> 0, researcher |-> 1, analyst |-> 2,
               manager |-> 3, admin |-> 4]

CONFIDENTIALITY_ORDER ==
    [public |-> 0, internal |-> 1, confidential |-> 2, secret |-> 3]

CONFIDENTIALITY_MIN_ROLE ==
    [public |-> "external_partner", internal |-> "researcher",
     confidential |-> "analyst", secret |-> "manager"]

EXPORT_MIN_ROLE ==
    [public |-> "external_partner", internal |-> "researcher",
     confidential |-> "analyst", secret |-> "admin"]

Levels == {"public", "internal", "confidential", "secret"}

\* What a source's confidentiality column may hold: the column is free text,
\* so a label outside the four levels is possible.
Labels == Levels \cup {"unlisted"}

ViewMinRole(label) ==
    IF label \in Levels THEN CONFIDENTIALITY_MIN_ROLE[label] ELSE "researcher"

can_access(label, role) == ROLE_ORDER[role] >= ROLE_ORDER[ViewMinRole(label)]

\* The labels a query for this role selects: the SQL clause lists the known
\* levels only, so data with an unlisted label is never part of a result.
sql_confidentiality_clause(role) == {label \in Levels : can_access(label, role)}

ExportMinRole(label) ==
    IF label \in Levels THEN EXPORT_MIN_ROLE[label] ELSE "researcher"

can_export_confidentiality(label, role) ==
    ROLE_ORDER[role] >= ROLE_ORDER[ExportMinRole(label)]

\* The labels found in a payload are ranked by this order; "public" when there
\* is none.
MaxLevel(levels) ==
    IF levels = {} THEN "public"
    ELSE CHOOSE l \in levels :
            \A k \in levels : CONFIDENTIALITY_ORDER[k] <= CONFIDENTIALITY_ORDER[l]

\* ACTION_POLICIES of app/policy.py: the roles an action is open to.
ActionRoles ==
    [request  |-> {"researcher", "analyst", "manager", "admin"},
     review   |-> {"admin"},
     curation |-> {"analyst", "admin"},
     rebuild  |-> {"admin"},
     upload   |-> {"analyst", "admin"},
     folder   |-> {"admin"},
     directory |-> {"admin"}]

=============================================================================
