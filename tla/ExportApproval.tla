--------------------------- MODULE ExportApproval ---------------------------
(***************************************************************************)
(* The approval flow for sensitive exports: app/main.py's export and       *)
(* approval endpoints over app/db.py's export_approvals table.             *)
(*                                                                         *)
(* Endpoints are synchronous, so the server runs each request on a thread  *)
(* of its pool with its own SQLite connection.  A SELECT before the first  *)
(* write of a request runs in autocommit mode: what it returned may be     *)
(* out of date when the request writes.  From its first write on, a        *)
(* request holds the database's write lock, so its writes up to the next   *)
(* commit are one step here.  A request is therefore a few steps of a      *)
(* worker, and job[w] holds what it has read so far.                       *)
(*                                                                         *)
(* The definitions VerdictIsPath, CloseAuditLost, AvailableUnreviewed,     *)
(* AvailableWhileApproved and MatchesTarget are slips the properties must  *)
(* catch, each written before the definition it would replace.             *)
(***************************************************************************)
EXTENDS AccessRoles, FiniteSets

CONSTANTS
    Workers,    \* threads of the pool, each serving one request at a time
    Approvals,  \* ids of export_approvals rows; AUTOINCREMENT never reuses one
    Targets,    \* what is exported: endpoint, format and query (or the graph)
    Items,      \* pieces of data that queries return
    Requesters, \* the roles that requests come with
    ItemLabel,  \* the confidentiality of the item's source, or "unsourced"
    ItemDlp,    \* [Items -> DlpFindings], what the DLP rules find in the item
    NoApproval, NoTarget

\* A rule of action "flag" reports and has no effect on the decision.
DlpFindings ==
    [action : {"none", "flag"}, classification : {"public"}]
        \cup [action : {"approval_required", "block"}, classification : Levels]

ASSUME ConstantsAssumption ==
    /\ IsFiniteSet(Workers)
    /\ Requesters \subseteq Roles
    /\ ItemLabel \in [Items -> Labels \cup {"unsourced"}]
    /\ ItemDlp \in [Items -> DlpFindings]
    /\ NoApproval \notin Approvals
    /\ NoTarget \notin Targets

VARIABLES
    approvals,  \* the committed export_approvals rows
    audit,      \* the number of committed audit_log rows per event and approval
    job,        \* the request each worker is serving
    delivered,  \* ghost: exports the policy alone refuses that were sent out
    refused     \* ghost: some export was answered 403

vars == <<approvals, audit, job, delivered, refused>>

Statuses == {"absent", "pending", "approved", "rejected", "expired", "used"}
Payloads == SUBSET Items
Rows == [status   : Statuses,
         target   : Targets \cup {NoTarget},
         payload  : Payloads,
         expires  : {"ahead", "past"},
         consumed : BOOLEAN]
Absent == [status |-> "absent", target |-> NoTarget, payload |-> {},
           expires |-> "ahead", consumed |-> FALSE]

Events == {"request", "approve", "reject", "consume", "export", "refuse"}
Ids == Approvals \cup {NoApproval}

PCs == {"idle",     \* no request
        "request",  \* request_export_approval: payload evaluated
        "approve",  \* review_export_approval: row read, it was pending
        "reject",
        "check",    \* audit_export_decision: policy refuses, row not read yet
        "consume",  \* consume_export_approval: row read and accepted
        "export",   \* approval consumed, export not audited yet
        "respond"}  \* committed; the response is still to be produced
Jobs == [pc : PCs, target : Targets \cup {NoTarget}, payload : Payloads,
         approval : Ids]
NoJob == [pc |-> "idle", target |-> NoTarget, payload |-> {},
          approval |-> NoApproval]

-----------------------------------------------------------------------------
\* evaluate_export_policy on a payload: the labels of its sources, raised by
\* the classification of every DLP finding that is more than a flag.

\* What a query returns to this role of what it finds.  A graph edge without a
\* source is open to everyone and has no classification of its own.
Visible(found, role) ==
    {i \in found :
        ItemLabel[i] \in sql_confidentiality_clause(role) \cup {"unsourced"}}

Findings(payload, actions) == {i \in payload : ItemDlp[i].action \in actions}

Classifications(payload) ==
    ({ItemLabel[i] : i \in payload} \cap Levels)
        \cup {ItemDlp[i].classification :
                 i \in Findings(payload, {"approval_required", "block"})}

Blocked(payload) == Findings(payload, {"block"}) # {}

Allowed(payload, role) ==
    /\ can_export_confidentiality(MaxLevel(Classifications(payload)), role)
    /\ ~Blocked(payload)

-----------------------------------------------------------------------------
Idle(w) == job[w].pc = "idle"

Serve(w, pc, target, payload, approval) ==
    job' = [job EXCEPT ![w] = [pc |-> pc, target |-> target, payload |-> payload,
                               approval |-> approval]]

Advance(w, pc) == job' = [job EXCEPT ![w].pc = pc]

Finish(w) == job' = [job EXCEPT ![w] = NoJob]

Logged(event, a) == [audit EXCEPT ![event][a] = @ + 1]

\* connect() commits when its block ends normally; when the block raises, the
\* connection is closed without a commit and what was written is lost.
CloseAuditLost(raised, rows, log) ==
    /\ approvals' = IF raised THEN approvals ELSE rows
    /\ audit' = audit
CloseConnection(raised, rows, log) ==
    /\ approvals' = IF raised THEN approvals ELSE rows
    /\ audit' = IF raised THEN audit ELSE log

\* An export answered 403: audit_export_decision inserts its audit row and then
\* raises inside the block, taking with it whatever the request had written.
Refuse(w, a, rows) ==
    /\ CloseConnection(TRUE, rows, Logged("refuse", a))
    /\ refused' = TRUE
    /\ Finish(w)
    /\ UNCHANGED delivered

-----------------------------------------------------------------------------
\* request_export_approval.  A request for an export the policy allows is
\* answered "not required" and leaves no row, so it is not an action here.

RequestRead(w, role, t, found) ==
    /\ Idle(w)
    /\ role \in ActionRoles.request
    /\ ~Allowed(Visible(found, role), role)
    /\ ~Blocked(Visible(found, role))
    /\ Serve(w, "request", t, Visible(found, role), NoApproval)
    /\ UNCHANGED <<approvals, audit, delivered, refused>>

RequestBlocked(w, role, t, found) ==
    /\ Idle(w)
    /\ role \in ActionRoles.request
    /\ Blocked(Visible(found, role))
    /\ Refuse(w, NoApproval, approvals)

\* expires_at comes with the request and is not validated; a row without one
\* has a deadline that stays ahead.
RequestCommit(w) ==
    /\ job[w].pc = "request"
    /\ \E a \in Approvals, expires \in {"ahead", "past"} :
        /\ approvals[a].status = "absent"
        /\ CloseConnection(FALSE,
               [approvals EXCEPT ![a] = [status   |-> "pending",
                                         target   |-> job[w].target,
                                         payload  |-> job[w].payload,
                                         expires  |-> expires,
                                         consumed |-> FALSE]],
               Logged("request", a))
    /\ Finish(w)
    /\ UNCHANGED <<delivered, refused>>

\* review_export_approval: the status is read in autocommit mode ...
ReviewRead(w, role, a, verdict) ==
    /\ Idle(w)
    /\ role \in ActionRoles.review
    /\ approvals[a].status = "pending"
    /\ Serve(w, verdict, NoTarget, {}, a)
    /\ UNCHANGED <<approvals, audit, delivered, refused>>

\* ... and written without looking at it again.
VerdictIsPath(pc) == pc
Verdict(pc) == IF pc = "approve" THEN "approved" ELSE "rejected"

ReviewCommit(w) ==
    /\ job[w].pc \in {"approve", "reject"}
    /\ LET a == job[w].approval
       IN \E expires \in {"ahead", "past"} :
            CloseConnection(FALSE,
                [approvals EXCEPT ![a] = [@ EXCEPT !.status = Verdict(job[w].pc),
                                                     !.expires = expires]],
                Logged(job[w].pc, a))
    /\ Finish(w)
    /\ UNCHANGED <<delivered, refused>>

-----------------------------------------------------------------------------
\* The export endpoints.  An export the policy allows needs no approval and
\* touches none, so only refused ones appear here.  Ingest, curation and rebuild
\* change the data at any time, so what the query finds is any set of items.

ExportRead(w, role, t, a, found) ==
    /\ Idle(w)
    /\ ~Allowed(Visible(found, role), role)
    /\ a # NoApproval
    /\ ~Blocked(Visible(found, role))
    /\ Serve(w, "check", t, Visible(found, role), a)
    /\ UNCHANGED <<approvals, audit, delivered, refused>>

ExportRefused(w, role, t, a, found) ==
    /\ Idle(w)
    /\ ~Allowed(Visible(found, role), role)
    /\ a = NoApproval \/ Blocked(Visible(found, role))
    /\ Refuse(w, a, approvals)

AvailableUnreviewed(a) == ~approvals[a].consumed
AvailableWhileApproved(a) == approvals[a].status = "approved"
Available(a) == approvals[a].status = "approved" /\ ~approvals[a].consumed
Expired(a) == approvals[a].expires = "past"
MatchesTarget(a, target, payload) == approvals[a].target = target
Matches(a, target, payload) ==
    approvals[a].target = target /\ approvals[a].payload = payload

\* consume_export_approval up to its first write.
CheckApproval(w) ==
    /\ job[w].pc = "check"
    /\ LET a == job[w].approval
       IN /\ Available(a)
          /\ ~Expired(a)
          /\ Matches(a, job[w].target, job[w].payload)
    /\ Advance(w, "consume")
    /\ UNCHANGED <<approvals, audit, delivered, refused>>

\* Unknown, unavailable or for another payload; or expired, which is written
\* to the row before the request is refused.
ApprovalUnusable(w) ==
    /\ job[w].pc = "check"
    /\ LET a == job[w].approval
       IN \/ /\ ~Available(a)
             /\ Refuse(w, a, approvals)
          \/ /\ Available(a)
             /\ Expired(a)
             /\ Refuse(w, a, [approvals EXCEPT ![a].status = "expired"])
          \/ /\ Available(a)
             /\ ~Expired(a)
             /\ ~Matches(a, job[w].target, job[w].payload)
             /\ Refuse(w, a, approvals)

\* The row is updated by id only.  get_export_approval, which ends
\* consume_export_approval, runs a script and so commits the consumption.
ConsumeCommit(w) ==
    /\ job[w].pc = "consume"
    /\ LET a == job[w].approval
       IN /\ approvals' = [approvals EXCEPT ![a] = [@ EXCEPT !.status = "used",
                                                             !.consumed = TRUE]]
          /\ audit' = Logged("consume", a)
    /\ Advance(w, "export")
    /\ UNCHANGED <<delivered, refused>>

ExportCommit(w) ==
    /\ job[w].pc = "export"
    /\ CloseConnection(FALSE, approvals, Logged("export", job[w].approval))
    /\ Advance(w, "respond")
    /\ UNCHANGED <<delivered, refused>>

Respond(w) ==
    /\ job[w].pc = "respond"
    /\ delivered' = delivered \cup
            {[approval |-> job[w].approval, target |-> job[w].target,
              payload |-> job[w].payload]}
    /\ Finish(w)
    /\ UNCHANGED <<approvals, audit, refused>>

\* A request dies between two steps: the process stops, the database stays
\* locked past the timeout, producing the response raises.
Fail(w) ==
    /\ ~Idle(w)
    /\ Finish(w)
    /\ UNCHANGED <<approvals, audit, delivered, refused>>

PassDeadline(a) ==
    /\ approvals[a].expires = "ahead"
    /\ approvals' = [approvals EXCEPT ![a].expires = "past"]
    /\ UNCHANGED <<audit, job, delivered, refused>>

Init ==
    /\ approvals = [a \in Approvals |-> Absent]
    /\ audit = [e \in Events |-> [a \in Ids |-> 0]]
    /\ job = [w \in Workers |-> NoJob]
    /\ delivered = {}
    /\ refused = FALSE

Step(w) ==
    \/ \E role \in Requesters, t \in Targets, found \in Payloads :
        RequestRead(w, role, t, found) \/ RequestBlocked(w, role, t, found)
    \/ RequestCommit(w)
    \/ \E role \in Requesters, a \in Approvals, verdict \in {"approve", "reject"} :
        ReviewRead(w, role, a, verdict)
    \/ ReviewCommit(w)
    \/ \E role \in Requesters, t \in Targets, found \in Payloads, a \in Ids :
        ExportRead(w, role, t, a, found) \/ ExportRefused(w, role, t, a, found)
    \/ CheckApproval(w)
    \/ ApprovalUnusable(w)
    \/ ConsumeCommit(w)
    \/ ExportCommit(w)
    \/ Respond(w)
    \/ Fail(w)

Next ==
    \/ \E w \in Workers : Step(w)
    \/ \E a \in Approvals : PassDeadline(a)

Spec == Init /\ [][Next]_vars
-----------------------------------------------------------------------------
TypeOK ==
    /\ approvals \in [Approvals -> Rows]
    /\ audit \in [Events -> [Ids -> Nat]]
    /\ job \in [Workers -> Jobs]
    /\ delivered \subseteq [approval : Ids, target : Targets \cup {NoTarget},
                            payload : Payloads]
    /\ refused \in BOOLEAN

\* An export that the policy refuses leaves the system only under an approval
\* that an admin granted for exactly this target and this payload, and never
\* with content a DLP rule blocks: not when the data changed between the
\* request and the export, nor when reviewers and exporters overlap
\* (audit_export_decision, consume_export_approval).
DeliveredAsApproved ==
    \A d \in delivered :
        /\ d.approval \in Approvals
        /\ audit["approve"][d.approval] > 0
        /\ approvals[d.approval].target = d.target
        /\ approvals[d.approval].payload = d.payload
        /\ ~Blocked(d.payload)

\* Every export sent out under an approval has left its trail: the request, the
\* approval, the consumption and the export are committed audit rows, and no
\* approval has more exports than consumptions, whatever step a crash hits.
EveryStepLogged ==
    \A d \in delivered, e \in {"request", "approve", "consume", "export"} :
        audit[e][d.approval] > 0
TrailComplete ==
    /\ EveryStepLogged
    /\ \A a \in Approvals : audit["export"][a] <= audit["consume"][a]

\* Workers that have accepted the approval and will mark it used.
Consuming(a) == {w \in Workers : job[w].pc = "consume" /\ job[w].approval = a}

\* The check is not repeated when the approval is marked used, so requests that
\* overlap may each use it; but once it is marked, no further request gets in,
\* also when a late reviewer writes "approved" over "used".  An approval is thus
\* used at most once per thread of the pool.
UseBounded ==
    \A a \in Approvals :
        /\ audit["consume"][a] <= Cardinality(Workers)
        /\ approvals[a].consumed =>
            audit["consume"][a] + Cardinality(Consuming(a)) <= Cardinality(Workers)

\* An approval that was rejected or used, with no reviewer and no exporter of it
\* between reading the row and writing it, stays so: no later request, review,
\* deadline or crash makes it usable again.
Settled(a) ==
    /\ approvals[a].status = "rejected" \/ approvals[a].consumed
    /\ \A w \in Workers : job[w].approval = a => job[w].pc \notin {"approve", "consume"}
SettledStays ==
    [][\A a \in Approvals : Settled(a) =>
            Settled(a)' /\ audit'["consume"][a] = audit["consume"][a]]_vars

\* The flow implements ApprovalLedger with one use per thread of the pool; with
\* a single thread that is the one-time approval of README.md.
Ledger == INSTANCE ApprovalLedger WITH
    Scopes  <- Targets \X Payloads,
    NoScope <- <<NoTarget, {}>>,
    MaxUses <- Cardinality(Workers),
    scope   <- [a \in Approvals |-> <<approvals[a].target, approvals[a].payload>>],
    granted <- {a \in Approvals : audit["approve"][a] > 0},
    uses    <- [a \in Approvals |-> audit["consume"][a]],
    exports <- [a \in Approvals |-> audit["export"][a]]
ImplementsLedger == Ledger!Spec

-----------------------------------------------------------------------------
\* The inductive invariant: what holds of each row, and what a worker that is
\* past a check may still rely on when it writes.

RowConsistent(a) ==
    /\ approvals[a].status = "absent" <=> approvals[a].target = NoTarget
    /\ approvals[a].status = "absent" =>
        /\ approvals[a].payload = {}
        /\ audit["approve"][a] = 0
    /\ approvals[a].status \in {"absent", "pending"} => ~approvals[a].consumed
    /\ approvals[a].status # "absent" => audit["request"][a] > 0
    /\ approvals[a].status = "approved" => audit["approve"][a] > 0
    /\ ~approvals[a].consumed => audit["consume"][a] = 0

JobConsistent(w) ==
    LET pc == job[w].pc
        a == job[w].approval
    IN /\ pc \in {"request", "check", "consume", "export", "respond"} =>
            job[w].target \in Targets /\ ~Blocked(job[w].payload)
       /\ pc \in {"approve", "reject"} =>
            a \in Approvals /\ approvals[a].status # "absent"
       /\ pc = "check" => a \in Approvals
       /\ pc \in {"consume", "export", "respond"} =>
            /\ a \in Approvals
            /\ audit["request"][a] > 0
            /\ audit["approve"][a] > 0
            /\ Matches(a, job[w].target, job[w].payload)
       /\ pc \in {"export", "respond"} => audit["consume"][a] > 0
       /\ pc = "respond" => audit["export"][a] > 0

\* Workers that have used the approval and will log their export.
Exporting(a) == {w \in Workers : job[w].pc = "export" /\ job[w].approval = a}

ExportsCovered ==
    \A a \in Approvals :
        audit["export"][a] + Cardinality(Exporting(a)) <= audit["consume"][a]

IInv ==
    /\ TypeOK
    /\ \A a \in Approvals : RowConsistent(a)
    /\ \A w \in Workers : JobConsistent(w)
    /\ DeliveredAsApproved
    /\ EveryStepLogged

-----------------------------------------------------------------------------
\* README.md calls the approval one-time: it lets one export through.
OneTime == \A a \in Approvals : audit["consume"][a] <= 1

\* README.md says that a refused export is written to the audit log.
RefusalAudited == refused => \E a \in Ids : audit["refuse"][a] > 0
=============================================================================
