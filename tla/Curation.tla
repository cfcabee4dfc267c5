------------------------------ MODULE Curation ------------------------------
(***************************************************************************)
(* Expert curation of extracted facts: the curation endpoints of           *)
(* app/main.py over the tables facts, fact_assignments and fact_disputes   *)
(* of app/db.py.                                                           *)
(*                                                                         *)
(* Each request is one transaction, which starts at its first write.       *)
(* Requests that decide nothing from what they read before that are one    *)
(* action.  Three of them do: releasing an assignment, escalating a        *)
(* dispute and superseding a fact read a row in autocommit mode and write  *)
(* by id afterwards.  They are two steps of a worker, and job[w] holds     *)
(* what was read.                                                          *)
(*                                                                         *)
(* StatusIsAction, AnyRow, NothingClosed, Reescalatable, AnyPair and       *)
(* SameVersion are slips the properties must catch, each written before    *)
(* the definition it would replace.                                        *)
(***************************************************************************)
EXTENDS Integers, FiniteSets

CONSTANTS
    Workers,      \* threads of the server's pool
    Facts,        \* rows of facts, inserted by ingest and never deleted
    Assignments,  \* ids of fact_assignments rows
    Disputes,     \* ids of fact_disputes rows
    NoFact,
    MaxVersion    \* bound: facts of this version are not superseded any more

ASSUME CurationAssumption ==
    /\ NoFact \notin Facts
    /\ MaxVersion \in Nat

VARIABLES
    fact,        \* the facts
    assignment,  \* who works on what: the fact_assignments rows
    dispute,     \* the fact_disputes rows
    superseded,  \* audit_log: the pairs (old, replacement) of fact_supersede rows
    completed,   \* ghost: assignments that a decision on their fact completed
    job          \* the two-step request each worker is serving

vars == <<fact, assignment, dispute, superseded, completed, job>>

FactStatuses == {"candidate", "verified", "rejected", "contradicted", "superseded"}

FactRows == [status : FactStatuses, supersedes : Facts \cup {NoFact}, version : Nat]

AssignmentRows == [fact   : Facts \cup {NoFact},
                   status : {"absent", "active", "released", "completed"}]

\* The column resolved_by is null until the dispute is resolved.
DisputeRows == [fact     : Facts \cup {NoFact},
                status   : {"absent", "open", "escalated", "resolved"},
                resolved : BOOLEAN]

Jobs == [pc : {"idle"}]
    \cup [pc : {"release"}, row : Assignments, others : SUBSET Facts]
    \cup [pc : {"escalate"}, dispute : Disputes]
    \cup [pc : {"supersede"}, old : Facts, new : Facts, version : Nat]

-----------------------------------------------------------------------------
Idle(w) == job[w].pc = "idle"
Serve(w, request) == job' = [job EXCEPT ![w] = request]
Finish(w) == job' = [job EXCEPT ![w] = [pc |-> "idle"]]

AnyRow(a) == assignment[a].status # "absent"
Active(a) == assignment[a].status = "active"

\* The assignments after those active for the facts are closed this way.
NothingClosed(facts, how) == assignment
Close(facts, how) ==
    [a \in Assignments |->
        IF Active(a) /\ assignment[a].fact \in facts
        THEN [fact |-> assignment[a].fact, status |-> how]
        ELSE assignment[a]]

Complete(facts) ==
    /\ assignment' = Close(facts, "completed")
    /\ completed' = completed
            \cup {a \in Assignments : Active(a) /\ assignment[a].fact \in facts}

-----------------------------------------------------------------------------
\* review_fact, and review_facts_bulk on several facts.  The action "comment"
\* only adds to the review log and is left out.

ReviewActions == {"verify", "reject", "mark_contradicted", "mark_superseded"}

StatusIsAction(action) == action
status_by_action(action) ==
    CASE action = "verify"            -> "verified"
      [] action = "reject"            -> "rejected"
      [] action = "mark_contradicted" -> "contradicted"
      [] action = "mark_superseded"   -> "superseded"

Review(facts, action) ==
    /\ fact' = [f \in Facts |->
                  IF f \in facts
                  THEN [fact[f] EXCEPT !.status = status_by_action(action)]
                  ELSE fact[f]]
    /\ Complete(facts)
    /\ UNCHANGED <<dispute, superseded, job>>

\* assign_facts: whoever works on a fact is released first.
Assign(facts) ==
    /\ \E row \in [facts -> {a \in Assignments : assignment[a].status = "absent"}] :
        /\ \A f, g \in facts : row[f] = row[g] => f = g
        /\ LET released == Close(facts, "released")
           IN assignment' = [a \in Assignments |->
                  IF \E f \in facts : row[f] = a
                  THEN [fact   |-> CHOOSE f \in facts : row[f] = a,
                        status |-> "active"]
                  ELSE released[a]]
    /\ UNCHANGED <<fact, dispute, superseded, completed, job>>

\* release_fact_assignments: the active row of the first fact is read in
\* autocommit mode; when one of the facts has none, nothing is released.
ReleaseRead(w, a, others) ==
    /\ Idle(w)
    /\ Active(a)
    /\ assignment[a].fact \notin others
    /\ Serve(w, [pc |-> "release", row |-> a, others |-> others])
    /\ UNCHANGED <<fact, assignment, dispute, superseded, completed>>

AllAssigned(facts) ==
    \A f \in facts : \E a \in Assignments : Active(a) /\ assignment[a].fact = f

\* The row is updated by id, whatever its status has become.
ReleaseCommit(w) ==
    /\ job[w].pc = "release"
    /\ AllAssigned(job[w].others)
    /\ assignment' = [Close(job[w].others, "released")
                        EXCEPT ![job[w].row] = [@ EXCEPT !.status = "released"]]
    /\ Finish(w)
    /\ UNCHANGED <<fact, dispute, superseded, completed>>

ReleaseRefused(w) ==
    /\ job[w].pc = "release"
    /\ ~AllAssigned(job[w].others)
    /\ Finish(w)
    /\ UNCHANGED <<fact, assignment, dispute, superseded, completed>>

-----------------------------------------------------------------------------
\* open_fact_dispute: the fact counts as contradicted from now on.
OpenDispute(f) ==
    /\ \E d \in Disputes :
        /\ dispute[d].status = "absent"
        /\ dispute' = [dispute EXCEPT ![d] =
                          [fact |-> f, status |-> "open", resolved |-> FALSE]]
    /\ fact' = [fact EXCEPT ![f].status = "contradicted"]
    /\ UNCHANGED <<assignment, superseded, completed, job>>

Reescalatable(d) == dispute[d].status # "absent"
Escalatable(d) == dispute[d].status \in {"open", "escalated"}

\* escalate_fact_dispute refuses a resolved dispute on what it has read ...
EscalateRead(w, d) ==
    /\ Idle(w)
    /\ Escalatable(d)
    /\ Serve(w, [pc |-> "escalate", dispute |-> d])
    /\ UNCHANGED <<fact, assignment, dispute, superseded, completed>>

\* ... and updates the row by id.
EscalateCommit(w) ==
    /\ job[w].pc = "escalate"
    /\ dispute' = [dispute EXCEPT ![job[w].dispute] = [@ EXCEPT !.status = "escalated"]]
    /\ Finish(w)
    /\ UNCHANGED <<fact, assignment, superseded, completed>>

\* resolve_fact_dispute, also of a resolved one; setting a new status for the
\* fact is optional and leaves its assignments alone.
Resolve(d, status) ==
    /\ dispute[d].status # "absent"
    /\ dispute' = [dispute EXCEPT ![d] = [@ EXCEPT !.status = "resolved",
                                                   !.resolved = TRUE]]
    /\ fact' = IF status = "unchanged" THEN fact
               ELSE [fact EXCEPT ![dispute[d].fact] = [@ EXCEPT !.status = status]]
    /\ UNCHANGED <<assignment, superseded, completed, job>>

-----------------------------------------------------------------------------
AnyPair(old, new) == TRUE
Replaceable(old, new) == old # new

\* supersede_fact: the version of the old fact is read in autocommit mode.
SupersedeRead(w, old, new) ==
    /\ Idle(w)
    /\ Replaceable(old, new)
    /\ fact[old].version < MaxVersion
    /\ Serve(w, [pc |-> "supersede", old |-> old, new |-> new,
                 version |-> fact[old].version])
    /\ UNCHANGED <<fact, assignment, dispute, superseded, completed>>

SameVersion(v) == v
NextVersion(v) == v + 1

Replacing(row, old, version) ==
    [row EXCEPT !.supersedes = old,
                !.version = IF row.version < version THEN version ELSE row.version]

SupersedeCommit(w) ==
    /\ job[w].pc = "supersede"
    /\ LET old == job[w].old
           new == job[w].new
           retired == [fact EXCEPT ![old] = [@ EXCEPT !.status = "superseded"]]
       IN /\ fact' = [retired EXCEPT ![new] =
                         Replacing(@, old, NextVersion(job[w].version))]
          /\ superseded' = superseded \cup {<<old, new>>}
          /\ Complete({old})
    /\ Finish(w)
    /\ UNCHANGED dispute

\* A two-step request dies before it writes: the process stops, or the
\* database stays locked past the timeout.
Fail(w) ==
    /\ ~Idle(w)
    /\ Finish(w)
    /\ UNCHANGED <<fact, assignment, dispute, superseded, completed>>

-----------------------------------------------------------------------------
Init ==
    /\ fact = [f \in Facts |->
                  [status |-> "candidate", supersedes |-> NoFact, version |-> 1]]
    /\ assignment = [a \in Assignments |-> [fact |-> NoFact, status |-> "absent"]]
    /\ dispute = [d \in Disputes |->
                     [fact |-> NoFact, status |-> "absent", resolved |-> FALSE]]
    /\ superseded = {}
    /\ completed = {}
    /\ job = [w \in Workers |-> [pc |-> "idle"]]

Step(w) ==
    \/ \E a \in Assignments, others \in SUBSET Facts : ReleaseRead(w, a, others)
    \/ ReleaseCommit(w)
    \/ ReleaseRefused(w)
    \/ \E d \in Disputes : EscalateRead(w, d)
    \/ EscalateCommit(w)
    \/ \E old, new \in Facts : SupersedeRead(w, old, new)
    \/ SupersedeCommit(w)
    \/ Fail(w)

Next ==
    \/ \E w \in Workers : Step(w)
    \/ \E facts \in SUBSET Facts \ {{}}, action \in ReviewActions : Review(facts, action)
    \/ \E facts \in SUBSET Facts \ {{}} : Assign(facts)
    \/ \E f \in Facts : OpenDispute(f)
    \/ \E d \in Disputes, status \in FactStatuses \cup {"unchanged"} : Resolve(d, status)

Spec == Init /\ [][Next]_vars
-----------------------------------------------------------------------------
TypeOK ==
    /\ fact \in [Facts -> FactRows]
    /\ assignment \in [Assignments -> AssignmentRows]
    /\ dispute \in [Disputes -> DisputeRows]
    /\ superseded \subseteq Facts \X Facts
    /\ completed \subseteq Assignments
    /\ job \in [Workers -> Jobs]

\* A fact is worked on by one expert at a time, however assignments, releases,
\* reviews and supersessions overlap: the unique index on active assignments
\* never has to refuse an insert (assign_facts).
OneActive ==
    \A a, b \in Assignments :
        Active(a) /\ Active(b) /\ assignment[a].fact = assignment[b].fact => a = b

\* A decision on a fact leaves nobody working on it: when the status of a fact
\* that was never disputed changes, by a review or by a supersession, no
\* assignment of it stays active (review_fact, supersede_fact).
DecisionClosesWork ==
    [][\A f \in Facts :
        /\ \A d \in Disputes : dispute'[d].fact # f
        /\ fact'[f].status # fact[f].status
        => \A a \in Assignments :
              assignment'[a].fact = f => assignment'[a].status # "active"]_vars

\* An assignment that was closed and that no release request has read while it
\* was active keeps its row: it does not come back, nor is a completion
\* rewritten (release_fact_assignments, assign_facts).
Closed(a) ==
    /\ assignment[a].status \in {"released", "completed"}
    /\ \A w \in Workers : job[w].pc = "release" => job[w].row # a
ClosedStays ==
    [][\A a \in Assignments :
        Closed(a) => Closed(a)' /\ assignment'[a] = assignment[a]]_vars

\* A resolved dispute stays resolved, unless an escalation has read it before it
\* was resolved and still has to write (escalate_fact_dispute).
Settled(d) ==
    /\ dispute[d].status = "resolved"
    /\ \A w \in Workers : job[w].pc = "escalate" => job[w].dispute # d
ResolvedStays == [][\A d \in Disputes : Settled(d) => Settled(d)']_vars

\* A fact that replaces another differs from it, has a later version than a
\* fresh one, and the audit log has the supersession; and a fact that has ever
\* replaced one still names one it replaced (supersede_fact).
LinksLogged ==
    \A f \in Facts :
        /\ fact[f].supersedes # NoFact =>
            /\ fact[f].supersedes # f
            /\ <<fact[f].supersedes, f>> \in superseded
            /\ fact[f].version >= 2
        /\ (\E old \in Facts : <<old, f>> \in superseded) => fact[f].supersedes # NoFact

\* A fact gets a higher version than the one it replaces, unless that one got a
\* new version itself while the request was under way; and versions never go
\* back (supersede_fact).
Overtaken(old) ==
    \E w \in Workers :
        /\ job[w].pc = "supersede"
        /\ job[w].old = old
        /\ job[w].version < fact[old].version
VersionsGrow ==
    [][\A f \in Facts :
        /\ fact'[f].version >= fact[f].version
        /\ \A old \in Facts :
            fact[f].supersedes # old /\ fact'[f].supersedes = old =>
                fact'[f].version > fact[old].version \/ Overtaken(old)]_vars

-----------------------------------------------------------------------------
\* What a supersession has read stays true but for the version, which may grow:
\* with it, LinksLogged is inductive and VersionsGrow follows.
ReadsHold ==
    /\ \A f \in Facts : fact[f].version >= 1
    /\ \A w \in Workers :
        job[w].pc = "supersede" =>
            /\ job[w].old # job[w].new
            /\ job[w].version >= 1
            /\ job[w].version <= fact[job[w].old].version

\* escalate_fact_dispute says "resolved dispute cannot be escalated".
ResolvedNotEscalated ==
    \A d \in Disputes : dispute[d].resolved => dispute[d].status # "escalated"

\* README.md says that a review closes the active assignment as "completed".
CompletedKept == \A a \in completed : assignment[a].status = "completed"

\* README.md says that the history of a superseded fact and of its replacement
\* shows both sides: each names the other.
HistoryShowsBothSides ==
    \A old, new \in Facts : <<old, new>> \in superseded => fact[new].supersedes = old
=============================================================================
