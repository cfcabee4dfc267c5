--------------------------- MODULE CurationProofs ---------------------------
(***************************************************************************)
(* Theorems about Curation for any number of threads, facts, assignments   *)
(* and disputes.                                                           *)
(***************************************************************************)
EXTENDS Curation, TLAPS

LEMMA FinishType ==
  ASSUME TypeOK, NEW w \in Workers, Finish(w)
  PROVE  job' \in [Workers -> Jobs]
<1>1. [pc |-> "idle"] \in Jobs
  BY DEF Jobs
<1> QED
  BY <1>1 DEF TypeOK, Finish

LEMMA ServeType ==
  ASSUME TypeOK, NEW w \in Workers, NEW request \in Jobs, Serve(w, request)
  PROVE  job' \in [Workers -> Jobs]
BY DEF TypeOK, Serve

LEMMA ReleaseJob ==
  ASSUME TypeOK, NEW w \in Workers, job[w].pc = "release"
  PROVE  job[w].row \in Assignments /\ job[w].others \in SUBSET Facts
BY DEF TypeOK, Jobs

LEMMA EscalateJob ==
  ASSUME TypeOK, NEW w \in Workers, job[w].pc = "escalate"
  PROVE  job[w].dispute \in Disputes
BY DEF TypeOK, Jobs

LEMMA SupersedeJob ==
  ASSUME TypeOK, NEW w \in Workers, job[w].pc = "supersede"
  PROVE  job[w].old \in Facts /\ job[w].new \in Facts /\ job[w].version \in Nat
BY DEF TypeOK, Jobs

LEMMA CloseType ==
  ASSUME TypeOK, NEW facts, NEW how \in {"released", "completed"}
  PROVE  Close(facts, how) \in [Assignments -> AssignmentRows]
BY DEF TypeOK, Close, AssignmentRows

LEMMA InitTypeOK == Init => TypeOK
BY DEF Init, TypeOK, FactRows, FactStatuses, AssignmentRows, DisputeRows, Jobs

LEMMA NextTypeOK == TypeOK /\ [Next]_vars => TypeOK'
<1> SUFFICES ASSUME TypeOK, [Next]_vars PROVE TypeOK'
  OBVIOUS
<1>1. ASSUME NEW w \in Workers, NEW a \in Assignments, NEW others \in SUBSET Facts,
             ReleaseRead(w, a, others)
      PROVE  TypeOK'
  <2>1. [pc |-> "release", row |-> a, others |-> others] \in Jobs
    BY DEF Jobs
  <2>2. job' \in [Workers -> Jobs]
    BY <1>1, <2>1, ServeType DEF ReleaseRead
  <2> QED
    BY <1>1, <2>2 DEF ReleaseRead, TypeOK
<1>2. ASSUME NEW w \in Workers, ReleaseCommit(w) PROVE TypeOK'
  <2>1. job' \in [Workers -> Jobs]
    BY <1>2, FinishType DEF ReleaseCommit
  <2>2. Close(job[w].others, "released") \in [Assignments -> AssignmentRows]
    BY CloseType
  <2>3. ASSUME NEW row \in AssignmentRows
        PROVE  [row EXCEPT !.status = "released"] \in AssignmentRows
    BY DEF AssignmentRows
  <2>4. assignment' \in [Assignments -> AssignmentRows]
    BY <1>2, <2>2, <2>3 DEF ReleaseCommit
  <2> QED
    BY <1>2, <2>1, <2>4 DEF ReleaseCommit, TypeOK
<1>3. ASSUME NEW w \in Workers, ReleaseRefused(w) PROVE TypeOK'
  BY <1>3, FinishType DEF ReleaseRefused, TypeOK
<1>4. ASSUME NEW w \in Workers, NEW d \in Disputes, EscalateRead(w, d)
      PROVE  TypeOK'
  <2>1. [pc |-> "escalate", dispute |-> d] \in Jobs
    BY DEF Jobs
  <2>2. job' \in [Workers -> Jobs]
    BY <1>4, <2>1, ServeType DEF EscalateRead
  <2> QED
    BY <1>4, <2>2 DEF EscalateRead, TypeOK
<1>5. ASSUME NEW w \in Workers, EscalateCommit(w) PROVE TypeOK'
  <2>1. job' \in [Workers -> Jobs]
    BY <1>5, FinishType DEF EscalateCommit
  <2>2. ASSUME NEW row \in DisputeRows
        PROVE  [row EXCEPT !.status = "escalated"] \in DisputeRows
    BY DEF DisputeRows
  <2>3. dispute' \in [Disputes -> DisputeRows]
    BY <1>5, <2>2 DEF EscalateCommit, TypeOK
  <2> QED
    BY <1>5, <2>1, <2>3 DEF EscalateCommit, TypeOK
<1>6. ASSUME NEW w \in Workers, NEW old \in Facts, NEW new \in Facts,
             SupersedeRead(w, old, new)
      PROVE  TypeOK'
  <2>1. fact[old].version \in Nat
    BY DEF TypeOK, FactRows
  <2>2. [pc |-> "supersede", old |-> old, new |-> new, version |-> fact[old].version]
          \in Jobs
    BY <2>1 DEF Jobs
  <2>3. job' \in [Workers -> Jobs]
    BY <1>6, <2>2, ServeType DEF SupersedeRead
  <2> QED
    BY <1>6, <2>3 DEF SupersedeRead, TypeOK
<1>7. ASSUME NEW w \in Workers, SupersedeCommit(w) PROVE TypeOK'
  <2> DEFINE old == job[w].old
             new == job[w].new
             next == NextVersion(job[w].version)
  <2>1. old \in Facts /\ new \in Facts /\ next \in Nat
    BY <1>7, SupersedeJob DEF SupersedeCommit, NextVersion
  <2> DEFINE retired == [fact EXCEPT ![old] = [@ EXCEPT !.status = "superseded"]]
  <2>2. fact' = [retired EXCEPT ![new] = Replacing(@, old, next)]
    BY <1>7 DEF SupersedeCommit
  <2> HIDE DEF old, new, next
  <2>3. ASSUME NEW row \in FactRows
        PROVE  /\ [row EXCEPT !.status = "superseded"] \in FactRows
               /\ Replacing(row, old, next) \in FactRows
    BY <2>1 DEF FactRows, FactStatuses, Replacing
  <2>4. fact' \in [Facts -> FactRows]
    BY <2>1, <2>2, <2>3 DEF TypeOK
  <2>5. superseded' \subseteq Facts \X Facts
    BY <1>7, <2>1 DEF SupersedeCommit, TypeOK, old, new
  <2>6. /\ assignment' \in [Assignments -> AssignmentRows]
        /\ completed' \subseteq Assignments
    BY <1>7, CloseType DEF SupersedeCommit, Complete, TypeOK
  <2>7. job' \in [Workers -> Jobs]
    BY <1>7, FinishType DEF SupersedeCommit
  <2> QED
    BY <1>7, <2>4, <2>5, <2>6, <2>7 DEF SupersedeCommit, TypeOK
<1>8. ASSUME NEW w \in Workers, Fail(w) PROVE TypeOK'
  BY <1>8, FinishType DEF Fail, TypeOK
<1>9. ASSUME NEW facts \in SUBSET Facts, NEW action \in ReviewActions,
             Review(facts, action)
      PROVE  TypeOK'
  <2>1. status_by_action(action) \in FactStatuses
    BY DEF ReviewActions, status_by_action, FactStatuses
  <2>2. ASSUME NEW row \in FactRows
        PROVE  [row EXCEPT !.status = status_by_action(action)] \in FactRows
    BY <2>1 DEF FactRows
  <2>3. fact' \in [Facts -> FactRows]
    BY <1>9, <2>2 DEF Review, TypeOK
  <2>4. /\ assignment' \in [Assignments -> AssignmentRows]
        /\ completed' \subseteq Assignments
    BY <1>9, CloseType DEF Review, Complete, TypeOK
  <2> QED
    BY <1>9, <2>3, <2>4 DEF Review, TypeOK
<1>10. ASSUME NEW facts \in SUBSET Facts, Assign(facts) PROVE TypeOK'
  <2>1. PICK row \in [facts -> Assignments] :
          assignment' = [a \in Assignments |->
                  IF \E f \in facts : row[f] = a
                  THEN [fact   |-> CHOOSE f \in facts : row[f] = a,
                        status |-> "active"]
                  ELSE Close(facts, "released")[a]]
    BY <1>10 DEF Assign
  <2>2. Close(facts, "released") \in [Assignments -> AssignmentRows]
    BY CloseType
  <2>3. ASSUME NEW a \in Assignments PROVE assignment'[a] \in AssignmentRows
    <3>1. CASE \E f \in facts : row[f] = a
      <4>1. (CHOOSE f \in facts : row[f] = a) \in Facts
        BY <3>1
      <4> QED
        BY <2>1, <3>1, <4>1 DEF AssignmentRows
    <3>2. CASE ~ \E f \in facts : row[f] = a
      BY <2>1, <2>2, <3>2
    <3> QED
      BY <3>1, <3>2
  <2> QED
    BY <1>10, <2>1, <2>3 DEF Assign, TypeOK
<1>11. ASSUME NEW f \in Facts, OpenDispute(f) PROVE TypeOK'
  <2>1. [fact |-> f, status |-> "open", resolved |-> FALSE] \in DisputeRows
    BY DEF DisputeRows
  <2>2. dispute' \in [Disputes -> DisputeRows]
    BY <1>11, <2>1 DEF OpenDispute, TypeOK
  <2>3. fact' \in [Facts -> FactRows]
    BY <1>11 DEF OpenDispute, TypeOK, FactRows, FactStatuses
  <2> QED
    BY <1>11, <2>2, <2>3 DEF OpenDispute, TypeOK
<1>12. ASSUME NEW d \in Disputes, NEW status \in FactStatuses \cup {"unchanged"},
              Resolve(d, status)
       PROVE  TypeOK'
  <2>1. ASSUME NEW row \in DisputeRows
        PROVE  [row EXCEPT !.status = "resolved", !.resolved = TRUE] \in DisputeRows
    BY DEF DisputeRows
  <2>2. dispute' \in [Disputes -> DisputeRows]
    BY <1>12, <2>1 DEF Resolve, TypeOK
  <2>3. ASSUME NEW row \in FactRows, status # "unchanged"
        PROVE  [row EXCEPT !.status = status] \in FactRows
    BY <2>3 DEF FactRows
  <2>4. fact' \in [Facts -> FactRows]
    BY <1>12, <2>3 DEF Resolve, TypeOK
  <2> QED
    BY <1>12, <2>2, <2>4 DEF Resolve, TypeOK
<1>13. CASE UNCHANGED vars
  BY <1>13 DEF vars, TypeOK
<1> QED
  BY <1>1, <1>2, <1>3, <1>4, <1>5, <1>6, <1>7, <1>8, <1>9, <1>10, <1>11, <1>12,
     <1>13 DEF Next, Step

\* The type invariant: every row of the three tables and every request under way
\* has its shape (the columns, defaults and status values of app/db.py).
THEOREM TypeCorrect == Spec => []TypeOK
BY InitTypeOK, NextTypeOK, PTL DEF Spec

-----------------------------------------------------------------------------
\* One expert at a time, and what a closed row is worth.

LEMMA CloseRow ==
  ASSUME TypeOK, NEW facts, NEW how \in {"released", "completed"},
         NEW a \in Assignments
  PROVE  LET row == Close(facts, how)[a]
         IN /\ row.fact = assignment[a].fact
            /\ row.status = "active" => Active(a) /\ assignment[a].fact \notin facts
            /\ ~Active(a) => row = assignment[a]
BY DEF TypeOK, Close, Active, AssignmentRows

\* What any step but an assignment does to a row: it stays with its fact, and is
\* not activated.  Only a release under way changes a row that is not active.
LEMMA RowStep ==
  ASSUME TypeOK, [Next]_vars, NEW a \in Assignments,
         \A facts \in SUBSET Facts : ~Assign(facts)
  PROVE  /\ assignment'[a].fact = assignment[a].fact
         /\ assignment'[a].status = "active" => Active(a)
         /\ ~Active(a) =>
              \/ assignment'[a] = assignment[a]
              \/ \E w \in Workers : job[w].pc = "release" /\ job[w].row = a
<1>1. ASSUME NEW w \in Workers, ReleaseCommit(w)
      PROVE  /\ assignment'[a].fact = assignment[a].fact
             /\ assignment'[a].status = "active" => Active(a)
             /\ job[w].row # a /\ ~Active(a) => assignment'[a] = assignment[a]
  <2> DEFINE closed == Close(job[w].others, "released")
  <2>1. closed \in [Assignments -> AssignmentRows]
    BY CloseType
  <2>2. /\ closed[a].fact = assignment[a].fact
        /\ closed[a].status = "active" => Active(a)
        /\ ~Active(a) => closed[a] = assignment[a]
    BY CloseRow
  <2>3. assignment' = [closed EXCEPT ![job[w].row] = [@ EXCEPT !.status = "released"]]
    BY <1>1 DEF ReleaseCommit
  <2> HIDE DEF closed
  <2>4. job[w].row \in Assignments
    BY <1>1, ReleaseJob DEF ReleaseCommit
  <2> QED
    BY <2>1, <2>2, <2>3, <2>4 DEF AssignmentRows
<1>2. ASSUME NEW w \in Workers, SupersedeCommit(w)
      PROVE  assignment' = Close({job[w].old}, "completed")
  BY <1>2 DEF SupersedeCommit, Complete
<1>3. ASSUME NEW facts \in SUBSET Facts, NEW action \in ReviewActions,
             Review(facts, action)
      PROVE  assignment' = Close(facts, "completed")
  BY <1>3 DEF Review, Complete
<1>4. ASSUME NEW facts, assignment' = Close(facts, "completed")
      PROVE  /\ assignment'[a].fact = assignment[a].fact
             /\ assignment'[a].status = "active" => Active(a)
             /\ ~Active(a) => assignment'[a] = assignment[a]
  BY <1>4, CloseRow
<1>5. CASE UNCHANGED assignment
  BY <1>5 DEF Active
<1>6. CASE \E w \in Workers : ReleaseCommit(w)
  BY <1>1, <1>6 DEF ReleaseCommit
<1>7. CASE \E facts : assignment' = Close(facts, "completed")
  BY <1>4, <1>7
<1>8. CASE \E w \in Workers : Step(w)
  <2>1. PICK w \in Workers : Step(w)
    BY <1>8
  <2>2. CASE ReleaseCommit(w)
    BY <1>6, <2>2
  <2>3. CASE SupersedeCommit(w)
    BY <1>2, <1>7, <2>3
  <2>4. CASE ~ReleaseCommit(w) /\ ~SupersedeCommit(w)
    BY <1>5, <2>1, <2>4 DEF Step, ReleaseRead, ReleaseRefused, EscalateRead,
       EscalateCommit, SupersedeRead, Fail
  <2> QED
    BY <2>2, <2>3, <2>4
<1>9. CASE \E facts \in SUBSET Facts, action \in ReviewActions : Review(facts, action)
  BY <1>3, <1>7, <1>9
<1>10. CASE \/ \E f \in Facts : OpenDispute(f)
            \/ \E d \in Disputes, status \in FactStatuses \cup {"unchanged"} :
                  Resolve(d, status)
  BY <1>5, <1>10 DEF OpenDispute, Resolve
<1>11. CASE UNCHANGED vars
  BY <1>5, <1>11 DEF vars
<1> QED
  BY <1>8, <1>9, <1>10, <1>11 DEF Next

\* What an assignment does to a row.
LEMMA AssignRow ==
  ASSUME TypeOK, NEW facts \in SUBSET Facts, Assign(facts)
  PROVE  \E row \in [facts -> {a \in Assignments : assignment[a].status = "absent"}] :
           /\ \A f, g \in facts : row[f] = row[g] => f = g
           /\ \A f \in facts : assignment'[row[f]].fact = f
           /\ \A a \in Assignments :
                 (\A f \in facts : row[f] # a) =>
                     /\ assignment'[a] = Close(facts, "released")[a]
                     /\ assignment'[a].fact = assignment[a].fact
                     /\ assignment'[a].status = "active" =>
                          Active(a) /\ assignment[a].fact \notin facts
                     /\ ~Active(a) => assignment'[a] = assignment[a]
<1>1. PICK row \in [facts -> {a \in Assignments : assignment[a].status = "absent"}] :
        /\ \A f, g \in facts : row[f] = row[g] => f = g
        /\ assignment' = [a \in Assignments |->
                  IF \E f \in facts : row[f] = a
                  THEN [fact   |-> CHOOSE f \in facts : row[f] = a,
                        status |-> "active"]
                  ELSE Close(facts, "released")[a]]
  BY DEF Assign
<1>2. ASSUME NEW f \in facts
      PROVE  assignment'[row[f]].fact = f
  <2>1. row[f] \in Assignments
    OBVIOUS
  <2>2. (CHOOSE g \in facts : row[g] = row[f]) = f
    BY <1>1
  <2> QED
    BY <1>1, <2>1, <2>2
<1>3. ASSUME NEW a \in Assignments, \A f \in facts : row[f] # a
      PROVE  /\ assignment'[a] = Close(facts, "released")[a]
             /\ assignment'[a].fact = assignment[a].fact
             /\ assignment'[a].status = "active" =>
                  Active(a) /\ assignment[a].fact \notin facts
             /\ ~Active(a) => assignment'[a] = assignment[a]
  BY <1>1, <1>3, CloseRow
<1> QED
  BY <1>1, <1>2, <1>3

LEMMA NextOneActive == TypeOK /\ OneActive /\ [Next]_vars => OneActive'
<1> SUFFICES ASSUME TypeOK, OneActive, [Next]_vars,
                    NEW a \in Assignments, NEW b \in Assignments,
                    Active(a)', Active(b)', assignment'[a].fact = assignment'[b].fact
             PROVE  a = b
  BY DEF OneActive
<1>1. CASE \A facts \in SUBSET Facts : ~Assign(facts)
  BY <1>1, RowStep DEF OneActive, Active
<1>2. ASSUME NEW facts \in SUBSET Facts, Assign(facts) PROVE a = b
  <2>1. PICK row \in [facts -> Assignments] :
           /\ \A f \in facts : assignment'[row[f]].fact = f
           /\ \A c \in Assignments :
                 (\A f \in facts : row[f] # c) =>
                     /\ assignment'[c].fact = assignment[c].fact
                     /\ assignment'[c].status = "active" =>
                          Active(c) /\ assignment[c].fact \notin facts
    BY <1>2, AssignRow
  <2>2. assignment'[a].status = "active" /\ assignment'[b].status = "active"
    BY DEF Active
  <2>3. CASE \E f \in facts : row[f] = a
    <3>1. PICK f \in facts : row[f] = a
      BY <2>3
    <3>2. assignment'[a].fact = f
      BY <2>1, <3>1
    <3>3. PICK g \in facts : row[g] = b
      BY <2>1, <2>2, <3>2
    <3>4. assignment'[b].fact = g
      BY <2>1, <3>3
    <3> QED
      BY <3>1, <3>2, <3>3, <3>4
  <2>4. CASE ~ \E f \in facts : row[f] = a
    <3>1. Active(a) /\ assignment[a].fact \notin facts
      BY <2>1, <2>2, <2>4
    <3>2. ~ \E f \in facts : row[f] = b
      <4> SUFFICES ASSUME NEW f \in facts, row[f] = b PROVE FALSE
        OBVIOUS
      <4>1. assignment'[b].fact = f
        BY <2>1
      <4>2. assignment'[a].fact = assignment[a].fact
        BY <2>1, <2>4
      <4> QED
        BY <3>1, <4>1, <4>2
    <3>3. Active(b)
      BY <2>1, <2>2, <3>2
    <3> QED
      BY <2>1, <2>4, <3>1, <3>2, <3>3 DEF OneActive
  <2> QED
    BY <2>3, <2>4
<1> QED
  BY <1>1, <1>2

\* A fact is worked on by one expert at a time (assign_facts).
THEOREM OneExpert == Spec => []OneActive
<1>1. Init => OneActive
  BY DEF Init, OneActive, Active
<1> QED
  BY <1>1, TypeCorrect, NextOneActive, PTL DEF Spec

\* What any step does to the requests under way, as far as rows are concerned: a
\* release holds only a row that was active, an escalation only a dispute that
\* was not resolved, when it was read.
LEMMA HeldRows ==
  ASSUME TypeOK, [Next]_vars, NEW w \in Workers
  PROVE  /\ job'[w].pc = "release" =>
              \/ job[w].pc = "release" /\ job[w].row = job'[w].row
              \/ Active(job'[w].row)
         /\ job'[w].pc = "escalate" =>
              \/ job[w].pc = "escalate" /\ job[w].dispute = job'[w].dispute
              \/ dispute[job'[w].dispute].status # "resolved"
<1>1. CASE UNCHANGED job
  BY <1>1
<1>2. ASSUME NEW v \in Workers, Finish(v)
      PROVE  job'[w] = job[w] \/ job'[w].pc = "idle"
  BY <1>2 DEF Finish, TypeOK
<1>3. ASSUME NEW v \in Workers, NEW request, Serve(v, request)
      PROVE  job'[w] = job[w] \/ job'[w] = request
  BY <1>3 DEF Serve, TypeOK
<1>4. ASSUME NEW v \in Workers, NEW a \in Assignments, NEW others,
             ReleaseRead(v, a, others)
      PROVE  \/ job'[w] = job[w]
             \/ job'[w] = [pc |-> "release", row |-> a, others |-> others] /\ Active(a)
  BY <1>3, <1>4 DEF ReleaseRead
<1>5. ASSUME NEW v \in Workers, NEW d \in Disputes, EscalateRead(v, d)
      PROVE  \/ job'[w] = job[w]
             \/ /\ job'[w] = [pc |-> "escalate", dispute |-> d]
                /\ dispute[d].status # "resolved"
  BY <1>3, <1>5 DEF EscalateRead, Escalatable
<1>6. ASSUME NEW v \in Workers, NEW old \in Facts, NEW new \in Facts,
             SupersedeRead(v, old, new)
      PROVE  job'[w] = job[w] \/ job'[w].pc = "supersede"
  BY <1>3, <1>6 DEF SupersedeRead
<1>7. CASE \E v \in Workers : Step(v)
  <2>1. PICK v \in Workers : Step(v)
    BY <1>7
  <2>2. CASE Finish(v)
    BY <1>2, <2>2
  <2>3. CASE \E a \in Assignments, others \in SUBSET Facts : ReleaseRead(v, a, others)
    <3>1. PICK a \in Assignments, others \in SUBSET Facts : ReleaseRead(v, a, others)
      BY <2>3
    <3>2. CASE job'[w] = job[w]
      BY <3>2
    <3>3. CASE job'[w] = [pc |-> "release", row |-> a, others |-> others] /\ Active(a)
      BY <3>3
    <3> QED
      BY <1>4, <3>1, <3>2, <3>3
  <2>4. CASE \E d \in Disputes : EscalateRead(v, d)
    <3>1. PICK d \in Disputes : EscalateRead(v, d)
      BY <2>4
    <3>2. CASE job'[w] = job[w]
      BY <3>2
    <3>3. CASE job'[w] = [pc |-> "escalate", dispute |-> d]
                 /\ dispute[d].status # "resolved"
      BY <3>3
    <3> QED
      BY <1>5, <3>1, <3>2, <3>3
  <2>5. CASE \E old, new \in Facts : SupersedeRead(v, old, new)
    BY <1>6, <2>5
  <2> QED
    BY <2>1, <2>2, <2>3, <2>4, <2>5 DEF Step, ReleaseCommit, ReleaseRefused,
       EscalateCommit, SupersedeCommit, Fail
<1> QED
  BY <1>1, <1>7 DEF Next, Review, Assign, OpenDispute, Resolve, vars

\* A closed assignment that no release request holds keeps its row for good
\* (release_fact_assignments, assign_facts, review_fact, supersede_fact).
THEOREM ClosedForGood == Spec => ClosedStays
<1>1. TypeOK /\ [Next]_vars =>
        [\A a \in Assignments :
            Closed(a) => Closed(a)' /\ assignment'[a] = assignment[a]]_vars
  <2> SUFFICES ASSUME TypeOK, [Next]_vars, NEW a \in Assignments, Closed(a)
               PROVE  Closed(a)' /\ assignment'[a] = assignment[a]
    OBVIOUS
  <2>1. ~Active(a)
    BY DEF Closed, Active
  <2>2. assignment'[a] = assignment[a]
    <3>1. CASE \A facts \in SUBSET Facts : ~Assign(facts)
      BY <2>1, <3>1, RowStep DEF Closed
    <3>2. ASSUME NEW facts \in SUBSET Facts, Assign(facts)
          PROVE  assignment'[a] = assignment[a]
      <4>1. PICK row \in [facts -> {b \in Assignments : assignment[b].status = "absent"}] :
              (\A f \in facts : row[f] # a) => assignment'[a] = assignment[a]
        BY <2>1, <3>2, AssignRow
      <4>2. \A f \in facts : row[f] # a
        BY DEF Closed
      <4> QED
        BY <4>1, <4>2
    <3> QED
      BY <3>1, <3>2
  <2>3. ASSUME NEW w \in Workers, job'[w].pc = "release", job'[w].row = a
        PROVE  FALSE
    BY <2>1, <2>3, HeldRows DEF Closed
  <2> QED
    BY <2>2, <2>3 DEF Closed
<1> QED
  BY <1>1, TypeCorrect, PTL DEF Spec, ClosedStays

LEMMA DisputeStep ==
  ASSUME TypeOK, [Next]_vars, NEW d \in Disputes, dispute[d].status = "resolved"
  PROVE  \/ dispute'[d].status = "resolved"
         \/ \E w \in Workers : job[w].pc = "escalate" /\ job[w].dispute = d
<1>1. CASE UNCHANGED dispute
  BY <1>1
<1>2. ASSUME NEW w \in Workers, EscalateCommit(w)
      PROVE  dispute'[d].status = "resolved" \/ job[w].dispute = d
  BY <1>2, EscalateJob DEF EscalateCommit, TypeOK
<1>3. ASSUME NEW f \in Facts, OpenDispute(f) PROVE dispute'[d] = dispute[d]
  BY <1>3 DEF OpenDispute, TypeOK
<1>4. ASSUME NEW e \in Disputes, NEW status, Resolve(e, status)
      PROVE  dispute'[d].status = "resolved"
  <2>1. dispute \in [Disputes -> DisputeRows]
    BY DEF TypeOK
  <2>2. ASSUME NEW row \in DisputeRows
        PROVE  [row EXCEPT !.status = "resolved", !.resolved = TRUE].status = "resolved"
    BY DEF DisputeRows
  <2> QED
    BY <1>4, <2>1, <2>2 DEF Resolve
<1>5. CASE \E w \in Workers : Step(w)
  <2>1. PICK w \in Workers : Step(w)
    BY <1>5
  <2>2. CASE EscalateCommit(w)
    BY <1>2, <2>2 DEF EscalateCommit
  <2>3. CASE ~EscalateCommit(w)
    BY <1>1, <2>1, <2>3 DEF Step, ReleaseRead, ReleaseCommit, ReleaseRefused,
       EscalateRead, SupersedeRead, SupersedeCommit, Fail
  <2> QED
    BY <2>2, <2>3
<1> QED
  BY <1>1, <1>3, <1>4, <1>5 DEF Next, Review, Assign, vars

\* A resolved dispute that no escalation has read before stays resolved
\* (escalate_fact_dispute, resolve_fact_dispute).
THEOREM ResolvedForGood == Spec => ResolvedStays
<1>1. TypeOK /\ [Next]_vars =>
        [\A d \in Disputes : Settled(d) => Settled(d)']_vars
  <2> SUFFICES ASSUME TypeOK, [Next]_vars, NEW d \in Disputes, Settled(d)
               PROVE  Settled(d)'
    OBVIOUS
  <2>1. dispute'[d].status = "resolved"
    BY DisputeStep DEF Settled
  <2>2. ASSUME NEW w \in Workers, job'[w].pc = "escalate", job'[w].dispute = d
        PROVE  FALSE
    BY <2>2, HeldRows DEF Settled
  <2> QED
    BY <2>1, <2>2 DEF Settled
<1> QED
  BY <1>1, TypeCorrect, PTL DEF Spec, ResolvedStays

-----------------------------------------------------------------------------
\* Supersession.

\* What a supersession writes to a fact's link and version.
LEMMA SupersedeFact ==
  ASSUME TypeOK, NEW f \in Facts, NEW w \in Workers, SupersedeCommit(w)
  PROVE  /\ job[w].new = f =>
              /\ fact'[f].supersedes = job[w].old
              /\ fact'[f].version >= job[w].version + 1
              /\ fact'[f].version >= fact[f].version
         /\ job[w].new # f =>
              /\ fact'[f].supersedes = fact[f].supersedes
              /\ fact'[f].version = fact[f].version
<1> DEFINE old == job[w].old
           new == job[w].new
           next == NextVersion(job[w].version)
           retired == [fact EXCEPT ![old] = [@ EXCEPT !.status = "superseded"]]
<1>0. fact \in [Facts -> FactRows]
  BY DEF TypeOK
<1>1. old \in Facts /\ new \in Facts /\ next = job[w].version + 1 /\ next \in Nat
  BY SupersedeJob DEF SupersedeCommit, NextVersion
<1>2. fact' = [retired EXCEPT ![new] = Replacing(@, old, next)]
  BY DEF SupersedeCommit
<1>3. ASSUME NEW row \in FactRows
      PROVE  /\ [row EXCEPT !.status = "superseded"] \in FactRows
             /\ [row EXCEPT !.status = "superseded"].supersedes = row.supersedes
             /\ [row EXCEPT !.status = "superseded"].version = row.version
  BY DEF FactRows, FactStatuses
<1>4. retired \in [Facts -> FactRows]
  BY <1>0, <1>1, <1>3
<1>5. retired[f].supersedes = fact[f].supersedes /\ retired[f].version = fact[f].version
  <2>1. CASE old = f
    BY <1>0, <1>3, <2>1
  <2>2. CASE old # f
    BY <1>0, <2>2
  <2> QED
    BY <2>1, <2>2
<1> HIDE DEF old, next, retired
<1>6. ASSUME NEW row \in FactRows
      PROVE  /\ Replacing(row, old, next).supersedes = old
             /\ Replacing(row, old, next).version >= next
             /\ Replacing(row, old, next).version >= row.version
  <2>1. row.version \in Nat
    BY DEF FactRows
  <2>2. /\ Replacing(row, old, next).supersedes = old
        /\ Replacing(row, old, next).version =
              IF row.version < next THEN next ELSE row.version
    BY DEF Replacing, FactRows
  <2> QED
    BY <1>1, <2>1, <2>2
<1>7. CASE new = f
  BY <1>1, <1>2, <1>4, <1>5, <1>6, <1>7 DEF old
<1>8. CASE new # f
  BY <1>1, <1>2, <1>4, <1>5, <1>8
<1> QED
  BY <1>7, <1>8

\* What any step does to a fact's link and version.
LEMMA FactStep ==
  ASSUME TypeOK, [Next]_vars, NEW f \in Facts
  PROVE  \/ /\ fact'[f].supersedes = fact[f].supersedes
            /\ fact'[f].version = fact[f].version
         \/ \E w \in Workers :
              /\ SupersedeCommit(w)
              /\ job[w].new = f
              /\ fact'[f].supersedes = job[w].old
              /\ fact'[f].version >= job[w].version + 1
              /\ fact'[f].version >= fact[f].version
<1> DEFINE Same == /\ fact'[f].supersedes = fact[f].supersedes
                   /\ fact'[f].version = fact[f].version
<1>0. fact \in [Facts -> FactRows]
  BY DEF TypeOK
<1>1. ASSUME NEW status
      PROVE  \A row \in FactRows :
                /\ [row EXCEPT !.status = status].supersedes = row.supersedes
                /\ [row EXCEPT !.status = status].version = row.version
  BY DEF FactRows
<1>2. CASE UNCHANGED fact
  BY <1>2
<1>3. ASSUME NEW facts \in SUBSET Facts, NEW action, Review(facts, action) PROVE Same
  BY <1>0, <1>1, <1>3 DEF Review
<1>4. ASSUME NEW g \in Facts, OpenDispute(g) PROVE Same
  BY <1>0, <1>1, <1>4 DEF OpenDispute
<1>5. ASSUME NEW d \in Disputes, NEW status, Resolve(d, status) PROVE Same
  BY <1>0, <1>1, <1>5 DEF Resolve
<1>6. ASSUME NEW w \in Workers, SupersedeCommit(w), job[w].new # f PROVE Same
  BY <1>6, SupersedeFact
<1>7. CASE \E w \in Workers : Step(w)
  <2>1. PICK w \in Workers : Step(w)
    BY <1>7
  <2>2. CASE SupersedeCommit(w)
    BY <1>6, <2>2, SupersedeFact
  <2>3. CASE ~SupersedeCommit(w)
    BY <1>2, <2>1, <2>3 DEF Step, ReleaseRead, ReleaseCommit, ReleaseRefused,
       EscalateRead, EscalateCommit, SupersedeRead, Fail
  <2> QED
    BY <2>2, <2>3
<1> QED
  BY <1>2, <1>3, <1>4, <1>5, <1>7 DEF Next, Assign, vars

\* A supersession under way was read from the facts in this or an earlier step.
LEMMA NextReadsHold == TypeOK /\ ReadsHold /\ [Next]_vars => ReadsHold'
<1> SUFFICES ASSUME TypeOK, ReadsHold, [Next]_vars PROVE ReadsHold'
  OBVIOUS
<1>1. ASSUME NEW f \in Facts
      PROVE  /\ fact[f].version \in Nat
             /\ fact'[f].version \in Nat
             /\ fact'[f].version >= fact[f].version
  BY FactStep, NextTypeOK DEF TypeOK, FactRows
<1>2. ASSUME NEW w \in Workers, job'[w].pc = "supersede"
      PROVE  \/ job'[w] = job[w]
             \/ /\ job'[w].old \in Facts
                /\ job'[w].old # job'[w].new
                /\ job'[w].version = fact[job'[w].old].version
  <2>1. ASSUME NEW v \in Workers, Finish(v) PROVE job'[w] = job[w]
    BY <1>2, <2>1 DEF Finish, TypeOK
  <2>2. ASSUME NEW v \in Workers, NEW request, Serve(v, request)
        PROVE  job'[w] = job[w] \/ job'[w] = request
    BY <2>2 DEF Serve, TypeOK
  <2>3. ASSUME NEW v \in Workers, NEW a \in Assignments, NEW others,
               ReleaseRead(v, a, others)
        PROVE  job'[w] = job[w]
    BY <1>2, <2>2, <2>3 DEF ReleaseRead
  <2>4. ASSUME NEW v \in Workers, NEW d \in Disputes, EscalateRead(v, d)
        PROVE  job'[w] = job[w]
    BY <1>2, <2>2, <2>4 DEF EscalateRead
  <2>5. ASSUME NEW v \in Workers, NEW old \in Facts, NEW new \in Facts,
               SupersedeRead(v, old, new), job'[w] # job[w]
        PROVE  /\ job'[w].old = old
               /\ job'[w].new = new
               /\ old # new
               /\ job'[w].version = fact[old].version
    BY <2>2, <2>5 DEF SupersedeRead, Replaceable
  <2>6. CASE \E v \in Workers : Step(v)
    <3>1. PICK v \in Workers : Step(v)
      BY <2>6
    <3>2. CASE Finish(v)
      BY <2>1, <3>2
    <3>3. CASE ~Finish(v)
      BY <2>3, <2>4, <2>5, <3>1, <3>3 DEF Step, ReleaseCommit, ReleaseRefused,
         EscalateCommit, SupersedeCommit, Fail
    <3> QED
      BY <3>2, <3>3
  <2>7. CASE UNCHANGED job
    BY <2>7
  <2> QED
    BY <2>6, <2>7 DEF Next, Review, Assign, OpenDispute, Resolve, vars
<1>3. ASSUME NEW w \in Workers, job'[w].pc = "supersede"
      PROVE  /\ job'[w].old # job'[w].new
             /\ job'[w].version >= 1
             /\ job'[w].version <= fact'[job'[w].old].version
  <2>1. CASE job'[w] = job[w]
    <3>1. /\ job[w].old \in Facts
          /\ job[w].version \in Nat
      BY <1>3, <2>1, SupersedeJob
    <3> QED
      BY <1>1, <1>3, <2>1, <3>1 DEF ReadsHold
  <2>2. CASE job'[w] # job[w]
    BY <1>1, <1>2, <1>3, <2>2 DEF ReadsHold
  <2> QED
    BY <2>1, <2>2
<1>4. ASSUME NEW f \in Facts PROVE fact'[f].version >= 1
  BY <1>1 DEF ReadsHold
<1> QED
  BY <1>3, <1>4 DEF ReadsHold

LEMMA NextLinksLogged ==
  TypeOK /\ ReadsHold /\ LinksLogged /\ [Next]_vars => LinksLogged'
<1> SUFFICES ASSUME TypeOK, ReadsHold, LinksLogged, [Next]_vars, NEW f \in Facts
             PROVE  /\ fact'[f].supersedes # NoFact =>
                        /\ fact'[f].supersedes # f
                        /\ <<fact'[f].supersedes, f>> \in superseded'
                        /\ fact'[f].version >= 2
                    /\ (\E old \in Facts : <<old, f>> \in superseded') =>
                        fact'[f].supersedes # NoFact
  BY DEF LinksLogged
<1>1. CASE \E w \in Workers : SupersedeCommit(w) /\ job[w].new = f
  <2>1. PICK w \in Workers : /\ SupersedeCommit(w)
                             /\ job[w].new = f
                             /\ fact'[f].supersedes = job[w].old
                             /\ fact'[f].version >= job[w].version + 1
    BY <1>1, SupersedeFact
  <2>2. job[w].old \in Facts /\ job[w].version \in Nat
    BY <2>1, SupersedeJob DEF SupersedeCommit
  <2>3. /\ job[w].old # f
        /\ job[w].version >= 1
    BY <2>1 DEF ReadsHold, SupersedeCommit
  <2>4. <<job[w].old, f>> \in superseded'
    BY <2>1 DEF SupersedeCommit
  <2>5. fact'[f].version \in Nat
    BY NextTypeOK DEF TypeOK, FactRows
  <2> QED
    BY <2>1, <2>2, <2>3, <2>4, <2>5, CurationAssumption
<1>2. CASE \A w \in Workers : ~(SupersedeCommit(w) /\ job[w].new = f)
  <2>1. /\ fact'[f].supersedes = fact[f].supersedes
        /\ fact'[f].version = fact[f].version
    BY <1>2, FactStep
  <2>2. /\ superseded \subseteq superseded'
        /\ \A old \in Facts : <<old, f>> \in superseded' => <<old, f>> \in superseded
    <3>1. CASE UNCHANGED superseded
      BY <3>1
    <3>2. ASSUME NEW w \in Workers, SupersedeCommit(w)
          PROVE  /\ superseded \subseteq superseded'
                 /\ \A old \in Facts :
                      <<old, f>> \in superseded' => <<old, f>> \in superseded
      BY <1>2, <3>2 DEF SupersedeCommit
    <3> QED
      BY <3>1, <3>2 DEF Next, Step, ReleaseRead, ReleaseCommit, ReleaseRefused,
         EscalateRead, EscalateCommit, SupersedeRead, Fail, Review, Assign,
         OpenDispute, Resolve, vars
  <2> QED
    BY <2>1, <2>2 DEF LinksLogged
<1> QED
  BY <1>1, <1>2

LEMMA InitLinks == Init => ReadsHold /\ LinksLogged
BY DEF Init, ReadsHold, LinksLogged

\* A fact that replaces another has the log and a later version to show for it,
\* and one that has ever replaced another still names one (supersede_fact).
THEOREM LinksTrue == Spec => []LinksLogged
BY InitLinks, TypeCorrect, NextReadsHold, NextLinksLogged, PTL DEF Spec

\* A replacement gets a later version than what it replaces, unless that one was
\* itself given a new version meanwhile; no version goes back (supersede_fact).
THEOREM VersionsForward == Spec => VersionsGrow
<1>1. TypeOK /\ ReadsHold /\ [Next]_vars =>
        [\A f \in Facts :
          /\ fact'[f].version >= fact[f].version
          /\ \A old \in Facts :
              fact[f].supersedes # old /\ fact'[f].supersedes = old =>
                  fact'[f].version > fact[old].version \/ Overtaken(old)]_vars
  <2> SUFFICES ASSUME TypeOK, ReadsHold, [Next]_vars, NEW f \in Facts,
                      NEW old \in Facts
               PROVE  /\ fact'[f].version >= fact[f].version
                      /\ fact[f].supersedes # old /\ fact'[f].supersedes = old =>
                            fact'[f].version > fact[old].version \/ Overtaken(old)
    OBVIOUS
  <2>1. /\ fact[f].version \in Nat
        /\ fact'[f].version \in Nat
        /\ fact[old].version \in Nat
    BY NextTypeOK DEF TypeOK, FactRows
  <2>2. fact'[f].version >= fact[f].version
    BY <2>1, FactStep
  <2>3. ASSUME NEW w \in Workers, SupersedeCommit(w), job[w].old = old,
               fact'[f].version >= job[w].version + 1
        PROVE  fact'[f].version > fact[old].version \/ Overtaken(old)
    <3>1. job[w].pc = "supersede"
      BY <2>3 DEF SupersedeCommit
    <3>2. job[w].version \in Nat
      BY <3>1, SupersedeJob
    <3> QED
      BY <2>1, <2>3, <3>1, <3>2 DEF ReadsHold, Overtaken
  <2> QED
    BY <2>2, <2>3, FactStep
<1>2. Spec => []ReadsHold
  BY InitLinks, TypeCorrect, NextReadsHold, PTL DEF Spec
<1> QED
  BY <1>1, <1>2, TypeCorrect, PTL DEF Spec, VersionsGrow

-----------------------------------------------------------------------------
\* Who changes the status of a fact: a dispute of it, or a step that completes
\* its assignments.
LEMMA StatusStep ==
  ASSUME TypeOK, [Next]_vars, NEW f \in Facts, fact'[f].status # fact[f].status
  PROVE  \/ \E d \in Disputes : dispute'[d].fact = f
         \/ \E facts : f \in facts /\ assignment' = Close(facts, "completed")
<1>0. /\ fact \in [Facts -> FactRows]
      /\ dispute \in [Disputes -> DisputeRows]
  BY DEF TypeOK
<1>1. ASSUME NEW facts \in SUBSET Facts, NEW action, Review(facts, action)
      PROVE  f \in facts /\ assignment' = Close(facts, "completed")
  BY <1>0, <1>1 DEF Review, Complete
<1>2. ASSUME NEW g \in Facts, OpenDispute(g)
      PROVE  \E d \in Disputes : dispute'[d].fact = f
  <2>1. g = f
    BY <1>0, <1>2 DEF OpenDispute
  <2> QED
    BY <1>0, <1>2, <2>1 DEF OpenDispute
<1>3. ASSUME NEW d \in Disputes, NEW status, Resolve(d, status)
      PROVE  dispute'[d].fact = f
  <2>1. dispute[d].fact = f
    BY <1>0, <1>3 DEF Resolve
  <2>2. ASSUME NEW row \in DisputeRows
        PROVE  [row EXCEPT !.status = "resolved", !.resolved = TRUE].fact = row.fact
    BY DEF DisputeRows
  <2> QED
    BY <1>0, <1>3, <2>1, <2>2 DEF Resolve
<1>4. ASSUME NEW w \in Workers, SupersedeCommit(w)
      PROVE  f \in {job[w].old} /\ assignment' = Close({job[w].old}, "completed")
  <2> DEFINE old == job[w].old
             new == job[w].new
             retired == [fact EXCEPT ![old] = [@ EXCEPT !.status = "superseded"]]
  <2>1. fact' = [retired EXCEPT ![new] =
                    Replacing(@, old, NextVersion(job[w].version))]
    BY <1>4 DEF SupersedeCommit
  <2>2. ASSUME NEW row \in FactRows, NEW v, NEW g
        PROVE  Replacing(row, g, v).status = row.status
    BY DEF Replacing, FactRows
  <2>3. ASSUME old # f PROVE FALSE
    <3>1. retired[f] = fact[f]
      BY <1>0, <2>3
    <3>2. fact'[f].status = fact[f].status
      BY <1>0, <2>1, <2>2, <3>1
    <3> QED
      BY <3>2
  <2> QED
    BY <1>4, <2>3 DEF SupersedeCommit, Complete
<1>5. CASE \E w \in Workers : Step(w)
  <2>1. PICK w \in Workers : Step(w)
    BY <1>5
  <2>2. CASE SupersedeCommit(w)
    BY <1>4, <2>2
  <2>3. CASE ~SupersedeCommit(w)
    BY <2>1, <2>3 DEF Step, ReleaseRead, ReleaseCommit, ReleaseRefused,
       EscalateRead, EscalateCommit, SupersedeRead, Fail
  <2> QED
    BY <2>2, <2>3
<1> QED
  BY <1>1, <1>2, <1>3, <1>5 DEF Next, Assign, vars

\* A review or a supersession that changes a fact's status leaves no assignment
\* of it active (review_fact, supersede_fact).
THEOREM DecisionsClose == Spec => DecisionClosesWork
<1>1. TypeOK /\ [Next]_vars =>
        [\A f \in Facts :
          /\ \A d \in Disputes : dispute'[d].fact # f
          /\ fact'[f].status # fact[f].status
          => \A a \in Assignments :
                assignment'[a].fact = f => assignment'[a].status # "active"]_vars
  <2> SUFFICES ASSUME TypeOK, [Next]_vars, NEW f \in Facts,
                      \A d \in Disputes : dispute'[d].fact # f,
                      fact'[f].status # fact[f].status,
                      NEW a \in Assignments, assignment'[a].fact = f
               PROVE  assignment'[a].status # "active"
    OBVIOUS
  <2>1. PICK facts : f \in facts /\ assignment' = Close(facts, "completed")
    BY StatusStep
  <2> QED
    BY <2>1, CloseRow
<1> QED
  BY <1>1, TypeCorrect, PTL DEF Spec, DecisionClosesWork
=============================================================================
