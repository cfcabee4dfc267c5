------------------------ MODULE ExportApprovalProofs ------------------------
(***************************************************************************)
(* Theorems about ExportApproval for any number of threads, approvals,     *)
(* targets and items.                                                      *)
(***************************************************************************)
EXTENDS ExportApproval, FiniteSetTheorems, TLAPS

LEMMA NoJobType == NoJob \in Jobs
  BY DEF NoJob, Jobs, PCs, Payloads, Ids

LEMMA InitTypeOK == Init => TypeOK
<1>1. Absent \in Rows
  BY DEF Absent, Rows, Statuses, Payloads
<1>2. ASSUME Init PROVE audit \in [Events -> [Ids -> Nat]]
  <2>1. [a \in Ids |-> 0] \in [Ids -> Nat]
    OBVIOUS
  <2> QED
    BY <1>2, <2>1 DEF Init
<1> QED
  BY <1>1, <1>2, NoJobType DEF Init, TypeOK

LEMMA StepTypeOK ==
  ASSUME TypeOK, NEW w \in Workers, Step(w)
  PROVE  TypeOK'
<1>0. /\ approvals \in [Approvals -> Rows]
      /\ audit \in [Events -> [Ids -> Nat]]
      /\ job \in [Workers -> Jobs]
      /\ Approvals \subseteq Ids
      /\ {} \in Payloads
  BY DEF TypeOK, Ids, Payloads
<1>1. ASSUME Finish(w) PROVE job' \in [Workers -> Jobs]
  BY <1>0, <1>1, NoJobType DEF Finish
<1>2. ASSUME NEW e \in Events, NEW a \in Ids
      PROVE  Logged(e, a) \in [Events -> [Ids -> Nat]]
  BY <1>0 DEF Logged
<1>3. ASSUME NEW pc \in PCs, Advance(w, pc) PROVE job' \in [Workers -> Jobs]
  BY <1>0, <1>3 DEF Advance, Jobs
<1>4. ASSUME NEW pc \in PCs, NEW t \in Targets \cup {NoTarget}, NEW p \in Payloads,
             NEW a \in Ids, Serve(w, pc, t, p, a)
      PROVE  job' \in [Workers -> Jobs]
  BY <1>0, <1>4 DEF Serve, Jobs
<1>5. ASSUME NEW a, NEW rows, Refuse(w, a, rows) PROVE TypeOK'
  BY <1>1, <1>5 DEF Refuse, CloseConnection, TypeOK
<1>6. ASSUME NEW role \in Requesters, NEW found \in Payloads
      PROVE  Visible(found, role) \in Payloads
  BY DEF Visible, Payloads
<1>7. ASSUME NEW role \in Requesters, NEW t \in Targets, NEW found \in Payloads,
             RequestRead(w, role, t, found)
      PROVE  TypeOK'
  <2>1. NoApproval \in Ids
    BY DEF Ids
  <2>2. job' \in [Workers -> Jobs]
    BY <1>4, <1>6, <1>7, <2>1 DEF RequestRead, PCs
  <2> QED
    BY <1>7, <2>2 DEF RequestRead, TypeOK
<1>8. ASSUME NEW role \in Requesters, NEW t \in Targets, NEW found \in Payloads,
             RequestBlocked(w, role, t, found)
      PROVE  TypeOK'
  BY <1>5, <1>8 DEF RequestBlocked
<1>9. CASE RequestCommit(w)
  <2>1. PICK a \in Approvals, expires \in {"ahead", "past"} :
          CloseConnection(FALSE,
               [approvals EXCEPT ![a] = [status   |-> "pending",
                                         target   |-> job[w].target,
                                         payload  |-> job[w].payload,
                                         expires  |-> expires,
                                         consumed |-> FALSE]],
               Logged("request", a))
    BY <1>9 DEF RequestCommit
  <2>2. [status |-> "pending", target |-> job[w].target, payload |-> job[w].payload,
         expires |-> expires, consumed |-> FALSE] \in Rows
    BY <1>0 DEF Rows, Jobs, Statuses
  <2>3. approvals' \in [Approvals -> Rows]
    BY <1>0, <2>1, <2>2 DEF CloseConnection
  <2>4. audit' \in [Events -> [Ids -> Nat]]
    BY <1>0, <1>2, <2>1 DEF CloseConnection, Events
  <2> QED
    BY <1>1, <1>9, <2>3, <2>4 DEF RequestCommit, TypeOK
<1>10. ASSUME NEW role \in Requesters, NEW a \in Approvals,
              NEW verdict \in {"approve", "reject"}, ReviewRead(w, role, a, verdict)
       PROVE  TypeOK'
  <2>1. Serve(w, verdict, NoTarget, {}, a)
    BY <1>10 DEF ReviewRead
  <2>2. verdict \in PCs
    BY DEF PCs
  <2>3. job' \in [Workers -> Jobs]
    BY <1>0, <1>4, <2>1, <2>2
  <2> QED
    BY <1>10, <2>3 DEF ReviewRead, TypeOK
<1>11. CASE ReviewCommit(w)
  <2> DEFINE a == job[w].approval
             verdict == Verdict(job[w].pc)
  <2>1. PICK expires \in {"ahead", "past"} :
          CloseConnection(FALSE,
              [approvals EXCEPT ![a] = [@ EXCEPT !.status = verdict,
                                                     !.expires = expires]],
              Logged(job[w].pc, a))
    BY <1>11 DEF ReviewCommit
  <2>2. a \in Ids /\ job[w].pc \in Events
    BY <1>0, <1>11 DEF ReviewCommit, Events, Jobs
  <2>3. approvals' = [approvals EXCEPT ![a] = [@ EXCEPT !.status = verdict,
                                                     !.expires = expires]]
    BY <2>1 DEF CloseConnection
  <2>4. approvals' \in [Approvals -> Rows]
    <3>1. ASSUME a \in Approvals
          PROVE  [approvals[a] EXCEPT !.status = verdict, !.expires = expires] \in Rows
      <4>1. approvals[a] \in Rows /\ expires \in {"ahead", "past"}
        BY <1>0, <3>1 DEF Rows
      <4> QED
        BY <4>1 DEF Rows, Statuses, Verdict
    <3> QED
      BY <1>0, <2>3, <3>1
  <2>5. audit' \in [Events -> [Ids -> Nat]]
    BY <1>2, <2>1, <2>2 DEF CloseConnection
  <2> QED
    BY <1>1, <1>11, <2>4, <2>5 DEF ReviewCommit, TypeOK
<1>12. ASSUME NEW role \in Requesters, NEW t \in Targets, NEW found \in Payloads,
              NEW a \in Ids, ExportRead(w, role, t, a, found)
       PROVE  TypeOK'
  <2>1. job' \in [Workers -> Jobs]
    BY <1>4, <1>6, <1>12 DEF ExportRead, PCs
  <2> QED
    BY <1>12, <2>1 DEF ExportRead, TypeOK
<1>13. ASSUME NEW role \in Requesters, NEW t \in Targets, NEW found \in Payloads,
              NEW a \in Ids, ExportRefused(w, role, t, a, found)
       PROVE  TypeOK'
  BY <1>5, <1>13 DEF ExportRefused
<1>14. CASE CheckApproval(w)
  BY <1>3, <1>14 DEF CheckApproval, PCs, TypeOK
<1>15. CASE ApprovalUnusable(w)
  BY <1>5, <1>15 DEF ApprovalUnusable
<1>16. CASE ConsumeCommit(w)
  <2>1. approvals' \in [Approvals -> Rows]
    <3>1. ASSUME NEW row \in Rows
          PROVE  [row EXCEPT !.status = "used", !.consumed = TRUE] \in Rows
      BY DEF Rows, Statuses
    <3> QED
      BY <1>0, <1>16, <3>1 DEF ConsumeCommit
  <2>2. audit' \in [Events -> [Ids -> Nat]]
    BY <1>0, <1>2, <1>16 DEF ConsumeCommit, Events, Jobs
  <2> QED
    BY <1>3, <1>16, <2>1, <2>2 DEF ConsumeCommit, PCs, TypeOK
<1>17. CASE ExportCommit(w)
  <2>1. audit' \in [Events -> [Ids -> Nat]]
    BY <1>0, <1>2, <1>17 DEF ExportCommit, CloseConnection, Events, Jobs
  <2> QED
    BY <1>3, <1>17, <2>1 DEF ExportCommit, CloseConnection, PCs, TypeOK
<1>18. CASE Respond(w)
  BY <1>0, <1>1, <1>18 DEF Respond, Jobs, TypeOK
<1>19. CASE Fail(w)
  BY <1>1, <1>19 DEF Fail, TypeOK
<1> QED
  BY <1>7, <1>8, <1>9, <1>10, <1>11, <1>12, <1>13, <1>14, <1>15, <1>16, <1>17,
     <1>18, <1>19 DEF Step

\* The type invariant: every row, job, counter and delivery has its shape
\* (the columns and defaults of the export_approvals table).
THEOREM TypeCorrect == Spec => []TypeOK
<1>1. TypeOK /\ [Next]_vars => TypeOK'
  <2> SUFFICES ASSUME TypeOK, [Next]_vars PROVE TypeOK'
    OBVIOUS
  <2>1. ASSUME NEW w \in Workers, Step(w) PROVE TypeOK'
    BY <2>1, StepTypeOK
  <2>2. ASSUME NEW a \in Approvals, PassDeadline(a) PROVE TypeOK'
    BY <2>2 DEF PassDeadline, TypeOK, Rows
  <2>3. CASE UNCHANGED vars
    BY <2>3 DEF vars, TypeOK
  <2> QED
    BY <2>1, <2>2, <2>3 DEF Next
<1> QED
  BY <1>1, InitTypeOK, PTL DEF Spec
-----------------------------------------------------------------------------
\* What no step takes back: a logged event stays logged, a row that exists
\* keeps its scope, and the other workers keep what they have read.
Kept(w) ==
    /\ \A e \in Events, a \in Ids : audit[e][a] > 0 => audit'[e][a] > 0
    /\ \A a \in Approvals : approvals[a].status # "absent" =>
        /\ approvals'[a].status # "absent"
        /\ approvals'[a].target = approvals[a].target
        /\ approvals'[a].payload = approvals[a].payload
    /\ \A v \in Workers \ {w} : job'[v] = job[v]

LEMMA StepKeeps ==
  ASSUME TypeOK, \A v \in Workers : JobConsistent(v), NEW w \in Workers, Step(w)
  PROVE  Kept(w)
<1>0. /\ approvals \in [Approvals -> Rows]
      /\ audit \in [Events -> [Ids -> Nat]]
      /\ job \in [Workers -> Jobs]
      /\ Approvals \subseteq Ids
  BY DEF TypeOK, Ids
<1>1. ASSUME NEW e \in Events, NEW a \in Ids, audit' = Logged(e, a)
      PROVE  \A f \in Events, b \in Ids : audit[f][b] > 0 => audit'[f][b] > 0
  BY <1>0, <1>1 DEF Logged
<1>3. \A v \in Workers \ {w} : job'[v] = job[v]
  BY <1>0 DEF Step, RequestRead, RequestBlocked, RequestCommit, ReviewRead,
     ReviewCommit, ExportRead, ExportRefused, CheckApproval, ApprovalUnusable,
     ConsumeCommit, ExportCommit, Respond, Fail, Refuse, Serve, Advance, Finish
<1>4. CASE RequestCommit(w)
  <2>1. PICK a \in Approvals : /\ approvals[a].status = "absent"
                               /\ audit' = Logged("request", a)
                               /\ \E r : approvals' = [approvals EXCEPT ![a] = r]
    BY <1>4 DEF RequestCommit, CloseConnection
  <2>2. \A b \in Approvals : approvals[b].status # "absent" => approvals'[b] = approvals[b]
    BY <1>0, <2>1
  <2> QED
    BY <1>0, <1>1, <1>3, <2>1, <2>2 DEF Kept, Events
<1>5. CASE ReviewCommit(w)
  <2>1. job[w].approval \in Approvals /\ job[w].pc \in Events
    BY <1>5 DEF ReviewCommit, JobConsistent, Events
  <2>2. audit' = Logged(job[w].pc, job[w].approval)
    BY <1>5 DEF ReviewCommit, CloseConnection
  <2>3. \A a \in Approvals : /\ approvals'[a].target = approvals[a].target
                             /\ approvals'[a].payload = approvals[a].payload
                             /\ approvals'[a].status \in {approvals[a].status, "approved", "rejected"}
    BY <1>0, <1>5 DEF ReviewCommit, CloseConnection, Rows, Verdict
  <2> QED
    BY <1>0, <1>1, <1>3, <2>1, <2>2, <2>3 DEF Kept
<1>6. CASE ConsumeCommit(w)
  <2>1. job[w].approval \in Approvals
    BY <1>6 DEF ConsumeCommit, JobConsistent
  <2>2. audit' = Logged("consume", job[w].approval)
    BY <1>6 DEF ConsumeCommit
  <2>3. \A a \in Approvals : /\ approvals'[a].target = approvals[a].target
                             /\ approvals'[a].payload = approvals[a].payload
                             /\ approvals'[a].status \in {approvals[a].status, "used"}
    BY <1>0, <1>6 DEF ConsumeCommit, Rows
  <2> QED
    BY <1>0, <1>1, <1>3, <2>1, <2>2, <2>3 DEF Kept, Events
<1>7. CASE ExportCommit(w)
  <2>1. job[w].approval \in Approvals
    BY <1>7 DEF ExportCommit, JobConsistent
  <2>2. audit' = Logged("export", job[w].approval) /\ approvals' = approvals
    BY <1>7 DEF ExportCommit, CloseConnection
  <2> QED
    BY <1>0, <1>1, <1>3, <2>1, <2>2 DEF Kept, Events
<1>8. ASSUME UNCHANGED <<approvals, audit>> PROVE Kept(w)
  BY <1>3, <1>8 DEF Kept
<1> QED
  BY <1>4, <1>5, <1>6, <1>7, <1>8 DEF Step, RequestRead, RequestBlocked, ReviewRead,
     ExportRead, ExportRefused, CheckApproval, ApprovalUnusable, Respond, Fail,
     Refuse, CloseConnection

\* Rows stay consistent.  Only four steps write rows or the counters a row is
\* compared with.
LEMMA StepRows ==
  ASSUME IInv, NEW w \in Workers, Step(w)
  PROVE  \A a \in Approvals : RowConsistent(a)'
<1> SUFFICES ASSUME NEW b \in Approvals PROVE RowConsistent(b)'
  OBVIOUS
<1>0. /\ approvals \in [Approvals -> Rows]
      /\ audit \in [Events -> [Ids -> Nat]]
      /\ job \in [Workers -> Jobs]
      /\ Approvals \subseteq Ids
      /\ RowConsistent(b)
      /\ JobConsistent(w)
  BY DEF IInv, TypeOK, Ids
<1>1. CASE RequestCommit(w)
  <2>1. PICK a \in Approvals, expires \in {"ahead", "past"} :
          /\ approvals[a].status = "absent"
          /\ approvals' = [approvals EXCEPT ![a] =
                              [status   |-> "pending",
                               target   |-> job[w].target,
                               payload  |-> job[w].payload,
                               expires  |-> expires,
                               consumed |-> FALSE]]
          /\ audit' = Logged("request", a)
    BY <1>1 DEF RequestCommit, CloseConnection
  <2>2. job[w].target # NoTarget
    BY <1>0, <1>1, ConstantsAssumption DEF RequestCommit, JobConsistent
  <2>3. /\ audit'["approve"] = audit["approve"]
        /\ audit'["consume"] = audit["consume"]
        /\ audit'["request"] = [audit["request"] EXCEPT ![a] = @ + 1]
    BY <1>0, <2>1 DEF Logged, Events
  <2>4. audit["request"] \in [Ids -> Nat] /\ a \in Ids /\ b \in Ids
    BY <1>0 DEF Events
  <2>5. audit'["request"][a] > 0
    BY <2>3, <2>4
  <2>6. CASE a = b
    <3>1. approvals'[a] = [status |-> "pending", target |-> job[w].target,
                           payload |-> job[w].payload, expires |-> expires,
                           consumed |-> FALSE]
      BY <1>0, <2>1
    <3> QED
      BY <1>0, <2>1, <2>2, <2>3, <2>5, <2>6, <3>1 DEF RowConsistent
  <2>7. CASE a # b
    <3>1. approvals'[b] = approvals[b]
      BY <1>0, <2>1, <2>7
    <3>2. audit'["request"][b] = audit["request"][b]
      BY <2>3, <2>4, <2>7
    <3> QED
      BY <1>0, <2>3, <3>1, <3>2 DEF RowConsistent
  <2> QED
    BY <2>6, <2>7
<1>2. CASE ReviewCommit(w)
  <2> DEFINE a == job[w].approval
  <2>1. a \in Approvals /\ approvals[a].status # "absent"
    BY <1>0, <1>2 DEF ReviewCommit, JobConsistent
  <2>2. PICK verdict \in {"approved", "rejected"},
             expires \in {"ahead", "past"} :
          /\ approvals' = [approvals EXCEPT ![a] = [@ EXCEPT !.status = verdict,
                                                             !.expires = expires]]
          /\ audit' = Logged(job[w].pc, a)
          /\ job[w].pc \in {"approve", "reject"}
          /\ verdict = "approved" => job[w].pc = "approve"
    BY <1>2 DEF ReviewCommit, CloseConnection, Verdict
  <2>3. /\ audit'["consume"] = audit["consume"]
        /\ audit'["request"] = audit["request"]
        /\ job[w].pc = "approve" =>
             audit'["approve"] = [audit["approve"] EXCEPT ![a] = @ + 1]
        /\ job[w].pc = "reject" => audit'["approve"] = audit["approve"]
    BY <1>0, <2>2 DEF Logged, Events
  <2>4. audit["approve"] \in [Ids -> Nat]
    BY <1>0 DEF Events
  <2>5. /\ approvals'[a].status = verdict
        /\ approvals'[a].target = approvals[a].target
        /\ approvals'[a].payload = approvals[a].payload
        /\ approvals'[a].consumed = approvals[a].consumed
    BY <1>0, <2>1, <2>2 DEF Rows
  <2>6. CASE a = b
    BY <1>0, <2>1, <2>2, <2>3, <2>4, <2>5, <2>6 DEF RowConsistent
  <2>7. CASE a # b
    BY <1>0, <2>1, <2>2, <2>3, <2>4, <2>7 DEF RowConsistent
  <2> QED
    BY <2>6, <2>7
<1>3. CASE ConsumeCommit(w)
  <2> DEFINE a == job[w].approval
  <2>1. a \in Approvals /\ approvals[a].status # "absent"
    BY <1>0, <1>3, ConstantsAssumption
       DEF ConsumeCommit, JobConsistent, Matches, IInv, RowConsistent
  <2>2. /\ approvals' = [approvals EXCEPT ![a] = [@ EXCEPT !.status = "used",
                                                           !.consumed = TRUE]]
        /\ audit' = Logged("consume", a)
    BY <1>3 DEF ConsumeCommit
  <2>3. /\ audit'["approve"] = audit["approve"]
        /\ audit'["request"] = audit["request"]
        /\ audit'["consume"] = [audit["consume"] EXCEPT ![a] = @ + 1]
    BY <1>0, <2>2 DEF Logged, Events
  <2>4. /\ approvals'[a].status = "used"
        /\ approvals'[a].target = approvals[a].target
        /\ approvals'[a].payload = approvals[a].payload
        /\ approvals'[a].consumed = TRUE
    BY <1>0, <2>1, <2>2 DEF Rows
  <2>5. audit["consume"] \in [Ids -> Nat]
    BY <1>0 DEF Events
  <2>6. CASE a = b
    BY <1>0, <2>1, <2>3, <2>4, <2>6 DEF RowConsistent
  <2>7. CASE a # b
    BY <1>0, <2>1, <2>2, <2>3, <2>5, <2>7 DEF RowConsistent
  <2> QED
    BY <2>6, <2>7
<1>4. CASE ExportCommit(w)
  <2>1. /\ approvals' = approvals
        /\ audit'["approve"] = audit["approve"]
        /\ audit'["request"] = audit["request"]
        /\ audit'["consume"] = audit["consume"]
    BY <1>0, <1>4 DEF ExportCommit, CloseConnection, Logged, Events
  <2> QED
    BY <1>0, <2>1 DEF RowConsistent
<1>5. ASSUME UNCHANGED <<approvals, audit>> PROVE RowConsistent(b)'
  BY <1>0, <1>5 DEF RowConsistent
<1> QED
  BY <1>1, <1>2, <1>3, <1>4, <1>5 DEF Step, RequestRead, RequestBlocked, ReviewRead,
     ExportRead, ExportRefused, CheckApproval, ApprovalUnusable, Respond, Fail,
     Refuse, CloseConnection

\* What a worker relies on after a check is still true when it writes, although
\* every other worker may have written in between.
LEMMA KeptJobs ==
  ASSUME IInv, NEW w \in Workers, Kept(w), NEW v \in Workers \ {w}
  PROVE  JobConsistent(v)'
<1>1. /\ job'[v] = job[v]
      /\ JobConsistent(v)
      /\ job[v] \in Jobs
      /\ Approvals \subseteq Ids
  BY DEF IInv, Kept, TypeOK, Ids
<1>2. CASE job[v].approval \in Approvals
  BY <1>1, <1>2 DEF Kept, JobConsistent, Matches, Events, IInv, RowConsistent
<1>3. CASE job[v].approval \notin Approvals
  BY <1>1, <1>3 DEF JobConsistent
<1> QED
  BY <1>2, <1>3

LEMMA StepJobs ==
  ASSUME IInv, NEW w \in Workers, Step(w)
  PROVE  JobConsistent(w)'
<1>0. /\ approvals \in [Approvals -> Rows]
      /\ audit \in [Events -> [Ids -> Nat]]
      /\ job \in [Workers -> Jobs]
      /\ Approvals \subseteq Ids
      /\ \A a \in Approvals : RowConsistent(a)
      /\ JobConsistent(w)
  BY DEF IInv, TypeOK, Ids
<1>1. Kept(w)
  BY StepKeeps DEF IInv
<1>2. ASSUME Finish(w) PROVE JobConsistent(w)'
  BY <1>0, <1>2 DEF Finish, NoJob, JobConsistent
<1>3. ASSUME NEW a, NEW rows, Refuse(w, a, rows) PROVE JobConsistent(w)'
  BY <1>2, <1>3 DEF Refuse
<1>4. ASSUME NEW role \in Requesters, NEW t \in Targets, NEW found \in Payloads,
             RequestRead(w, role, t, found)
      PROVE  JobConsistent(w)'
  BY <1>0, <1>4 DEF RequestRead, Serve, JobConsistent
<1>5. ASSUME NEW role \in Requesters, NEW a \in Approvals,
             NEW verdict \in {"approve", "reject"}, ReviewRead(w, role, a, verdict)
      PROVE  JobConsistent(w)'
  BY <1>0, <1>5 DEF ReviewRead, Serve, JobConsistent
<1>6. ASSUME NEW role \in Requesters, NEW t \in Targets, NEW found \in Payloads,
             NEW a \in Ids, ExportRead(w, role, t, a, found)
      PROVE  JobConsistent(w)'
  BY <1>0, <1>6 DEF ExportRead, Serve, JobConsistent, Ids
<1>7. CASE CheckApproval(w)
  <2> DEFINE a == job[w].approval
  <2>1. /\ job'[w] = [job[w] EXCEPT !.pc = "consume"]
        /\ a \in Approvals
        /\ job[w].target \in Targets
        /\ ~Blocked(job[w].payload)
        /\ approvals[a].status = "approved"
        /\ Matches(a, job[w].target, job[w].payload)
        /\ UNCHANGED <<approvals, audit>>
    BY <1>0, <1>7 DEF CheckApproval, Advance, JobConsistent, Available
  <2>2. audit["approve"][a] > 0 /\ audit["request"][a] > 0
    BY <1>0, <2>1 DEF RowConsistent
  <2>3. /\ job'[w].pc = "consume"
        /\ job'[w].approval = a
        /\ job'[w].target = job[w].target
        /\ job'[w].payload = job[w].payload
    BY <1>0, <2>1 DEF Jobs
  <2> QED
    BY <2>1, <2>2, <2>3 DEF JobConsistent, Matches
<1>8. ASSUME NEW pc \in {"export", "respond"}, Advance(w, pc),
             job[w].pc \in {"consume", "export"},
             audit'["consume"][job[w].approval] > 0,
             pc = "respond" => audit'["export"][job[w].approval] > 0
      PROVE  JobConsistent(w)'
  <2> DEFINE a == job[w].approval
  <2>1. /\ job'[w].pc = pc
        /\ job'[w].approval = a
        /\ job'[w].target = job[w].target
        /\ job'[w].payload = job[w].payload
    BY <1>0, <1>8 DEF Advance, Jobs
  <2>2. /\ a \in Approvals
        /\ job[w].target \in Targets
        /\ ~Blocked(job[w].payload)
        /\ audit["request"][a] > 0
        /\ audit["approve"][a] > 0
        /\ Matches(a, job[w].target, job[w].payload)
    BY <1>0, <1>8 DEF JobConsistent
  <2>3. approvals[a].status # "absent"
    BY <1>0, <2>2, ConstantsAssumption DEF RowConsistent, Matches
  <2>4. /\ audit'["request"][a] > 0
        /\ audit'["approve"][a] > 0
        /\ approvals'[a].target = job[w].target
        /\ approvals'[a].payload = job[w].payload
    BY <1>0, <1>1, <2>2, <2>3 DEF Kept, Events, Matches
  <2> QED
    BY <1>8, <2>1, <2>2, <2>4 DEF JobConsistent, Matches
<1>9. ASSUME NEW e \in Events, NEW a \in Approvals, audit' = Logged(e, a)
      PROVE  audit'[e][a] > 0
  <2>1. audit[e] \in [Ids -> Nat] /\ audit'[e] = [audit[e] EXCEPT ![a] = @ + 1]
    BY <1>0, <1>9 DEF Logged
  <2> QED
    BY <1>0, <2>1
<1>10. CASE ConsumeCommit(w)
  BY <1>0, <1>8, <1>9, <1>10 DEF ConsumeCommit, JobConsistent, Events
<1>11. CASE ExportCommit(w)
  <2>1. /\ job[w].approval \in Approvals
        /\ audit["consume"][job[w].approval] > 0
        /\ audit' = Logged("export", job[w].approval)
    BY <1>0, <1>11 DEF ExportCommit, CloseConnection, JobConsistent
  <2>2. audit'["export"][job[w].approval] > 0
    BY <1>9, <2>1 DEF Events
  <2>3. audit'["consume"][job[w].approval] > 0
    BY <1>0, <1>1, <2>1 DEF Kept, Events
  <2> QED
    BY <1>8, <1>11, <2>2, <2>3 DEF ExportCommit
<1> QED
  BY <1>2, <1>3, <1>4, <1>5, <1>6, <1>7, <1>10, <1>11 DEF Step, RequestBlocked,
     RequestCommit, ReviewCommit, ExportRefused, ApprovalUnusable, Respond, Fail

LEMMA StepDelivered ==
  ASSUME IInv, NEW w \in Workers, Step(w)
  PROVE  DeliveredAsApproved' /\ EveryStepLogged'
<1>0. /\ job \in [Workers -> Jobs]
      /\ Approvals \subseteq Ids
      /\ \A a \in Approvals : RowConsistent(a)
      /\ JobConsistent(w)
      /\ Kept(w)
  BY StepKeeps DEF IInv, TypeOK, Ids
<1>1. ASSUME NEW d \in delivered
      PROVE  /\ d.approval \in Approvals
             /\ audit'["approve"][d.approval] > 0
             /\ approvals'[d.approval].target = d.target
             /\ approvals'[d.approval].payload = d.payload
             /\ ~Blocked(d.payload)
             /\ \A e \in {"request", "approve", "consume", "export"} :
                    audit'[e][d.approval] > 0
  <2>1. /\ d.approval \in Approvals
        /\ audit["approve"][d.approval] > 0
        /\ approvals[d.approval].target = d.target
        /\ approvals[d.approval].payload = d.payload
        /\ ~Blocked(d.payload)
        /\ \A e \in {"request", "approve", "consume", "export"} :
               audit[e][d.approval] > 0
    BY DEF IInv, DeliveredAsApproved, EveryStepLogged
  <2>2. approvals[d.approval].status # "absent"
    BY <1>0, <2>1 DEF RowConsistent, IInv, TypeOK, Events
  <2> QED
    BY <1>0, <2>1, <2>2 DEF Kept, Events
<1>2. CASE delivered' = delivered
  BY <1>1, <1>2 DEF DeliveredAsApproved, EveryStepLogged
<1>3. CASE Respond(w)
  <2> DEFINE d == [approval |-> job[w].approval, target |-> job[w].target,
                   payload |-> job[w].payload]
  <2>1. /\ delivered' = delivered \cup {d}
        /\ UNCHANGED <<approvals, audit>>
    BY <1>3 DEF Respond
  <2>2. /\ d.approval \in Approvals
        /\ approvals[d.approval].target = d.target
        /\ approvals[d.approval].payload = d.payload
        /\ ~Blocked(d.payload)
        /\ \A e \in {"request", "approve", "consume", "export"} :
               audit[e][d.approval] > 0
    BY <1>0, <1>3 DEF Respond, JobConsistent, Matches
  <2> HIDE DEF d
  <2> QED
    BY <1>1, <2>1, <2>2 DEF DeliveredAsApproved, EveryStepLogged
<1> QED
  BY <1>2, <1>3 DEF Step, RequestRead, RequestBlocked, RequestCommit, ReviewRead,
     ReviewCommit, ExportRead, ExportRefused, CheckApproval, ApprovalUnusable,
     ConsumeCommit, ExportCommit, Fail, Refuse

LEMMA InitIInv == Init => IInv
<1>1. ASSUME Init PROVE \A a \in Approvals : RowConsistent(a)
  BY <1>1 DEF Init, Absent, RowConsistent, Events, Ids
<1>2. ASSUME Init PROVE \A w \in Workers : JobConsistent(w)
  BY <1>2 DEF Init, NoJob, JobConsistent
<1> QED
  BY <1>1, <1>2, InitTypeOK DEF Init, IInv, DeliveredAsApproved, EveryStepLogged

LEMMA NextIInv == IInv /\ [Next]_vars => IInv'
<1> SUFFICES ASSUME IInv, [Next]_vars PROVE IInv'
  OBVIOUS
<1>1. ASSUME NEW w \in Workers, Step(w) PROVE IInv'
  <2>1. TypeOK'
    BY <1>1, StepTypeOK DEF IInv
  <2>2. \A v \in Workers : JobConsistent(v)'
    BY <1>1, StepKeeps, KeptJobs, StepJobs DEF IInv
  <2> QED
    BY <1>1, <2>1, <2>2, StepRows, StepDelivered DEF IInv
<1>2. ASSUME NEW b \in Approvals, PassDeadline(b) PROVE IInv'
  <2>1. \A a \in Approvals : /\ approvals'[a].status = approvals[a].status
                             /\ approvals'[a].target = approvals[a].target
                             /\ approvals'[a].payload = approvals[a].payload
                             /\ approvals'[a].consumed = approvals[a].consumed
    BY <1>2 DEF PassDeadline, IInv, TypeOK, Rows
  <2>2. UNCHANGED <<audit, job, delivered, refused>>
    BY <1>2 DEF PassDeadline
  <2>3. TypeOK'
    BY <1>2 DEF PassDeadline, IInv, TypeOK, Rows
  <2>4. \A a \in Approvals : RowConsistent(a)'
    BY <2>1, <2>2 DEF IInv, RowConsistent
  <2>5. \A w \in Workers : JobConsistent(w)'
    BY <2>1, <2>2 DEF IInv, JobConsistent, Matches
  <2>6. DeliveredAsApproved' /\ EveryStepLogged'
    BY <2>1, <2>2 DEF IInv, DeliveredAsApproved, EveryStepLogged
  <2> QED
    BY <2>3, <2>4, <2>5, <2>6 DEF IInv
<1>3. CASE UNCHANGED vars
  BY <1>3 DEF vars, IInv, TypeOK, RowConsistent, JobConsistent, Matches,
     DeliveredAsApproved, EveryStepLogged
<1> QED
  BY <1>1, <1>2, <1>3 DEF Next

\* The inductive invariant holds throughout: rows stay consistent with the audit
\* log, and what a worker has checked still holds of what it will write.
THEOREM Invariance == Spec => []IInv
  BY InitIInv, NextIInv, PTL DEF Spec

\* No export that the policy refuses is sent out but under an approval granted
\* for exactly its target and payload, however requests, reviews, consumptions,
\* deadlines and crashes overlap (audit_export_decision).
THEOREM Authorised == Spec => []DeliveredAsApproved
<1>1. IInv => DeliveredAsApproved
  BY DEF IInv
<1> QED
  BY <1>1, Invariance, PTL

-----------------------------------------------------------------------------
\* Counting.  The workers between two points of the flow are counted together
\* with what was logged at the second point.

CountInv == ExportsCovered /\ UseBounded

LEMMA Sizes ==
  ASSUME NEW S, NEW T, S \subseteq Workers, T \subseteq Workers
  PROVE  /\ Cardinality(S) \in Nat
         /\ Cardinality(S) <= Cardinality(Workers)
         /\ S \subseteq T => Cardinality(S) <= Cardinality(T)
         /\ \A w \in S : Cardinality(S \ {w}) = Cardinality(S) - 1
         /\ \A w \in Workers \ S : Cardinality(S \cup {w}) = Cardinality(S) + 1
<1>1. IsFiniteSet(Workers) /\ IsFiniteSet(S) /\ IsFiniteSet(T)
  BY ConstantsAssumption, FS_Subset
<1> QED
  BY <1>1, FS_Subset, FS_CardinalityType, FS_AddElement, FS_RemoveElement

LEMMA InitCountInv == Init => CountInv
<1> SUFFICES ASSUME Init, NEW a \in Approvals
             PROVE  /\ audit["export"][a] + Cardinality(Exporting(a)) <= audit["consume"][a]
                    /\ audit["consume"][a] <= Cardinality(Workers)
                    /\ ~approvals[a].consumed
  BY DEF CountInv, ExportsCovered, UseBounded
<1>1. Exporting(a) = {}
  BY DEF Init, NoJob, Exporting
<1>2. Cardinality({}) = 0 /\ Cardinality(Workers) \in Nat
  BY Sizes, FS_EmptySet
<1>3. audit["export"][a] = 0 /\ audit["consume"][a] = 0 /\ ~approvals[a].consumed
  BY DEF Init, Events, Ids, Absent
<1> QED
  BY <1>1, <1>2, <1>3

LEMMA StepCountInv ==
  ASSUME IInv, CountInv, NEW w \in Workers, Step(w)
  PROVE  CountInv'
<1> SUFFICES ASSUME NEW b \in Approvals
             PROVE  /\ audit'["export"][b] + Cardinality(Exporting(b)') <= audit'["consume"][b]
                    /\ audit'["consume"][b] <= Cardinality(Workers)
                    /\ approvals'[b].consumed =>
                        audit'["consume"][b] + Cardinality(Consuming(b)')
                            <= Cardinality(Workers)
  BY DEF CountInv, ExportsCovered, UseBounded
<1>0. /\ approvals \in [Approvals -> Rows]
      /\ audit \in [Events -> [Ids -> Nat]]
      /\ job \in [Workers -> Jobs]
      /\ Approvals \subseteq Ids
      /\ RowConsistent(b)
      /\ JobConsistent(w)
      /\ \A v \in Workers \ {w} : job'[v] = job[v]
  BY StepKeeps DEF IInv, TypeOK, Ids, Kept
<1>1. /\ audit["export"] \in [Ids -> Nat]
      /\ audit["consume"] \in [Ids -> Nat]
      /\ b \in Ids
  BY <1>0 DEF Events
<1>2. /\ audit["export"][b] + Cardinality(Exporting(b)) <= audit["consume"][b]
      /\ audit["consume"][b] <= Cardinality(Workers)
      /\ approvals[b].consumed =>
            audit["consume"][b] + Cardinality(Consuming(b)) <= Cardinality(Workers)
  BY DEF CountInv, ExportsCovered, UseBounded
<1>3. /\ Consuming(b) \subseteq Workers /\ Consuming(b)' \subseteq Workers
      /\ Exporting(b) \subseteq Workers /\ Exporting(b)' \subseteq Workers
  BY DEF Consuming, Exporting
<1>4. /\ Cardinality(Consuming(b)) \in Nat /\ Cardinality(Consuming(b)') \in Nat
      /\ Cardinality(Exporting(b)) \in Nat /\ Cardinality(Exporting(b)') \in Nat
      /\ Cardinality(Workers) \in Nat
      /\ Cardinality(Consuming(b)) <= Cardinality(Workers)
  BY <1>3, Sizes
<1>5. job'[w].pc \notin {"consume"} => Consuming(b)' \subseteq Consuming(b)
  BY <1>0 DEF Consuming
<1>6. job'[w].pc \notin {"export"} => Exporting(b)' \subseteq Exporting(b)
  BY <1>0 DEF Exporting
\* Steps that log neither event and consume nothing.
<1>7. ASSUME Exporting(b)' \subseteq Exporting(b),
             audit'["export"] = audit["export"],
             audit'["consume"] = audit["consume"],
             approvals'[b].consumed =>
                approvals[b].consumed /\ Consuming(b)' \subseteq Consuming(b)
      PROVE  /\ audit'["export"][b] + Cardinality(Exporting(b)') <= audit'["consume"][b]
             /\ audit'["consume"][b] <= Cardinality(Workers)
             /\ approvals'[b].consumed =>
                    audit'["consume"][b] + Cardinality(Consuming(b)')
                        <= Cardinality(Workers)
  <2>1. Cardinality(Exporting(b)') <= Cardinality(Exporting(b))
    BY <1>3, <1>7, Sizes
  <2>2. approvals'[b].consumed => Cardinality(Consuming(b)') <= Cardinality(Consuming(b))
    BY <1>3, <1>7, Sizes
  <2> QED
    BY <1>1, <1>2, <1>4, <1>7, <2>1, <2>2
<1>8. CASE CheckApproval(w)
  <2>1. /\ job'[w].pc = "consume"
        /\ job'[w].approval = job[w].approval
        /\ ~approvals[job[w].approval].consumed
        /\ UNCHANGED <<approvals, audit>>
    BY <1>0, <1>8 DEF CheckApproval, Advance, Jobs, Available
  <2>2. approvals[b].consumed => Consuming(b)' \subseteq Consuming(b)
    BY <1>0, <2>1 DEF Consuming
  <2> QED
    BY <1>6, <1>7, <2>1, <2>2
<1>9. CASE ConsumeCommit(w)
  <2> DEFINE a == job[w].approval
  <2>1. /\ job[w].pc = "consume"
        /\ job'[w].pc = "export"
        /\ job'[w].approval = a
        /\ a \in Approvals
        /\ audit' = Logged("consume", a)
        /\ approvals' = [approvals EXCEPT ![a] = [@ EXCEPT !.status = "used",
                                                           !.consumed = TRUE]]
    BY <1>0, <1>9 DEF ConsumeCommit, Advance, Jobs, JobConsistent
  <2>2. /\ audit'["export"] = audit["export"]
        /\ audit'["consume"] = [audit["consume"] EXCEPT ![a] = @ + 1]
    BY <1>0, <2>1 DEF Logged, Events
  <2>3. CASE a = b
    <3>1. audit'["consume"][b] = audit["consume"][b] + 1
      BY <1>1, <2>2, <2>3
    <3>2. w \in Consuming(b) /\ Consuming(b)' = Consuming(b) \ {w}
      BY <1>0, <2>1, <2>3 DEF Consuming
    <3>3. w \notin Exporting(b) /\ Exporting(b)' = Exporting(b) \cup {w}
      BY <1>0, <2>1, <2>3 DEF Exporting
    <3>4. Cardinality(Consuming(b)') = Cardinality(Consuming(b)) - 1
      BY <1>3, <3>2, Sizes
    <3>5. Cardinality(Exporting(b)') = Cardinality(Exporting(b)) + 1
      BY <1>3, <3>3, Sizes
    <3>6. ~approvals[b].consumed => audit["consume"][b] = 0
      BY <1>0 DEF RowConsistent
    <3>7. audit["consume"][b] + Cardinality(Consuming(b)) <= Cardinality(Workers)
      BY <1>1, <1>2, <1>4, <3>6
    <3> QED
      BY <1>1, <1>2, <1>4, <2>2, <3>1, <3>4, <3>5, <3>7
  <2>4. CASE a # b
    <3>1. audit'["consume"][b] = audit["consume"][b] /\ approvals'[b] = approvals[b]
      BY <1>0, <1>1, <2>1, <2>2, <2>4
    <3>2. Consuming(b)' = Consuming(b) /\ Exporting(b)' = Exporting(b)
      BY <1>0, <2>1, <2>4 DEF Consuming, Exporting
    <3> QED
      BY <1>2, <2>2, <3>1, <3>2
  <2> QED
    BY <2>3, <2>4
<1>10. CASE ExportCommit(w)
  <2> DEFINE a == job[w].approval
  <2>1. /\ job[w].pc = "export"
        /\ job'[w].pc = "respond"
        /\ job'[w].approval = a
        /\ a \in Approvals
        /\ audit' = Logged("export", a)
        /\ approvals' = approvals
    BY <1>0, <1>10 DEF ExportCommit, CloseConnection, Advance, Jobs, JobConsistent
  <2>2. /\ audit'["consume"] = audit["consume"]
        /\ audit'["export"] = [audit["export"] EXCEPT ![a] = @ + 1]
    BY <1>0, <2>1 DEF Logged, Events
  <2>3. Consuming(b)' = Consuming(b)
    BY <1>0, <2>1 DEF Consuming
  <2>4. CASE a = b
    <3>1. audit'["export"][b] = audit["export"][b] + 1
      BY <1>1, <2>2, <2>4
    <3>2. w \in Exporting(b) /\ Exporting(b)' = Exporting(b) \ {w}
      BY <1>0, <2>1, <2>4 DEF Exporting
    <3>3. Cardinality(Exporting(b)') = Cardinality(Exporting(b)) - 1
      BY <1>3, <3>2, Sizes
    <3> QED
      BY <1>1, <1>2, <1>4, <2>1, <2>2, <2>3, <3>1, <3>3
  <2>5. CASE a # b
    <3>1. audit'["export"][b] = audit["export"][b]
      BY <1>1, <2>2, <2>5
    <3>2. Exporting(b)' = Exporting(b)
      BY <1>0, <2>1, <2>5 DEF Exporting
    <3> QED
      BY <1>2, <2>1, <2>2, <2>3, <3>1, <3>2
  <2> QED
    BY <2>4, <2>5
<1>11. ASSUME Finish(w) PROVE job'[w].pc = "idle"
  BY <1>0, <1>11 DEF Finish, NoJob
<1>12. CASE RequestCommit(w)
  <2>1. /\ audit'["export"] = audit["export"]
        /\ audit'["consume"] = audit["consume"]
        /\ approvals'[b].consumed => approvals[b].consumed
    BY <1>0, <1>12 DEF RequestCommit, CloseConnection, Logged, Events
  <2> QED
    BY <1>5, <1>6, <1>7, <1>11, <1>12, <2>1 DEF RequestCommit
<1>13. CASE ReviewCommit(w)
  <2>1. /\ audit'["export"] = audit["export"]
        /\ audit'["consume"] = audit["consume"]
    BY <1>0, <1>13 DEF ReviewCommit, CloseConnection, Logged, Events
  <2>2. approvals'[b].consumed => approvals[b].consumed
    BY <1>0, <1>13 DEF ReviewCommit, CloseConnection, Rows
  <2> QED
    BY <1>5, <1>6, <1>7, <1>11, <1>13, <2>1, <2>2 DEF ReviewCommit
<1>14. ASSUME UNCHANGED <<approvals, audit>>, job'[w].pc \notin {"consume", "export"}
       PROVE  /\ audit'["export"][b] + Cardinality(Exporting(b)') <= audit'["consume"][b]
              /\ audit'["consume"][b] <= Cardinality(Workers)
              /\ approvals'[b].consumed =>
                    audit'["consume"][b] + Cardinality(Consuming(b)')
                        <= Cardinality(Workers)
  BY <1>5, <1>6, <1>7, <1>14
<1>15. ASSUME NEW a, NEW rows, Refuse(w, a, rows)
       PROVE  UNCHANGED <<approvals, audit>> /\ job'[w].pc = "idle"
  BY <1>11, <1>15 DEF Refuse, CloseConnection
<1>16. ASSUME NEW role, NEW t, NEW found, RequestRead(w, role, t, found)
       PROVE  UNCHANGED <<approvals, audit>> /\ job'[w].pc = "request"
  BY <1>0, <1>16 DEF RequestRead, Serve
<1>17. ASSUME NEW role, NEW a, NEW verdict \in {"approve", "reject"},
              ReviewRead(w, role, a, verdict)
       PROVE  UNCHANGED <<approvals, audit>> /\ job'[w].pc \in {"approve", "reject"}
  BY <1>0, <1>17 DEF ReviewRead, Serve
<1>18. ASSUME NEW role, NEW t, NEW found, NEW a, ExportRead(w, role, t, a, found)
       PROVE  UNCHANGED <<approvals, audit>> /\ job'[w].pc = "check"
  BY <1>0, <1>18 DEF ExportRead, Serve
<1>19. CASE Respond(w) \/ Fail(w)
  BY <1>11, <1>14, <1>19 DEF Respond, Fail
<1> QED
  BY <1>8, <1>9, <1>10, <1>12, <1>13, <1>14, <1>15, <1>16, <1>17, <1>18, <1>19
     DEF Step, RequestBlocked, ExportRefused, ApprovalUnusable

LEMMA NextCountInv == IInv /\ CountInv /\ [Next]_vars => CountInv'
<1> SUFFICES ASSUME IInv, CountInv, [Next]_vars PROVE CountInv'
  OBVIOUS
<1>1. ASSUME NEW b \in Approvals, PassDeadline(b) PROVE CountInv'
  <2>1. \A a \in Approvals : approvals'[a].consumed = approvals[a].consumed
    BY <1>1 DEF PassDeadline, IInv, TypeOK, Rows
  <2>2. audit' = audit /\ job' = job
    BY <1>1 DEF PassDeadline
  <2> QED
    BY <2>1, <2>2 DEF CountInv, ExportsCovered, UseBounded, Exporting, Consuming
<1>2. CASE UNCHANGED vars
  BY <1>2 DEF vars, CountInv, ExportsCovered, UseBounded, Exporting, Consuming
<1> QED
  BY <1>1, <1>2, StepCountInv DEF Next

\* The counts the bound on uses and exports follows from hold throughout:
\* uses so far and to come, exports so far and to come.
THEOREM Counting == Spec => []CountInv
  BY Invariance, InitCountInv, NextCountInv, PTL DEF Spec

\* An approval lets through at most one export per thread of the server's pool,
\* and none is admitted once it is marked used, whatever a late reviewer writes
\* over the row (consume_export_approval).  With one thread it is one-time.
THEOREM BoundedUse == Spec => []UseBounded
<1>1. CountInv => UseBounded
  BY DEF CountInv
<1> QED
  BY <1>1, Counting, PTL

\* No export is sent out under an approval but with a complete trail in the
\* audit log, and never more exports than consumptions, across crashes
\* (audit_export_decision).
THEOREM Trail == Spec => []TrailComplete
<1>1. IInv /\ CountInv => TrailComplete
  <2> SUFFICES ASSUME IInv, CountInv, NEW a \in Approvals
               PROVE  audit["export"][a] <= audit["consume"][a]
    BY DEF IInv, TrailComplete
  <2>1. /\ audit["export"][a] \in Nat
        /\ audit["consume"][a] \in Nat
    BY DEF IInv, TypeOK, Events, Ids
  <2>2. Cardinality(Exporting(a)) \in Nat
    BY Sizes DEF Exporting
  <2> QED
    BY <2>1, <2>2 DEF CountInv, ExportsCovered
<1> QED
  BY <1>1, Invariance, Counting, PTL
-----------------------------------------------------------------------------
\* Steps that write neither rows nor counters are stutters of the ledger.
LEMMA QuietStep == UNCHANGED <<approvals, audit>> => UNCHANGED Ledger!ledger
  BY DEF Ledger!ledger

LEMMA StepImplements ==
  ASSUME IInv, CountInv, NEW w \in Workers, Step(w)
  PROVE  [Ledger!Next]_(Ledger!ledger)
<1>0. /\ approvals \in [Approvals -> Rows]
      /\ audit \in [Events -> [Ids -> Nat]]
      /\ job \in [Workers -> Jobs]
      /\ Approvals \subseteq Ids
      /\ JobConsistent(w)
  BY DEF IInv, TypeOK, Ids
<1>1. /\ audit["approve"] \in [Ids -> Nat]
      /\ audit["consume"] \in [Ids -> Nat]
      /\ audit["export"] \in [Ids -> Nat]
  BY <1>0 DEF Events
<1>2. CASE RequestCommit(w)
  <2>1. PICK a \in Approvals, expires \in {"ahead", "past"} :
          /\ approvals[a].status = "absent"
          /\ approvals' = [approvals EXCEPT ![a] =
                              [status   |-> "pending",
                               target   |-> job[w].target,
                               payload  |-> job[w].payload,
                               expires  |-> expires,
                               consumed |-> FALSE]]
          /\ audit' = Logged("request", a)
    BY <1>2 DEF RequestCommit, CloseConnection
  <2> DEFINE s == <<job[w].target, job[w].payload>>
  <2>2. s \in Targets \X Payloads
    BY <1>0, <1>2 DEF RequestCommit, JobConsistent, Jobs
  <2>3. approvals[a].target = NoTarget /\ approvals[a].payload = {}
    BY <2>1 DEF IInv, RowConsistent
  <2>4. /\ audit'["approve"] = audit["approve"]
        /\ audit'["consume"] = audit["consume"]
        /\ audit'["export"] = audit["export"]
    BY <1>0, <2>1 DEF Logged, Events
  <2>5. [b \in Approvals |-> <<approvals'[b].target, approvals'[b].payload>>]
            = [[b \in Approvals |-> <<approvals[b].target, approvals[b].payload>>]
                    EXCEPT ![a] = s]
    BY <1>0, <2>1
  <2>6. Ledger!Next
    BY <2>2, <2>3, <2>4, <2>5 DEF Ledger!Next, Ledger!Ask
  <2> QED
    BY <2>6
<1>3. CASE ReviewCommit(w)
  <2> DEFINE a == job[w].approval
  <2>1. a \in Approvals /\ approvals[a].status # "absent" /\ job[w].pc \in {"approve", "reject"}
    BY <1>0, <1>3 DEF ReviewCommit, JobConsistent
  <2>2. audit' = Logged(job[w].pc, a)
    BY <1>3 DEF ReviewCommit, CloseConnection
  <2>3. \A b \in Approvals : /\ approvals'[b].target = approvals[b].target
                             /\ approvals'[b].payload = approvals[b].payload
    BY <1>0, <1>3 DEF ReviewCommit, CloseConnection, Rows
  <2>4. /\ audit'["consume"] = audit["consume"]
        /\ audit'["export"] = audit["export"]
        /\ job[w].pc = "approve" =>
             audit'["approve"] = [audit["approve"] EXCEPT ![a] = @ + 1]
        /\ job[w].pc = "reject" => audit'["approve"] = audit["approve"]
    BY <1>0, <2>1, <2>2 DEF Logged, Events
  <2>5. approvals[a].target # NoTarget
    BY <2>1 DEF IInv, RowConsistent
  <2>6. CASE job[w].pc = "approve"
    <3>1. {b \in Approvals : audit'["approve"][b] > 0}
            = {b \in Approvals : audit["approve"][b] > 0} \cup {a}
      BY <1>0, <1>1, <2>1, <2>4, <2>6
    <3>2. Ledger!Next
      BY <2>1, <2>3, <2>4, <2>5, <3>1 DEF Ledger!Next, Ledger!Grant
    <3> QED
      BY <3>2
  <2>7. CASE job[w].pc = "reject"
    BY <2>3, <2>4, <2>7 DEF Ledger!ledger
  <2> QED
    BY <2>1, <2>6, <2>7
<1>4. CASE ConsumeCommit(w)
  <2> DEFINE a == job[w].approval
  <2>1. a \in Approvals /\ audit["approve"][a] > 0
    BY <1>0, <1>4 DEF ConsumeCommit, JobConsistent
  <2>2. /\ audit' = Logged("consume", a)
        /\ approvals' = [approvals EXCEPT ![a] = [@ EXCEPT !.status = "used",
                                                           !.consumed = TRUE]]
    BY <1>4 DEF ConsumeCommit
  <2>3. \A b \in Approvals : /\ approvals'[b].target = approvals[b].target
                             /\ approvals'[b].payload = approvals[b].payload
    BY <1>0, <2>2 DEF Rows
  <2>4. /\ audit'["approve"] = audit["approve"]
        /\ audit'["export"] = audit["export"]
        /\ audit'["consume"] = [audit["consume"] EXCEPT ![a] = @ + 1]
    BY <1>0, <2>2 DEF Logged, Events
  <2>5. audit["consume"][a] < Cardinality(Workers)
    <3>1. w \in Consuming(a)
      BY <1>4 DEF ConsumeCommit, Consuming
    <3>2. /\ Cardinality(Consuming(a)) \in Nat
          /\ Cardinality(Workers) \in Nat
          /\ Cardinality(Consuming(a)) <= Cardinality(Workers)
      BY Sizes DEF Consuming
    <3>3. Cardinality(Consuming(a)) > 0
      <4>1. Cardinality(Consuming(a) \ {w}) = Cardinality(Consuming(a)) - 1
        BY <3>1, Sizes DEF Consuming
      <4>2. Cardinality(Consuming(a) \ {w}) \in Nat
        BY Sizes DEF Consuming
      <4> QED
        BY <3>2, <4>1, <4>2
    <3>4. ~approvals[a].consumed => audit["consume"][a] = 0
      BY <2>1 DEF IInv, RowConsistent
    <3>5. approvals[a].consumed =>
            audit["consume"][a] + Cardinality(Consuming(a)) <= Cardinality(Workers)
      BY <2>1 DEF CountInv, UseBounded
    <3> QED
      BY <1>0, <1>1, <2>1, <3>2, <3>3, <3>4, <3>5
  <2>6. [b \in Approvals |-> audit'["consume"][b]]
            = [[b \in Approvals |-> audit["consume"][b]] EXCEPT ![a] = @ + 1]
    BY <1>0, <1>1, <2>1, <2>4
  <2>7. Ledger!Next
    BY <2>1, <2>3, <2>4, <2>5, <2>6 DEF Ledger!Next, Ledger!Use
  <2> QED
    BY <2>7
<1>5. CASE ExportCommit(w)
  <2> DEFINE a == job[w].approval
  <2>1. a \in Approvals
    BY <1>0, <1>5 DEF ExportCommit, JobConsistent
  <2>2. audit' = Logged("export", a) /\ approvals' = approvals
    BY <1>5 DEF ExportCommit, CloseConnection
  <2>3. /\ audit'["approve"] = audit["approve"]
        /\ audit'["consume"] = audit["consume"]
        /\ audit'["export"] = [audit["export"] EXCEPT ![a] = @ + 1]
    BY <1>0, <2>2 DEF Logged, Events
  <2>4. audit["export"][a] < audit["consume"][a]
    <3>1. w \in Exporting(a)
      BY <1>5 DEF ExportCommit, Exporting
    <3>2. /\ Cardinality(Exporting(a)) \in Nat
          /\ Cardinality(Exporting(a) \ {w}) \in Nat
          /\ Cardinality(Exporting(a) \ {w}) = Cardinality(Exporting(a)) - 1
      BY <3>1, Sizes DEF Exporting
    <3>3. audit["export"][a] + Cardinality(Exporting(a)) <= audit["consume"][a]
      BY <2>1 DEF CountInv, ExportsCovered
    <3> QED
      BY <1>0, <1>1, <2>1, <3>2, <3>3
  <2>5. [b \in Approvals |-> audit'["export"][b]]
            = [[b \in Approvals |-> audit["export"][b]] EXCEPT ![a] = @ + 1]
    BY <1>0, <1>1, <2>1, <2>3
  <2>6. Ledger!Next
    BY <2>1, <2>2, <2>3, <2>4, <2>5 DEF Ledger!Next, Ledger!Export
  <2> QED
    BY <2>6
<1> QED
  BY <1>2, <1>3, <1>4, <1>5, QuietStep DEF Step, RequestRead, RequestBlocked,
     ReviewRead, ExportRead, ExportRefused, CheckApproval, ApprovalUnusable, Respond,
     Fail, Refuse, CloseConnection

\* The endpoints implement the ledger: whatever requests, reviews, exports,
\* deadlines and crashes do, an approval keeps its scope, is used only once
\* granted and at most once per thread of the pool, and each export follows a
\* use of its own.
THEOREM LedgerImplemented == Spec => ImplementsLedger
<1>1. Init => Ledger!Init
  BY DEF Init, Ledger!Init, Absent, Ids, Events
<1>2. IInv /\ CountInv /\ [Next]_vars => [Ledger!Next]_(Ledger!ledger)
  <2> SUFFICES ASSUME IInv, CountInv, [Next]_vars
               PROVE  [Ledger!Next]_(Ledger!ledger)
    OBVIOUS
  <2>1. ASSUME NEW a \in Approvals, PassDeadline(a) PROVE UNCHANGED Ledger!ledger
    <3>1. \A b \in Approvals : /\ approvals'[b].target = approvals[b].target
                               /\ approvals'[b].payload = approvals[b].payload
      BY <2>1 DEF PassDeadline, IInv, TypeOK, Rows
    <3>2. audit' = audit
      BY <2>1 DEF PassDeadline
    <3> QED
      BY <3>1, <3>2 DEF Ledger!ledger
  <2>2. CASE UNCHANGED vars
    BY <2>2, QuietStep DEF vars
  <2> QED
    BY <2>1, <2>2, StepImplements DEF Next
<1> QED
  BY <1>1, <1>2, Invariance, Counting, PTL DEF Spec, ImplementsLedger, Ledger!Spec
-----------------------------------------------------------------------------
LEMMA StepSettled ==
  ASSUME IInv, NEW w \in Workers, Step(w), NEW a \in Approvals, Settled(a)
  PROVE  Settled(a)' /\ audit'["consume"][a] = audit["consume"][a]
<1>0. /\ approvals \in [Approvals -> Rows]
      /\ audit \in [Events -> [Ids -> Nat]]
      /\ job \in [Workers -> Jobs]
      /\ Approvals \subseteq Ids
      /\ RowConsistent(a)
      /\ JobConsistent(w)
      /\ \A v \in Workers \ {w} : job'[v] = job[v]
  BY StepKeeps DEF IInv, TypeOK, Ids, Kept
<1>1. /\ approvals[a].status = "rejected" \/ approvals[a].consumed
      /\ approvals[a].status \notin {"absent", "pending"}
      /\ \A v \in Workers : job[v].approval = a => job[v].pc \notin {"approve", "consume"}
  BY <1>0 DEF Settled, RowConsistent
<1>2. ASSUME approvals'[a].status = "rejected" \/ approvals'[a].consumed,
             job'[w].approval = a => job'[w].pc \notin {"approve", "consume"}
      PROVE  Settled(a)'
  BY <1>0, <1>1, <1>2 DEF Settled
<1>3. ASSUME UNCHANGED <<approvals, audit>>,
             job'[w].approval = a => job'[w].pc \notin {"approve", "consume"}
      PROVE  Settled(a)' /\ audit'["consume"][a] = audit["consume"][a]
  BY <1>1, <1>2, <1>3
<1>4. ASSUME Finish(w) PROVE job'[w].pc = "idle"
  BY <1>0, <1>4 DEF Finish, NoJob
<1>5. CASE RequestCommit(w)
  <2>1. approvals'[a] = approvals[a] /\ audit'["consume"] = audit["consume"]
    BY <1>0, <1>1, <1>5 DEF RequestCommit, CloseConnection, Logged, Events
  <2> QED
    BY <1>1, <1>2, <1>4, <1>5, <2>1 DEF RequestCommit
<1>6. CASE ReviewCommit(w)
  <2> DEFINE b == job[w].approval
  <2>1. audit'["consume"] = audit["consume"]
    BY <1>0, <1>6 DEF ReviewCommit, CloseConnection, Logged, Events
  <2>2. approvals'[a].status = "rejected" \/ approvals'[a].consumed
    <3>1. CASE a = b
      <4>1. job[w].pc = "reject"
        BY <1>1, <1>6, <3>1 DEF ReviewCommit
      <4> QED
        BY <1>0, <1>6, <3>1, <4>1 DEF ReviewCommit, CloseConnection, Verdict, Rows
    <3>2. CASE a # b
      BY <1>0, <1>1, <1>6, <3>2 DEF ReviewCommit, CloseConnection
    <3> QED
      BY <3>1, <3>2
  <2> QED
    BY <1>2, <1>4, <1>6, <2>1, <2>2 DEF ReviewCommit
<1>7. CASE ConsumeCommit(w)
  <2>1. job[w].approval # a
    BY <1>1, <1>7 DEF ConsumeCommit
  <2>2. approvals'[a] = approvals[a] /\ audit'["consume"][a] = audit["consume"][a]
    BY <1>0, <1>7, <2>1 DEF ConsumeCommit, Logged, Events
  <2>3. job'[w].approval # a
    BY <1>0, <1>7, <2>1 DEF ConsumeCommit, Advance, Jobs
  <2> QED
    BY <1>1, <1>2, <2>2, <2>3
<1>8. CASE ExportCommit(w)
  <2>1. approvals' = approvals /\ audit'["consume"] = audit["consume"]
    BY <1>0, <1>8 DEF ExportCommit, CloseConnection, Logged, Events
  <2>2. job'[w].pc = "respond"
    BY <1>0, <1>8 DEF ExportCommit, Advance, Jobs
  <2> QED
    BY <1>1, <1>2, <2>1, <2>2
<1>9. CASE CheckApproval(w)
  <2>1. job'[w].approval # a
    BY <1>0, <1>1, <1>9 DEF CheckApproval, Available, Advance, Jobs
  <2> QED
    BY <1>3, <1>9, <2>1 DEF CheckApproval
<1>10. ASSUME NEW b, NEW rows, Refuse(w, b, rows)
       PROVE  Settled(a)' /\ audit'["consume"][a] = audit["consume"][a]
  BY <1>3, <1>4, <1>10 DEF Refuse, CloseConnection
<1>11. ASSUME NEW role, NEW t, NEW found, RequestRead(w, role, t, found)
       PROVE  Settled(a)' /\ audit'["consume"][a] = audit["consume"][a]
  BY <1>0, <1>3, <1>11 DEF RequestRead, Serve
<1>12. ASSUME NEW role, NEW b, NEW verdict, ReviewRead(w, role, b, verdict)
       PROVE  Settled(a)' /\ audit'["consume"][a] = audit["consume"][a]
  <2>1. b # a
    BY <1>1, <1>12 DEF ReviewRead
  <2> QED
    BY <1>0, <1>3, <1>12, <2>1 DEF ReviewRead, Serve
<1>13. ASSUME NEW role, NEW t, NEW found, NEW b, ExportRead(w, role, t, b, found)
       PROVE  Settled(a)' /\ audit'["consume"][a] = audit["consume"][a]
  BY <1>0, <1>3, <1>13 DEF ExportRead, Serve
<1>14. CASE Respond(w) \/ Fail(w)
  BY <1>3, <1>4, <1>14 DEF Respond, Fail
<1> QED
  BY <1>5, <1>6, <1>7, <1>8, <1>9, <1>10, <1>11, <1>12, <1>13, <1>14
     DEF Step, RequestBlocked, ExportRefused, ApprovalUnusable

\* An approval that was rejected or used, with nobody between reading and
\* writing its row, is never usable again (review_export_approval,
\* consume_export_approval).
THEOREM SettledForGood == Spec => SettledStays
<1>1. IInv /\ [Next]_vars =>
        [\A a \in Approvals : Settled(a) =>
            Settled(a)' /\ audit'["consume"][a] = audit["consume"][a]]_vars
  <2> SUFFICES ASSUME IInv, [Next]_vars, NEW a \in Approvals, Settled(a)
               PROVE  Settled(a)' /\ audit'["consume"][a] = audit["consume"][a]
    BY DEF vars
  <2>1. ASSUME NEW b \in Approvals, PassDeadline(b)
        PROVE  Settled(a)' /\ audit'["consume"][a] = audit["consume"][a]
    <3>1. /\ approvals'[a].status = approvals[a].status
          /\ approvals'[a].consumed = approvals[a].consumed
      BY <2>1 DEF PassDeadline, IInv, TypeOK, Rows
    <3> QED
      BY <2>1, <3>1 DEF PassDeadline, Settled
  <2>2. CASE UNCHANGED vars
    BY <2>2 DEF vars, Settled
  <2> QED
    BY <2>1, <2>2, StepSettled DEF Next
<1> QED
  BY <1>1, Invariance, PTL DEF Spec, SettledStays
=============================================================================
