-------------------------- MODULE BackupPlanProofs --------------------------
(***************************************************************************)
(* Theorems about BackupPlan for any number of versions, options, backups, *)
(* crashes and restores, and for every retention policy.                   *)
(***************************************************************************)
EXTENDS BackupPlan, SequenceTheorems, FiniteSetTheorems, TLAPS

-----------------------------------------------------------------------------
\* Directories as sequences: what becomes of the groups.

LEMMA SeqFacts ==
  ASSUME NEW S, NEW s \in Seq(S)
  PROVE  /\ Len(s) \in Nat /\ DOMAIN s = 1..Len(s)
         /\ \A i \in DOMAIN s : s[i] \in S
         /\ s # <<>> <=> Len(s) > 0
         /\ Len(s) > 0 => Head(s) = s[1]
BY EmptySeq, LenProperties, ElementOfSeq

LEMMA PushSeq ==
  ASSUME NEW S, NEW s \in Seq(S), NEW g \in S
  PROVE  /\ <<g>> \o s \in Seq(S)
         /\ Len(<<g>> \o s) = Len(s) + 1
         /\ (<<g>> \o s)[1] = g
         /\ \A i \in DOMAIN s : (<<g>> \o s)[i + 1] = s[i]
<1>1. <<g>> \in Seq(S) /\ Len(<<g>>) = 1 /\ <<g>>[1] = g
  OBVIOUS
<1> QED
  BY <1>1, ConcatProperties, SeqFacts

LEMMA TouchSeq ==
  ASSUME NEW S, NEW s \in Seq(S), Len(s) > 0, NEW g \in S
  PROVE  /\ <<g>> \o Tail(s) \in Seq(S)
         /\ Len(<<g>> \o Tail(s)) = Len(s)
         /\ (<<g>> \o Tail(s))[1] = g
         /\ \A i \in DOMAIN s : i # 1 => (<<g>> \o Tail(s))[i] = s[i]
<1>1. /\ Tail(s) \in Seq(S) /\ Len(Tail(s)) = Len(s) - 1
      /\ \A i \in 1..(Len(s) - 1) : Tail(s)[i] = s[i + 1]
  BY SeqFacts, HeadTailProperties
<1>2. /\ <<g>> \o Tail(s) \in Seq(S)
      /\ Len(<<g>> \o Tail(s)) = Len(s)
      /\ (<<g>> \o Tail(s))[1] = g
      /\ \A i \in 1..(Len(s) - 1) : (<<g>> \o Tail(s))[i + 1] = Tail(s)[i]
  BY <1>1, PushSeq, SeqFacts
<1>3. ASSUME NEW i \in DOMAIN s, i # 1
      PROVE  (<<g>> \o Tail(s))[i] = s[i]
  <2>1. i - 1 \in 1..(Len(s) - 1) /\ (i - 1) + 1 = i
    BY <1>3, SeqFacts
  <2> QED
    BY <1>1, <1>2, <2>1
<1> QED
  BY <1>2, <1>3

Cutting(s, i) == SubSeq(s, 1, i - 1) \o SubSeq(s, i + 1, Len(s))

LEMMA CutSeq ==
  ASSUME NEW S, NEW s \in Seq(S), NEW i \in DOMAIN s
  PROVE  /\ Cutting(s, i) \in Seq(S)
         /\ Len(Cutting(s, i)) = Len(s) - 1
         /\ \A k \in 1..(Len(s) - 1) : Cutting(s, i)[k] = IF k < i THEN s[k] ELSE s[k + 1]
<1>1. Len(s) \in Nat /\ i \in 1..Len(s) /\ \A k \in 1..Len(s) : s[k] \in S
  BY SeqFacts
<1> DEFINE a == SubSeq(s, 1, i - 1)
           b == SubSeq(s, i + 1, Len(s))
<1>2. /\ a \in Seq(S) /\ Len(a) = i - 1
      /\ \A k \in 1..(i - 1) : a[k] = s[k]
  BY <1>1, SubSeqProperties
<1>3. /\ b \in Seq(S) /\ Len(b) = Len(s) - i
      /\ \A k \in 1..(Len(s) - i) : b[k] = s[k + i]
  BY <1>1, SubSeqProperties
<1> HIDE DEF a, b
<1>4. /\ a \o b \in Seq(S) /\ Len(a \o b) = Len(s) - 1
      /\ \A k \in 1..(Len(s) - 1) : (a \o b)[k] = IF k <= i - 1 THEN a[k] ELSE b[k - (i - 1)]
  <2>1. /\ a \o b \in Seq(S)
        /\ Len(a \o b) = Len(a) + Len(b)
        /\ \A k \in 1..(Len(a) + Len(b)) :
              (a \o b)[k] = IF k <= Len(a) THEN a[k] ELSE b[k - Len(a)]
    BY <1>2, <1>3, ConcatProperties
  <2>2. Len(a) + Len(b) = Len(s) - 1
    BY <1>1, <1>2, <1>3
  <2> QED
    BY <1>2, <2>1, <2>2
<1>5. ASSUME NEW k \in 1..(Len(s) - 1)
      PROVE  (a \o b)[k] = IF k < i THEN s[k] ELSE s[k + 1]
  <2>1. CASE k < i
    BY <1>1, <1>2, <1>4, <2>1
  <2>2. CASE ~(k < i)
    <3>1. /\ ~(k <= i - 1)
          /\ k - (i - 1) \in 1..(Len(s) - i)
          /\ (k - (i - 1)) + i = k + 1
      BY <1>1, <2>2
    <3> QED
      BY <1>3, <1>4, <2>2, <3>1
  <2> QED
    BY <2>1, <2>2
<1> QED
  BY <1>4, <1>5 DEF Cutting, a, b

-----------------------------------------------------------------------------
\* How many plaintexts are left that were to go.

Temps(s) == {i \in DOMAIN s : s[i].kind = "temporary"}
One(kind) == IF kind = "temporary" THEN 1 ELSE 0

LEMMA TempsFinite ==
  ASSUME NEW s \in Seq(Groups)
  PROVE  IsFiniteSet(Temps(s)) /\ Cardinality(Temps(s)) \in Nat
<1>1. IsFiniteSet(DOMAIN s)
  BY SeqFacts, FS_Interval
<1> QED
  BY <1>1, FS_Subset, FS_CardinalityType DEF Temps

\* A push counts its own kind.
LEMMA PushTemps ==
  ASSUME NEW s \in Seq(Groups), NEW g \in Groups
  PROVE  Cardinality(Temps(<<g>> \o s)) <= Cardinality(Temps(s)) + One(g.kind)
<1> DEFINE t == <<g>> \o s
           f == [i \in Temps(t) \ {1} |-> i - 1]
<1>1. /\ t \in Seq(Groups) /\ Len(t) = Len(s) + 1 /\ t[1] = g
      /\ \A i \in DOMAIN s : t[i + 1] = s[i]
  BY PushSeq
<1>2. /\ DOMAIN t = 1..Len(t) /\ DOMAIN s = 1..Len(s) /\ Len(s) \in Nat
  BY <1>1, SeqFacts
<1> HIDE DEF t
<1>3. ASSUME NEW i \in Temps(t) \ {1}
      PROVE  i \in Int /\ i - 1 \in Temps(s)
  <2>1. i \in Int /\ i - 1 \in DOMAIN s /\ (i - 1) + 1 = i
    BY <1>1, <1>2 DEF Temps
  <2>2. t[i] = s[i - 1]
    BY <1>1, <2>1
  <2> QED
    BY <2>1, <2>2 DEF Temps
<1>4. f \in Injection(Temps(t) \ {1}, Temps(s))
  BY <1>3 DEF Injection, IsInjective
<1> HIDE DEF f
<1>5. /\ Cardinality(Temps(t) \ {1}) <= Cardinality(Temps(s))
      /\ IsFiniteSet(Temps(t)) /\ Cardinality(Temps(t)) \in Nat /\ Cardinality(Temps(s)) \in Nat
  BY <1>1, <1>4, FS_Injection, TempsFinite
<1>6. Cardinality(Temps(t) \ {1}) = IF 1 \in Temps(t) THEN Cardinality(Temps(t)) - 1 ELSE Cardinality(Temps(t))
  BY <1>5, FS_RemoveElement
<1>7. 1 \in Temps(t) => One(g.kind) = 1
  BY <1>1 DEF Temps, One
<1>8. One(g.kind) \in {0, 1}
  BY DEF One
<1> QED
  BY <1>5, <1>6, <1>7, <1>8 DEF t

\* A removal counts what it removes.
LEMMA CutTemps ==
  ASSUME NEW s \in Seq(Groups), NEW i \in DOMAIN s
  PROVE  Cardinality(Temps(Cutting(s, i))) <= Cardinality(Temps(s)) - One(s[i].kind)
<1> DEFINE t == Cutting(s, i)
           f == [k \in Temps(t) |-> IF k < i THEN k ELSE k + 1]
<1>1. /\ t \in Seq(Groups) /\ Len(t) = Len(s) - 1
      /\ \A k \in 1..(Len(s) - 1) : t[k] = IF k < i THEN s[k] ELSE s[k + 1]
  BY CutSeq
<1>2. /\ DOMAIN t = 1..Len(t) /\ DOMAIN s = 1..Len(s) /\ Len(s) \in Nat
  BY <1>1, SeqFacts
<1> HIDE DEF t
<1>3. ASSUME NEW k \in Temps(t)
      PROVE  k \in Int /\ f[k] \in Temps(s) \ {i}
  <2>1. k \in 1..(Len(s) - 1)
    BY <1>1, <1>2 DEF Temps
  <2>2. t[k] = (IF k < i THEN s[k] ELSE s[k + 1]) /\ t[k].kind = "temporary"
    BY <1>1, <2>1 DEF Temps
  <2> QED
    BY <1>2, <2>1, <2>2 DEF Temps
<1>4. f \in Injection(Temps(t), Temps(s) \ {i})
  BY <1>2, <1>3 DEF Injection, IsInjective
<1> HIDE DEF f
<1>5. IsFiniteSet(Temps(s)) /\ Cardinality(Temps(s)) \in Nat
  BY TempsFinite
<1>6. /\ IsFiniteSet(Temps(s) \ {i})
      /\ Cardinality(Temps(s) \ {i}) =
           IF i \in Temps(s) THEN Cardinality(Temps(s)) - 1 ELSE Cardinality(Temps(s))
  BY <1>5, FS_RemoveElement
<1>7. Cardinality(Temps(t)) <= Cardinality(Temps(s) \ {i})
  BY <1>4, <1>6, FS_Injection
<1>8. One(s[i].kind) = IF i \in Temps(s) THEN 1 ELSE 0
  BY DEF One, Temps
<1>9. Cardinality(Temps(t)) \in Nat
  BY <1>1, TempsFinite
<1> QED
  BY <1>5, <1>6, <1>7, <1>8, <1>9 DEF t

\* What keeps the kinds keeps the count.
LEMMA SameTemps ==
  ASSUME NEW s, NEW t, DOMAIN t = DOMAIN s, \A i \in DOMAIN s : t[i].kind = s[i].kind
  PROVE  Temps(t) = Temps(s)
BY DEF Temps

-----------------------------------------------------------------------------
\* The inductive invariant.

Here == files["local"]
There == files["offsite"]

Writing == {"copy", "checksum", "encrypt", "seal", "manifest", "unlink", "unlinkSidecar",
            "offsite", "send", "drill"}
Pruning == {"retain", "sweep", "sweepSidecars"}
Sweeping == {"sweep", "sweepSidecars"}

\* Only the restore at work wants a file, and one only.
Marked ==
    \A d \in Dirs :
        /\ restore.pc = "idle" \/ d # restore.dir => Wanted(d) = {}
        /\ \A i, k \in Wanted(d) : i = k

\* Nobody else writes to the database while a restore is at work.
Undo == restore.pc # "idle" /\ ~restore.written => live = restore.saved

FirstKind == IF job.options.encrypted /\ ~job.options.keep_plaintext THEN "temporary" ELSE "plain"

\* What the command at work has put on top.
Stage ==
    /\ job.pc \in Writing => Len(Here) >= 1 /\ ~Here[1].old /\ job.dir = "local"
    /\ job.pc \in {"copy", "checksum", "encrypt"} => Here[1].kind = FirstKind
    /\ job.pc = "copy" => Here[1].content = Empty
    /\ job.pc = "encrypt" => Here[1].sidecars
    /\ job.pc = "seal" => Here[1].content = Cut
    /\ job.pc \in {"seal", "manifest", "unlink"} =>
        Len(Here) >= 2 /\ Here[1].kind = "enc" /\ Here[2].kind = FirstKind /\ Here[2].sidecars
    /\ job.pc \in {"manifest", "unlink"} => Here[1].content = Here[2].content
    /\ job.pc \in {"unlinkSidecar", "offsite", "send", "drill"} => Here[1].kind # "temporary"
    /\ job.pc \in {"encrypt", "seal", "manifest", "unlink", "unlinkSidecar"} => job.options.encrypted
    /\ job.pc \in {"unlink", "unlinkSidecar"} => ~job.options.keep_plaintext
    /\ job.pc \in {"offsite", "send"} => job.options.offsite
    /\ job.pc = "send" \/ (job.pc = "drill" /\ job.options.offsite) =>
        Len(There) >= 1 /\ ~There[1].old
    /\ job.pc = "send" => There[1].content = Cut
    /\ job.pc = "drill" /\ job.options.offsite => There[1].content = Here[1].content
    /\ job.pc = "unlinkSidecar" => orphans["local"] >= 1
    /\ job.pc = "sweepSidecars" => orphans[job.dir] >= 1

\* The one that the command at work is to remove itself.
Owed(d) ==
    IF \/ /\ d = "local" /\ FirstKind = "temporary"
          /\ job.pc \in {"copy", "checksum", "encrypt", "seal", "manifest", "unlink", "unlinkSidecar"}
       \/ d = job.dir /\ job.pc = "sweepSidecars"
    THEN 1 ELSE 0

Leftovers == \A d \in Dirs : Cardinality(Temps(files[d])) + orphans[d] <= Owed(d) + spoiled

InPlan(d) ==
    /\ job.pc \in Pruning /\ job.options.command = "plan" /\ job.options.drill
    /\ d = "local" \/ job.options.offsite
Pending(d) == IF job.pc = "retain" THEN d = job.dir \/ d = "offsite" ELSE d = "offsite" /\ d # job.dir

Restores(d, i) == i \in DOMAIN files[d] /\ files[d][i].content \in Healthy

\* What the plan has drilled stays among the files that it keeps.
PlanHeld ==
    \A d \in Dirs : InPlan(d) =>
        /\ Pending(d) => \E i \in 1..(1 + spoiled) :
                            Restores(d, i) /\ \A k \in 1..i : ~files[d][k].old
        /\ ~Pending(d) /\ (KeepLatest[d] > spoiled \/ AgeLimited) =>
            \E i \in Nat : Restores(d, i) /\ (d = job.dir => i <= job.kept)

\* A run that copied a database which does not restore, and how many files it
\* has yet to put before a good one, or has put there.
RunContent == IF job.pc = "seal" THEN Here[2].content ELSE Here[1].content
BadRun == job.pc \in Writing \ {"copy"} /\ RunContent \notin Healthy
Slack(d) ==
    IF d = "local"
    THEN IF BadRun THEN IF job.pc \in {"checksum", "encrypt"} THEN -1 ELSE 0
         ELSE IF job.pc \in {"copy", "seal"} THEN 1 ELSE 0
    ELSE IF BadRun THEN IF job.pc = "drill" THEN 0 ELSE IF job.pc = "send" THEN -1 ELSE -2
         ELSE IF job.pc = "send" THEN 1 ELSE 0

\* Two files per spoiled run may have come before the latest that restores.
Within ==
    \A d \in proven : 2 * spoiled < KeepLatest[d] =>
        \E i \in Nat :
            /\ Restores(d, i)
            /\ i <= 1 + 2 * spoiled + Slack(d)
            /\ job.pc \in Sweeping /\ d = job.dir => i <= job.kept

Work == Stage /\ Leftovers /\ PlanHeld /\ Within

IInv == TypeOK /\ Marked /\ Undo /\ Work

-----------------------------------------------------------------------------
\* What a step does to the files.

Jobs == [pc : Pcs \cup {"idle"}, options : Options \cup {Prune}, dir : Dirs, kept : Nat]

LEMMA Shapes ==
  ASSUME IInv
  PROVE  /\ files \in [Dirs -> Seq(Groups)] /\ orphans \in [Dirs -> Nat] /\ job \in Jobs
         /\ spoiled \in 0..MaxSpoiled /\ MaxSpoiled \in Nat /\ spoiled \in Nat
         /\ live \in Contents /\ proven \subseteq Dirs
         /\ \A d \in Dirs :
              /\ Len(files[d]) \in Nat /\ DOMAIN files[d] = 1..Len(files[d])
              /\ \A i \in DOMAIN files[d] : files[d][i] \in Groups
              /\ Cardinality(Temps(files[d])) \in Nat
<1>1. files \in [Dirs -> Seq(Groups)]
  BY DEF IInv, TypeOK
<1>2. \A d \in Dirs : files[d] \in Seq(Groups)
  BY <1>1
<1> QED
  BY <1>1, <1>2, SeqFacts, TempsFinite, BackupAssumption DEF IInv, TypeOK, Jobs

LEMMA PushFiles ==
  ASSUME IInv, NEW d \in Dirs, NEW g \in Groups, ~g.wanted, Push(d, g)
  PROVE  /\ files' \in [Dirs -> Seq(Groups)]
         /\ \A e \in Dirs \ {d} : files'[e] = files[e]
         /\ Len(files'[d]) = Len(files[d]) + 1
         /\ files'[d][1] = g
         /\ \A i \in DOMAIN files[d] : i + 1 \in DOMAIN files'[d] /\ files'[d][i + 1] = files[d][i]
         /\ Cardinality(Temps(files'[d])) <= Cardinality(Temps(files[d])) + One(g.kind)
         /\ Cardinality(Temps(files'[d])) \in Nat
         /\ restore' = restore => Marked'
<1>1. files \in [Dirs -> Seq(Groups)] /\ files[d] \in Seq(Groups)
  BY Shapes
<1>2. files' = [files EXCEPT ![d] = <<g>> \o files[d]]
  BY DEF Push
<1>3. files'[d] = <<g>> \o files[d] /\ \A e \in Dirs \ {d} : files'[e] = files[e]
  BY <1>1, <1>2
<1>4. /\ files'[d] \in Seq(Groups) /\ Len(files'[d]) = Len(files[d]) + 1 /\ files'[d][1] = g
      /\ \A i \in DOMAIN files[d] : files'[d][i + 1] = files[d][i]
      /\ Cardinality(Temps(files'[d])) <= Cardinality(Temps(files[d])) + One(g.kind)
  BY <1>1, <1>3, PushSeq, PushTemps
<1>5. files' \in [Dirs -> Seq(Groups)]
  BY <1>1, <1>2, <1>4
<1>6. DOMAIN files'[d] = 1..(Len(files[d]) + 1) /\ DOMAIN files[d] = 1..Len(files[d]) /\ Len(files[d]) \in Nat
  BY <1>1, <1>4, SeqFacts
<1>7. \A i \in DOMAIN files[d] : i + 1 \in DOMAIN files'[d]
  BY <1>6
<1>8. ASSUME NEW i \in DOMAIN files'[d], files'[d][i].wanted
      PROVE  i \in Int /\ i - 1 \in Wanted(d)
  <2>1. i # 1 /\ i - 1 \in DOMAIN files[d] /\ (i - 1) + 1 = i
    BY <1>4, <1>6, <1>8
  <2>2. files'[d][i] = files[d][i - 1]
    BY <1>4, <2>1
  <2> QED
    BY <1>6, <1>8, <2>1, <2>2 DEF Wanted
<1>9. ASSUME restore' = restore PROVE Marked'
  <2> SUFFICES ASSUME NEW e \in Dirs
               PROVE  /\ restore'.pc = "idle" \/ e # restore'.dir => Wanted(e)' = {}
                      /\ \A i, k \in Wanted(e)' : i = k
    BY DEF Marked
  <2>1. /\ restore.pc = "idle" \/ e # restore.dir => Wanted(e) = {}
        /\ \A i, k \in Wanted(e) : i = k
    BY DEF IInv, Marked
  <2>2. CASE e # d
    BY <1>3, <1>9, <2>1, <2>2 DEF Wanted
  <2>3. CASE e = d
    <3>1. \A i \in Wanted(e)' : i \in Int /\ i - 1 \in Wanted(e)
      BY <1>8, <2>3 DEF Wanted
    <3> QED
      BY <1>9, <2>1, <3>1
  <2> QED
    BY <2>2, <2>3
<1>10. Cardinality(Temps(files'[d])) \in Nat
  BY <1>4, TempsFinite
<1> QED
  BY <1>3, <1>4, <1>5, <1>7, <1>9, <1>10

LEMMA TouchFiles ==
  ASSUME IInv, NEW d \in Dirs, Len(files[d]) >= 1, NEW content \in Contents,
         NEW sidecars \in BOOLEAN, Touch(d, content, sidecars)
  PROVE  /\ files' \in [Dirs -> Seq(Groups)]
         /\ \A e \in Dirs \ {d} : files'[e] = files[e]
         /\ Len(files'[d]) = Len(files[d]) /\ DOMAIN files'[d] = DOMAIN files[d]
         /\ files'[d][1].content = content /\ files'[d][1].sidecars = sidecars
         /\ files'[d][1].kind = files[d][1].kind /\ files'[d][1].old = files[d][1].old
         /\ \A i \in DOMAIN files[d] : i # 1 => files'[d][i] = files[d][i]
         /\ Temps(files'[d]) = Temps(files[d])
         /\ restore' = restore => Marked'
<1>1. /\ files \in [Dirs -> Seq(Groups)] /\ files[d] \in Seq(Groups)
      /\ Head(files[d]) = files[d][1] /\ files[d][1] \in Groups
      /\ DOMAIN files[d] = 1..Len(files[d]) /\ Len(files[d]) \in Nat
  BY Shapes, SeqFacts
<1> DEFINE g == [files[d][1] EXCEPT !.content = content, !.sidecars = sidecars]
<1>2. /\ g \in Groups /\ g.content = content /\ g.sidecars = sidecars
      /\ g.kind = files[d][1].kind /\ g.old = files[d][1].old /\ g.wanted = files[d][1].wanted
  BY <1>1 DEF Groups
<1>3. files' = [files EXCEPT ![d] = <<g>> \o Tail(files[d])]
  BY <1>1 DEF Touch
<1> HIDE DEF g
<1>4. files'[d] = <<g>> \o Tail(files[d]) /\ \A e \in Dirs \ {d} : files'[e] = files[e]
  BY <1>1, <1>3
<1>5. /\ files'[d] \in Seq(Groups) /\ Len(files'[d]) = Len(files[d]) /\ files'[d][1] = g
      /\ \A i \in DOMAIN files[d] : i # 1 => files'[d][i] = files[d][i]
  BY <1>1, <1>2, <1>4, TouchSeq
<1>6. files' \in [Dirs -> Seq(Groups)]
  BY <1>1, <1>3, <1>4, <1>5
<1>7. DOMAIN files'[d] = DOMAIN files[d]
  BY <1>1, <1>5, SeqFacts
<1>8. \A i \in DOMAIN files[d] : files'[d][i].kind = files[d][i].kind /\ files'[d][i].wanted = files[d][i].wanted
  BY <1>2, <1>5
<1>9. \A e \in Dirs : Wanted(e)' = Wanted(e)
  BY <1>4, <1>7, <1>8 DEF Wanted
<1>10. restore' = restore => Marked'
  BY <1>9 DEF IInv, Marked
<1> QED
  BY <1>2, <1>4, <1>5, <1>6, <1>7, <1>8, <1>10, SameTemps

LEMMA CutFiles ==
  ASSUME IInv, NEW d \in Dirs, NEW i \in DOMAIN files[d], NEW pc \in Pcs, UnlinkPrimary(d, i, pc)
  PROVE  /\ files' \in [Dirs -> Seq(Groups)]
         /\ \A e \in Dirs \ {d} : files'[e] = files[e]
         /\ Len(files'[d]) = Len(files[d]) - 1
         /\ \A k \in DOMAIN files[d] : k < i => k \in DOMAIN files'[d] /\ files'[d][k] = files[d][k]
         /\ \A k \in DOMAIN files[d] : k > i => k - 1 \in DOMAIN files'[d] /\ files'[d][k - 1] = files[d][k]
         /\ Cardinality(Temps(files'[d])) <= Cardinality(Temps(files[d])) - One(files[d][i].kind)
         /\ Cardinality(Temps(files'[d])) \in Nat
         /\ restore' = restore => Marked'
<1>1. /\ files \in [Dirs -> Seq(Groups)] /\ files[d] \in Seq(Groups)
      /\ DOMAIN files[d] = 1..Len(files[d]) /\ Len(files[d]) \in Nat
  BY Shapes
<1>2. files' = [files EXCEPT ![d] = Cutting(files[d], i)]
  BY DEF UnlinkPrimary, Without, Cutting
<1>3. files'[d] = Cutting(files[d], i) /\ \A e \in Dirs \ {d} : files'[e] = files[e]
  BY <1>1, <1>2
<1>4. /\ files'[d] \in Seq(Groups) /\ Len(files'[d]) = Len(files[d]) - 1
      /\ \A k \in 1..(Len(files[d]) - 1) : files'[d][k] = IF k < i THEN files[d][k] ELSE files[d][k + 1]
      /\ Cardinality(Temps(files'[d])) <= Cardinality(Temps(files[d])) - One(files[d][i].kind)
      /\ Cardinality(Temps(files'[d])) \in Nat
  BY <1>1, <1>3, CutSeq, CutTemps, TempsFinite
<1>5. files' \in [Dirs -> Seq(Groups)]
  BY <1>1, <1>2, <1>3, <1>4
<1>6. DOMAIN files'[d] = 1..(Len(files[d]) - 1)
  BY <1>4, SeqFacts
<1>7. ASSUME NEW k \in DOMAIN files[d], k < i
      PROVE  k \in DOMAIN files'[d] /\ files'[d][k] = files[d][k]
  <2>1. k \in 1..(Len(files[d]) - 1)
    BY <1>1, <1>7
  <2> QED
    BY <1>4, <1>6, <1>7, <2>1
<1>8. ASSUME NEW k \in DOMAIN files[d], k > i
      PROVE  k - 1 \in DOMAIN files'[d] /\ files'[d][k - 1] = files[d][k]
  <2>1. k - 1 \in 1..(Len(files[d]) - 1) /\ (k - 1) + 1 = k /\ ~(k - 1 < i)
    BY <1>1, <1>8
  <2> QED
    BY <1>4, <1>6, <2>1
<1> DEFINE from(k) == IF k < i THEN k ELSE k + 1
<1>9. \A k \in Wanted(d)' : k \in 1..(Len(files[d]) - 1) /\ from(k) \in Wanted(d)
  <2> SUFFICES ASSUME NEW k \in Wanted(d)'
               PROVE  k \in 1..(Len(files[d]) - 1) /\ from(k) \in Wanted(d)
    OBVIOUS
  <2>1. k \in 1..(Len(files[d]) - 1) /\ files'[d][k].wanted
    BY <1>6 DEF Wanted
  <2>2. from(k) \in DOMAIN files[d]
    BY <1>1, <2>1
  <2>3. files'[d][k] = files[d][from(k)]
    BY <1>4, <2>1
  <2> QED
    BY <2>1, <2>2, <2>3 DEF Wanted
<1>10. ASSUME restore' = restore PROVE Marked'
  <2> SUFFICES ASSUME NEW e \in Dirs
               PROVE  /\ restore'.pc = "idle" \/ e # restore'.dir => Wanted(e)' = {}
                      /\ \A j, k \in Wanted(e)' : j = k
    BY DEF Marked
  <2>1. /\ restore.pc = "idle" \/ e # restore.dir => Wanted(e) = {}
        /\ \A j, k \in Wanted(e) : j = k
    BY DEF IInv, Marked
  <2>2. CASE e # d
    BY <1>3, <1>10, <2>1, <2>2 DEF Wanted
  <2>3. CASE e = d
    <3>1. ASSUME NEW j \in Wanted(e)', NEW k \in Wanted(e)' PROVE j = k
      <4>1. from(j) = from(k) /\ j \in Int /\ k \in Int
        BY <1>9, <2>1, <2>3
      <4> QED
        BY <1>1, <4>1
    <3> QED
      BY <1>9, <1>10, <2>1, <2>3, <3>1
  <2> QED
    BY <2>2, <2>3
<1> QED
  BY <1>3, <1>4, <1>5, <1>7, <1>8, <1>10

-----------------------------------------------------------------------------
\* What a step does to the command at work.

LEMMA OptionShape ==
  ASSUME NEW o \in Options \cup {Prune}
  PROVE  o \in [command : {"backup", "plan", "prune"}, encrypted : BOOLEAN,
                keep_plaintext : BOOLEAN, offsite : BOOLEAN, drill : BOOLEAN]
<1>1. CASE o \in Options
  <2>1. o \in [command : {"backup", "plan"}, encrypted : BOOLEAN,
               keep_plaintext : BOOLEAN, offsite : BOOLEAN, drill : BOOLEAN]
    BY <1>1, BackupAssumption
  <2> QED
    BY <2>1
<1>2. CASE o = Prune
  BY <1>2 DEF Prune
<1> QED
  BY <1>1, <1>2

LEMMA AfterShape ==
  ASSUME NEW o \in Options \cup {Prune}
  PROVE  /\ AfterBackup(o) \in {"offsite", "idle", "drill", "retain"}
         /\ AfterBackup(o) = "offsite" <=> o.offsite
         /\ AfterBackup(o) = "retain" => ~o.drill
         /\ AfterCopies(o) \in {"idle", "drill", "retain"}
         /\ AfterCopies(o) = "retain" => ~o.drill
<1>1. o.offsite \in BOOLEAN /\ o.drill \in BOOLEAN
  BY OptionShape
<1> DEFINE kept == [o EXCEPT !.offsite = FALSE]
<1>2. kept.offsite = FALSE /\ kept.command = o.command /\ kept.drill = o.drill
  BY OptionShape
<1>3. AfterCopies(o) = AfterBackup(kept)
  BY DEF AfterCopies
<1> HIDE DEF kept
<1> QED
  BY <1>1, <1>2, <1>3 DEF AfterBackup

LEMMA GotoShape ==
  ASSUME IInv, NEW pc \in Pcs \cup {"idle"}, Goto(pc)
  PROVE  /\ job' \in Jobs /\ job'.pc = pc
         /\ job'.options = job.options /\ job'.dir = job.dir /\ job'.kept = job.kept
BY Shapes DEF Goto, Jobs

LEMMA FinishShape ==
  ASSUME IInv, NEW pc \in Pcs \cup {"idle"}, Finish(pc)
  PROVE  /\ job' \in Jobs /\ job'.pc = pc
         /\ pc # "idle" => job'.options = job.options /\ job'.dir = job.dir /\ job'.kept = job.kept
<1>1. CASE pc = "idle"
  BY <1>1 DEF Finish, NoJob, Jobs, Dirs
<1>2. CASE pc # "idle"
  BY <1>2, GotoShape DEF Finish
<1> QED
  BY <1>1, <1>2

\* A step of the command: the restore and the program stand still.
LEMMA JobStepKeeps ==
  ASSUME IInv, UNCHANGED <<live, restore, temps, restores>>,
         files' \in [Dirs -> Seq(Groups)], orphans' \in [Dirs -> Nat], job' \in Jobs,
         spoiled' \in 0..MaxSpoiled, proven' \subseteq Dirs, Marked', Work'
  PROVE  IInv'
<1>1. TypeOK'
  BY DEF IInv, TypeOK, Jobs
<1>2. Undo'
  BY DEF IInv, Undo
<1> QED
  BY <1>1, <1>2 DEF IInv

\* While a backup is written, every good file has its successor.
LEMMA WritingWithin ==
  ASSUME IInv, proven' = proven, spoiled' \in Nat, spoiled <= spoiled', job'.pc \notin Sweeping,
         \A d \in Dirs : \A i \in Nat :
            Restores(d, i) /\ i <= 1 + 2 * spoiled + Slack(d) =>
                \E k \in Nat : Restores(d, k)' /\ k <= 1 + 2 * spoiled' + Slack(d)'
  PROVE  Within'
<1> SUFFICES ASSUME NEW d \in proven', 2 * spoiled' < KeepLatest[d]
             PROVE  \E k \in Nat : Restores(d, k)' /\ k <= 1 + 2 * spoiled' + Slack(d)'
  BY DEF Within
<1>1. d \in Dirs /\ d \in proven /\ KeepLatest[d] \in Nat /\ spoiled \in Nat
  BY Shapes, BackupAssumption
<1>2. 2 * spoiled < KeepLatest[d]
  BY <1>1
<1>3. \E i \in Nat : Restores(d, i) /\ i <= 1 + 2 * spoiled + Slack(d)
  BY <1>1, <1>2 DEF IInv, Work, Within
<1> QED
  BY <1>1, <1>3

LEMMA NotPruning ==
  ASSUME job'.pc \notin Pruning \/ job'.options.command = "prune" \/ ~job'.options.drill
  PROVE  PlanHeld'
BY DEF PlanHeld, InPlan

-----------------------------------------------------------------------------
\* The backup is written.

LEMMA StartKeeps ==
  ASSUME IInv, NEW o \in Options, Start(o)
  PROVE  IInv'
<1> DEFINE g == NewGroup(IF o.encrypted /\ ~o.keep_plaintext THEN "temporary" ELSE "plain", Empty)
           begun == [NoJob EXCEPT !.pc = "copy", !.options = o]
<1>1. /\ job.pc = "idle" /\ Push("local", g) /\ job' = begun
      /\ UNCHANGED <<live, orphans, spoiled, restore, temps, restores, proven>>
  BY DEF Start, other
<1>2. /\ g \in Groups /\ ~g.wanted /\ ~g.old /\ g.content = Empty
      /\ g.kind = IF o.encrypted /\ ~o.keep_plaintext THEN "temporary" ELSE "plain"
  BY BackupAssumption DEF NewGroup, Groups, Contents
<1>3. begun \in Jobs /\ begun.pc = "copy" /\ begun.options = o /\ begun.dir = "local"
  BY DEF NoJob, Jobs, Pcs, Dirs
<1> HIDE DEF g, begun
<1>4. /\ files' \in [Dirs -> Seq(Groups)] /\ files'["offsite"] = files["offsite"]
      /\ Len(files'["local"]) = Len(files["local"]) + 1 /\ files'["local"][1] = g
      /\ \A i \in DOMAIN files["local"] :
            i + 1 \in DOMAIN files'["local"] /\ files'["local"][i + 1] = files["local"][i]
      /\ Cardinality(Temps(files'["local"])) <= Cardinality(Temps(files["local"])) + One(g.kind)
      /\ Cardinality(Temps(files'["local"])) \in Nat
      /\ Marked'
  BY <1>1, <1>2, PushFiles DEF Dirs
<1>5. Stage'
  BY <1>1, <1>2, <1>3, <1>4, Shapes DEF Stage, Here, FirstKind, Dirs
<1>6. Leftovers'
  BY <1>1, <1>2, <1>3, <1>4, Shapes DEF IInv, Work, Leftovers, Owed, One, FirstKind, Dirs
<1>7. Within'
  <2>1. /\ \A d \in Dirs : Slack(d) = 0
        /\ Slack("local")' = 1 /\ Slack("offsite")' = 0
    BY <1>1, <1>3 DEF Slack, BadRun, Writing
  <2>2. ASSUME NEW i \in Nat, Restores("local", i) PROVE i + 1 \in Nat /\ Restores("local", i + 1)'
    BY <1>4, <2>2 DEF Restores
  <2>3. ASSUME NEW i \in Nat, Restores("offsite", i) PROVE Restores("offsite", i)'
    BY <1>4, <2>3 DEF Restores
  <2> QED
    BY <1>1, <1>3, <2>1, <2>2, <2>3, Shapes, WritingWithin DEF Dirs, Sweeping
<1> QED
  BY <1>1, <1>3, <1>4, <1>5, <1>6, <1>7, Shapes, NotPruning, JobStepKeeps DEF Work, Pruning

LEMMA CopyKeeps ==
  ASSUME IInv, Copy
  PROVE  IInv'
<1>1. /\ job.pc = "copy" /\ Touch("local", live, FALSE) /\ Goto("checksum")
      /\ spoiled' = IF live \in Healthy THEN spoiled ELSE spoiled + 1
      /\ live \notin Healthy => spoiled < MaxSpoiled
      /\ UNCHANGED <<live, orphans, restore, temps, restores, proven>>
  BY DEF Copy, other
<1>2. Len(files["local"]) >= 1 /\ files["local"][1].content = Empty
  BY <1>1 DEF IInv, Work, Stage, Here, Writing
<1>3. /\ files' \in [Dirs -> Seq(Groups)] /\ files'["offsite"] = files["offsite"]
      /\ Len(files'["local"]) = Len(files["local"]) /\ DOMAIN files'["local"] = DOMAIN files["local"]
      /\ files'["local"][1].content = live
      /\ files'["local"][1].kind = files["local"][1].kind /\ files'["local"][1].old = files["local"][1].old
      /\ \A i \in DOMAIN files["local"] : i # 1 => files'["local"][i] = files["local"][i]
      /\ Temps(files'["local"]) = Temps(files["local"])
      /\ Marked'
  BY <1>1, <1>2, Shapes, TouchFiles DEF Dirs
<1>4. /\ job' \in Jobs /\ job'.pc = "checksum"
      /\ job'.options = job.options /\ job'.dir = job.dir
  BY <1>1, GotoShape DEF Pcs
<1>5. Stage'
  BY <1>1, <1>2, <1>3, <1>4 DEF IInv, Work, Stage, Here, There, FirstKind, Writing
<1>6. spoiled' \in 0..MaxSpoiled /\ spoiled <= spoiled'
  BY <1>1, Shapes
<1>7. Leftovers'
  BY <1>1, <1>3, <1>4, <1>6, Shapes DEF IInv, Work, Leftovers, Owed, FirstKind, Dirs
<1>8. Within'
  <2>1. Slack("local") = 1 /\ Slack("offsite") = 0
    BY <1>1 DEF Slack, BadRun, Writing
  <2>2. ASSUME NEW i \in Nat, Restores("offsite", i) PROVE Restores("offsite", i)'
    BY <1>3, <2>2 DEF Restores
  <2>3. ASSUME NEW i \in Nat, Restores("local", i) PROVE Restores("local", i)'
    BY <1>2, <1>3, <2>3, BackupAssumption DEF Restores
  <2>4. CASE live \in Healthy
    <3>1. Slack("local")' = 0 /\ Slack("offsite")' = 0
      BY <1>3, <1>4, <2>4 DEF Slack, BadRun, RunContent, Here
    <3>2. Restores("local", 1)'
      BY <1>2, <1>3, <2>4, Shapes DEF Restores, Dirs
    <3> QED
      BY <1>1, <1>4, <1>6, <2>1, <2>2, <2>4, <3>1, <3>2, Shapes, WritingWithin DEF Dirs, Sweeping
  <2>5. CASE live \notin Healthy
    <3>1. Slack("local")' = -1 /\ Slack("offsite")' = -2
      BY <1>3, <1>4, <2>5 DEF Slack, BadRun, RunContent, Here, Writing
    <3>2. spoiled' = spoiled + 1
      BY <1>1, <2>5
    <3> QED
      BY <1>1, <1>4, <1>6, <2>1, <2>2, <2>3, <3>1, <3>2, Shapes, WritingWithin DEF Dirs, Sweeping
  <2> QED
    BY <2>4, <2>5
<1> QED
  BY <1>1, <1>3, <1>4, <1>5, <1>6, <1>7, <1>8, Shapes, NotPruning, JobStepKeeps DEF Work, Pruning

LEMMA ChecksumKeeps ==
  ASSUME IInv, Checksum
  PROVE  IInv'
<1> DEFINE next == IF job.options.encrypted THEN "encrypt" ELSE AfterBackup(job.options)
<1>1. /\ job.pc = "checksum" /\ Touch("local", files["local"][1].content, TRUE) /\ Finish(next)
      /\ UNCHANGED <<live, orphans, spoiled, restore, temps, restores, proven>>
  <2>1. Head(files["local"]) = files["local"][1]
    BY Shapes, SeqFacts DEF Checksum, Dirs, IInv, Work, Stage, Here, Writing
  <2> QED
    BY <2>1 DEF Checksum, Newest, other
<1>2. /\ Len(files["local"]) >= 1 /\ files["local"][1] \in Groups
      /\ files["local"][1].content \in Contents
  <2>1. Len(files["local"]) >= 1
    BY <1>1 DEF IInv, Work, Stage, Here, Writing
  <2> QED
    BY <2>1, Shapes DEF Dirs, Groups
<1>3. /\ files' \in [Dirs -> Seq(Groups)] /\ files'["offsite"] = files["offsite"]
      /\ Len(files'["local"]) = Len(files["local"]) /\ DOMAIN files'["local"] = DOMAIN files["local"]
      /\ files'["local"][1].content = files["local"][1].content /\ files'["local"][1].sidecars
      /\ files'["local"][1].kind = files["local"][1].kind /\ files'["local"][1].old = files["local"][1].old
      /\ \A i \in DOMAIN files["local"] : i # 1 => files'["local"][i] = files["local"][i]
      /\ Temps(files'["local"]) = Temps(files["local"])
      /\ Marked'
  BY <1>1, <1>2, TouchFiles DEF Dirs
<1>4. /\ job.options \in Options \cup {Prune} /\ job.options.encrypted \in BOOLEAN
      /\ next \in {"encrypt", "offsite", "idle", "drill", "retain"}
      /\ next = "encrypt" => job.options.encrypted
      /\ next # "encrypt" => ~job.options.encrypted /\ next = AfterBackup(job.options)
  BY Shapes, OptionShape, AfterShape DEF Jobs
<1> HIDE DEF next
<1>5. /\ job' \in Jobs /\ job'.pc = next
      /\ next # "idle" => job'.options = job.options /\ job'.dir = job.dir
  BY <1>1, <1>4, FinishShape DEF Pcs
<1>6. /\ next = "offsite" => job.options.offsite
      /\ next = "drill" => ~job.options.offsite
      /\ next = "retain" => ~job.options.drill
  BY <1>4, AfterShape
<1>7. Stage'
  BY <1>1, <1>2, <1>3, <1>4, <1>5, <1>6 DEF IInv, Work, Stage, Here, There, FirstKind, Writing
<1>8. Leftovers'
  <2>1. Owed("local") <= Owed("local")' /\ Owed("offsite") = 0
    BY <1>1, <1>4, <1>5 DEF Owed, FirstKind
  <2>2. Owed("offsite")' = 0 /\ Owed("local")' \in {0, 1} /\ Owed("local") \in {0, 1}
    BY <1>4, <1>5 DEF Owed
  <2> QED
    BY <1>1, <1>3, <2>1, <2>2, Shapes DEF IInv, Work, Leftovers, Dirs
<1>9. Within'
  <2>1. \A d \in Dirs : Slack(d) \in Int /\ Slack(d)' \in Int
    BY DEF Slack
  <2>2. \A d \in Dirs : Slack(d) <= Slack(d)'
    BY <1>1, <1>3, <1>4, <1>5 DEF Slack, BadRun, RunContent, Here, Writing, Dirs
  <2>3. ASSUME NEW d \in Dirs, NEW i \in Nat, Restores(d, i) PROVE Restores(d, i)'
    BY <1>3, <2>3 DEF Restores, Dirs
  <2> QED
    <3>1. job'.pc \notin Sweeping
      BY <1>4, <1>5 DEF Sweeping
    <3>2. ASSUME NEW d \in Dirs, NEW i \in Nat, Restores(d, i), i <= 1 + 2 * spoiled + Slack(d)
          PROVE  Restores(d, i)' /\ i <= 1 + 2 * spoiled' + Slack(d)'
      BY <1>1, <2>1, <2>2, <2>3, <3>2, Shapes
    <3> QED
      BY <1>1, <3>1, <3>2, Shapes, WritingWithin
<1>10. PlanHeld'
  BY <1>4, <1>5, <1>6, NotPruning DEF Pruning
<1> QED
  BY <1>1, <1>3, <1>5, <1>7, <1>8, <1>9, <1>10, Shapes, JobStepKeeps DEF Work

LEMMA EncryptKeeps ==
  ASSUME IInv, Encrypt
  PROVE  IInv'
<1> DEFINE g == NewGroup("enc", Cut)
<1>1. /\ job.pc = "encrypt" /\ Push("local", g) /\ Goto("seal")
      /\ UNCHANGED <<live, orphans, spoiled, restore, temps, restores, proven>>
  BY DEF Encrypt, other
<1>2. g \in Groups /\ ~g.wanted /\ ~g.old /\ g.content = Cut /\ g.kind = "enc"
  BY DEF NewGroup, Groups, Contents
<1> HIDE DEF g
<1>3. /\ files' \in [Dirs -> Seq(Groups)] /\ files'["offsite"] = files["offsite"]
      /\ Len(files'["local"]) = Len(files["local"]) + 1 /\ files'["local"][1] = g
      /\ \A i \in DOMAIN files["local"] :
            i + 1 \in DOMAIN files'["local"] /\ files'["local"][i + 1] = files["local"][i]
      /\ Cardinality(Temps(files'["local"])) <= Cardinality(Temps(files["local"]))
      /\ Cardinality(Temps(files'["local"])) \in Nat
      /\ Marked'
  BY <1>1, <1>2, Shapes, PushFiles DEF Dirs, One
<1>4. /\ job' \in Jobs /\ job'.pc = "seal"
      /\ job'.options = job.options /\ job'.dir = job.dir
  BY <1>1, GotoShape DEF Pcs
<1>5. Len(files["local"]) \in Nat /\ Len(files["local"]) >= 1 /\ files'["local"][2] = files["local"][1]
  <2>1. Len(files["local"]) >= 1
    BY <1>1 DEF IInv, Work, Stage, Here, Writing
  <2>2. Len(files["local"]) \in Nat /\ 1 \in DOMAIN files["local"] /\ 1 + 1 = 2
    BY <2>1, Shapes DEF Dirs
  <2> QED
    BY <1>3, <2>1, <2>2
<1>6. Stage'
  BY <1>1, <1>2, <1>3, <1>4, <1>5 DEF IInv, Work, Stage, Here, There, FirstKind, Writing
<1>7. Leftovers'
  BY <1>1, <1>3, <1>4, Shapes DEF IInv, Work, Leftovers, Owed, FirstKind, Dirs
<1>8. Within'
  <2>1. Slack("local")' = Slack("local") + 1 /\ Slack("offsite") = Slack("offsite")'
    BY <1>1, <1>4, <1>5 DEF Slack, BadRun, RunContent, Here, Writing
  <2>2. \A d \in Dirs : Slack(d) \in -2..1
    BY DEF Slack
  <2>3. ASSUME NEW i \in Nat, Restores("local", i) PROVE i + 1 \in Nat /\ Restores("local", i + 1)'
    BY <1>3, <2>3 DEF Restores
  <2>4. ASSUME NEW i \in Nat, Restores("offsite", i) PROVE Restores("offsite", i)'
    BY <1>3, <2>4 DEF Restores
  <2> QED
    BY <1>1, <1>4, <2>1, <2>2, <2>3, <2>4, Shapes, WritingWithin DEF Dirs, Sweeping
<1> QED
  BY <1>1, <1>3, <1>4, <1>6, <1>7, <1>8, Shapes, NotPruning, JobStepKeeps DEF Work, Pruning

LEMMA SealKeeps ==
  ASSUME IInv, Seal
  PROVE  IInv'
<1>1. /\ job.pc = "seal" /\ Touch("local", files["local"][2].content, FALSE) /\ Goto("manifest")
      /\ UNCHANGED <<live, orphans, spoiled, restore, temps, restores, proven>>
  BY DEF Seal, other
<1>2. /\ Len(files["local"]) >= 1 /\ files["local"][1].content = Cut
      /\ 1 \in DOMAIN files["local"] /\ 2 \in DOMAIN files["local"]
      /\ files["local"][2].content \in Contents
  <2>1. Len(files["local"]) >= 2 /\ files["local"][1].content = Cut
    BY <1>1 DEF IInv, Work, Stage, Here
  <2>2. /\ Len(files["local"]) >= 1
        /\ 1 \in DOMAIN files["local"] /\ 2 \in DOMAIN files["local"] /\ files["local"][2] \in Groups
    BY <2>1, Shapes DEF Dirs
  <2> QED
    BY <2>1, <2>2 DEF Groups
<1>3. /\ files' \in [Dirs -> Seq(Groups)] /\ files'["offsite"] = files["offsite"]
      /\ Len(files'["local"]) = Len(files["local"]) /\ DOMAIN files'["local"] = DOMAIN files["local"]
      /\ files'["local"][1].content = files["local"][2].content
      /\ files'["local"][1].kind = files["local"][1].kind /\ files'["local"][1].old = files["local"][1].old
      /\ \A i \in DOMAIN files["local"] : i # 1 => files'["local"][i] = files["local"][i]
      /\ Temps(files'["local"]) = Temps(files["local"])
      /\ Marked'
  BY <1>1, <1>2, Shapes, TouchFiles DEF Dirs
<1>4. /\ job' \in Jobs /\ job'.pc = "manifest"
      /\ job'.options = job.options /\ job'.dir = job.dir
  BY <1>1, GotoShape DEF Pcs
<1>5. Stage'
  BY <1>1, <1>2, <1>3, <1>4 DEF IInv, Work, Stage, Here, There, FirstKind, Writing
<1>6. Leftovers'
  BY <1>1, <1>3, <1>4, Shapes DEF IInv, Work, Leftovers, Owed, FirstKind, Dirs
<1>7. Within'
  <2>1. BadRun' = BadRun
    BY <1>1, <1>3, <1>4 DEF BadRun, RunContent, Here, Writing
  <2>2. ASSUME NEW i \in Nat, Restores("offsite", i) PROVE Restores("offsite", i)'
    BY <1>3, <2>2 DEF Restores
  <2>3. CASE BadRun
    <3>1. ASSUME NEW i \in Nat, Restores("local", i) PROVE Restores("local", i)'
      BY <1>2, <1>3, <3>1, BackupAssumption DEF Restores
    <3>2. \A d \in Dirs : Slack(d)' = Slack(d)
      BY <1>1, <1>4, <2>1, <2>3 DEF Slack
    <3> QED
      BY <1>1, <1>4, <2>2, <3>1, <3>2, Shapes, WritingWithin DEF Dirs, Sweeping
  <2>4. CASE ~BadRun
    <3>1. Restores("local", 1)'
      BY <1>1, <1>2, <1>3, <2>4 DEF Restores, BadRun, RunContent, Here, Writing
    <3>2. Slack("local")' = 0 /\ Slack("offsite") = 0 /\ Slack("offsite")' = 0
      BY <1>1, <1>4, <2>1, <2>4 DEF Slack
    <3> QED
      BY <1>1, <1>4, <2>2, <3>1, <3>2, Shapes, WritingWithin DEF Dirs, Sweeping
  <2> QED
    BY <2>3, <2>4
<1> QED
  BY <1>1, <1>3, <1>4, <1>5, <1>6, <1>7, Shapes, NotPruning, JobStepKeeps DEF Work, Pruning

LEMMA ManifestKeeps ==
  ASSUME IInv, Manifest
  PROVE  IInv'
<1> DEFINE next == IF job.options.keep_plaintext THEN AfterBackup(job.options) ELSE "unlink"
<1>1. /\ job.pc = "manifest" /\ Len(files["local"]) >= 1
      /\ files["local"][1].content \in Contents
      /\ UNCHANGED <<live, orphans, spoiled, restore, temps, restores, proven>>
      /\ Finish(next)
  <2>1. job.pc = "manifest" /\ Len(files["local"]) >= 2
    BY DEF Manifest, IInv, Work, Stage, Here
  <2>2. Len(files["local"]) >= 1 /\ files["local"][1] \in Groups
    BY <2>1, Shapes DEF Dirs
  <2> QED
    BY <2>1, <2>2 DEF Manifest, other, Groups
<1>2. Touch("local", files["local"][1].content, TRUE)
  <2>1. files["local"] \in Seq(Groups)
    BY Shapes DEF Dirs
  <2>2. Head(files["local"]) = files["local"][1]
    BY <1>1, <2>1, SeqFacts
  <2> QED
    BY <2>2 DEF Manifest, Newest
<1>3. /\ files' \in [Dirs -> Seq(Groups)] /\ files'["offsite"] = files["offsite"]
      /\ Len(files'["local"]) = Len(files["local"]) /\ DOMAIN files'["local"] = DOMAIN files["local"]
      /\ files'["local"][1].content = files["local"][1].content
      /\ files'["local"][1].kind = files["local"][1].kind /\ files'["local"][1].old = files["local"][1].old
      /\ \A i \in DOMAIN files["local"] : i # 1 => files'["local"][i] = files["local"][i]
      /\ Temps(files'["local"]) = Temps(files["local"])
      /\ Marked'
  BY <1>1, <1>2, TouchFiles DEF Dirs
<1>4. 2 \in DOMAIN files["local"]
  <2>1. Len(files["local"]) >= 2
    BY <1>1 DEF IInv, Work, Stage, Here
  <2> QED
    BY <2>1, Shapes DEF Dirs
<1>5. /\ job.options \in Options \cup {Prune} /\ job.options.keep_plaintext \in BOOLEAN
      /\ next \in {"unlink", "offsite", "idle", "drill", "retain"}
      /\ next = "unlink" => ~job.options.keep_plaintext
      /\ next # "unlink" => job.options.keep_plaintext /\ next = AfterBackup(job.options)
  BY Shapes, OptionShape, AfterShape DEF Jobs
<1> HIDE DEF next
<1>6. /\ job' \in Jobs /\ job'.pc = next
      /\ next # "idle" => job'.options = job.options /\ job'.dir = job.dir
  BY <1>1, <1>5, FinishShape DEF Pcs
<1>7. /\ next = "offsite" => job.options.offsite
      /\ next = "drill" => ~job.options.offsite
      /\ next = "retain" => ~job.options.drill
  BY <1>5, AfterShape
<1>8. Stage'
  BY <1>1, <1>3, <1>4, <1>5, <1>6, <1>7 DEF IInv, Work, Stage, Here, There, FirstKind, Writing
<1>9. Leftovers'
  <2>1. Owed("local") <= Owed("local")' /\ Owed("offsite") = 0
    BY <1>1, <1>5, <1>6 DEF Owed, FirstKind
  <2>2. Owed("offsite")' = 0 /\ Owed("local")' \in {0, 1} /\ Owed("local") \in {0, 1}
    BY <1>5, <1>6 DEF Owed
  <2> QED
    BY <1>1, <1>3, <2>1, <2>2, Shapes DEF IInv, Work, Leftovers, Dirs
<1>10. Within'
  <2>1. \A d \in Dirs : Slack(d) \in Int /\ Slack(d)' \in Int
    BY DEF Slack
  <2>2. \A d \in Dirs : Slack(d) <= Slack(d)'
    BY <1>1, <1>3, <1>5, <1>6 DEF Slack, BadRun, RunContent, Here, Writing, Dirs
  <2>3. ASSUME NEW d \in Dirs, NEW i \in Nat, Restores(d, i) PROVE Restores(d, i)'
    BY <1>3, <2>3 DEF Restores, Dirs
  <2>4. job'.pc \notin Sweeping
    BY <1>5, <1>6 DEF Sweeping
  <2>5. ASSUME NEW d \in Dirs, NEW i \in Nat, Restores(d, i), i <= 1 + 2 * spoiled + Slack(d)
        PROVE  Restores(d, i)' /\ i <= 1 + 2 * spoiled' + Slack(d)'
    BY <1>1, <2>1, <2>2, <2>3, <2>5, Shapes
  <2> QED
    BY <1>1, <2>4, <2>5, Shapes, WritingWithin
<1>11. PlanHeld'
  BY <1>5, <1>6, <1>7, NotPruning DEF Pruning
<1> QED
  BY <1>1, <1>3, <1>6, <1>8, <1>9, <1>10, <1>11, Shapes, JobStepKeeps DEF Work

LEMMA UnlinkKeeps ==
  ASSUME IInv, Unlink
  PROVE  IInv'
<1>1. /\ job.pc = "unlink" /\ UnlinkPrimary("local", 2, "unlinkSidecar")
      /\ UNCHANGED <<live, spoiled, restore, temps, restores, proven>>
  BY DEF Unlink, other
<1>2. /\ Len(files["local"]) >= 2 /\ files["local"][1].kind = "enc" /\ ~files["local"][1].old
      /\ files["local"][2].kind = FirstKind /\ files["local"][2].sidecars
      /\ files["local"][1].content = files["local"][2].content
      /\ job.dir = "local" /\ job.options.encrypted /\ ~job.options.keep_plaintext
  BY <1>1 DEF IInv, Work, Stage, Here, Writing
<1>3. 1 \in DOMAIN files["local"] /\ 2 \in DOMAIN files["local"] /\ Len(files["local"]) \in Nat
  BY <1>2, Shapes DEF Dirs
<1>4. /\ files' \in [Dirs -> Seq(Groups)] /\ files'["offsite"] = files["offsite"]
      /\ Len(files'["local"]) = Len(files["local"]) - 1
      /\ files'["local"][1] = files["local"][1]
      /\ \A k \in DOMAIN files["local"] : k > 2 => k - 1 \in DOMAIN files'["local"] /\ files'["local"][k - 1] = files["local"][k]
      /\ 1 \in DOMAIN files'["local"]
      /\ Cardinality(Temps(files'["local"])) <= Cardinality(Temps(files["local"])) - 1
      /\ Cardinality(Temps(files'["local"])) \in Nat
      /\ Marked'
  <2>1. One(files["local"][2].kind) = 1
    BY <1>2 DEF FirstKind, One
  <2> QED
    BY <1>1, <1>3, <2>1, CutFiles DEF Dirs, Pcs
<1>5. /\ job' = [job EXCEPT !.pc = "unlinkSidecar"]
      /\ orphans' = [orphans EXCEPT !["local"] = @ + 1]
  BY <1>1, <1>2 DEF UnlinkPrimary
<1>6. /\ job' \in Jobs /\ job'.pc = "unlinkSidecar"
      /\ job'.options = job.options /\ job'.dir = job.dir
      /\ orphans' \in [Dirs -> Nat] /\ orphans'["local"] = orphans["local"] + 1
      /\ orphans'["offsite"] = orphans["offsite"]
      /\ orphans["local"] \in Nat /\ orphans["offsite"] \in Nat
  <2>1. orphans \in [Dirs -> Nat] /\ job \in Jobs
    BY Shapes
  <2>2. job' \in Jobs /\ job'.pc = "unlinkSidecar" /\ job'.options = job.options /\ job'.dir = job.dir
    BY <1>5, <2>1 DEF Jobs, Pcs
  <2>3. orphans["local"] \in Nat /\ orphans["offsite"] \in Nat
    BY <2>1 DEF Dirs
  <2>4. orphans' \in [Dirs -> Nat] /\ orphans'["local"] = orphans["local"] + 1
    BY <1>5, <2>1, <2>3 DEF Dirs
  <2>5. orphans'["offsite"] = orphans["offsite"]
    BY <1>5, <2>1 DEF Dirs
  <2> QED
    BY <2>2, <2>3, <2>4, <2>5
<1>7. Stage'
  BY <1>2, <1>3, <1>4, <1>6 DEF Stage, Here, There, Writing
<1>8. Leftovers'
  <2>1. \A d \in Dirs : Owed(d)' = Owed(d)
    BY <1>1, <1>6 DEF Owed, FirstKind
  <2>2. \A d \in Dirs : Owed(d) \in {0, 1}
    BY DEF Owed
  <2>3. \A d \in Dirs : Cardinality(Temps(files'[d])) + orphans'[d] <= Cardinality(Temps(files[d])) + orphans[d]
    BY <1>4, <1>6, Shapes DEF Dirs
  <2>4. \A d \in Dirs : Cardinality(Temps(files'[d])) + orphans'[d] \in Nat
    BY <1>4, <1>6, Shapes DEF Dirs
  <2> SUFFICES ASSUME NEW d \in Dirs
               PROVE  Cardinality(Temps(files'[d])) + orphans'[d] <= Owed(d)' + spoiled'
    BY DEF Leftovers
  <2>5. Cardinality(Temps(files[d])) + orphans[d] <= Owed(d) + spoiled
    BY DEF IInv, Work, Leftovers
  <2>6. /\ Cardinality(Temps(files[d])) \in Nat /\ orphans[d] \in Nat
        /\ spoiled \in Nat /\ spoiled' = spoiled
    BY <1>1, Shapes
  <2> QED
    BY <2>1, <2>2, <2>3, <2>4, <2>5, <2>6
<1>9. Within'
  <2>1. BadRun' = BadRun /\ \A d \in Dirs : Slack(d) = Slack(d)'
    BY <1>1, <1>4, <1>6 DEF Slack, BadRun, RunContent, Here, Writing, Dirs
  <2>2. ASSUME NEW i \in Nat, Restores("offsite", i) PROVE Restores("offsite", i)'
    BY <1>4, <2>2 DEF Restores
  <2>3. Slack("local") = 0 /\ Slack("offsite") \in -2..1
    BY <1>1 DEF Slack
  <2>4. ASSUME NEW i \in Nat, Restores("local", i)
        PROVE  \E k \in Nat : k <= i /\ Restores("local", k)'
    <3>1. i \in DOMAIN files["local"] /\ i >= 1
      BY <2>4, Shapes DEF Restores, Dirs
    <3>2. CASE i <= 2
      <4>1. Restores("local", 1)'
        BY <1>2, <1>4, <2>4, <3>1, <3>2 DEF Restores
      <4> QED
        BY <3>1, <4>1
    <3>3. CASE i > 2
      <4>1. i - 1 \in Nat /\ i - 1 <= i /\ Restores("local", i - 1)'
        BY <1>4, <2>4, <3>1, <3>3 DEF Restores
      <4> QED
        BY <4>1
    <3> QED
      BY <3>1, <3>2, <3>3
  <2>5. ASSUME NEW d \in Dirs, NEW i \in Nat, Restores(d, i), i <= 1 + 2 * spoiled + Slack(d)
        PROVE  \E k \in Nat : Restores(d, k)' /\ k <= 1 + 2 * spoiled' + Slack(d)'
    <3>1. CASE d = "local"
      BY <1>1, <2>1, <2>3, <2>4, <2>5, <3>1, Shapes DEF Dirs
    <3>2. CASE d = "offsite"
      BY <1>1, <2>1, <2>2, <2>5, <3>2 DEF Dirs
    <3> QED
      BY <3>1, <3>2 DEF Dirs
  <2> QED
    BY <1>1, <1>6, <2>5, Shapes, WritingWithin DEF Sweeping
<1> QED
  BY <1>1, <1>4, <1>6, <1>7, <1>8, <1>9, Shapes, NotPruning, JobStepKeeps DEF Work, Pruning

LEMMA UnlinkSidecarKeeps ==
  ASSUME IInv, UnlinkSidecar
  PROVE  IInv'
<1> DEFINE next == AfterBackup(job.options)
<1>1. /\ job.pc = "unlinkSidecar" /\ Finish(next)
      /\ orphans' = [orphans EXCEPT !["local"] = @ - 1]
      /\ UNCHANGED <<live, files, spoiled, restore, temps, restores, proven>>
  BY DEF UnlinkSidecar, other
<1>2. /\ orphans' \in [Dirs -> Nat] /\ orphans'["local"] = orphans["local"] - 1
      /\ orphans'["offsite"] = orphans["offsite"]
      /\ orphans["local"] \in Nat /\ orphans["offsite"] \in Nat
  <2>1. orphans["local"] >= 1
    BY <1>1 DEF IInv, Work, Stage
  <2> QED
    BY <1>1, <2>1, Shapes DEF Dirs
<1>3. /\ job.options \in Options \cup {Prune}
      /\ next \in {"offsite", "idle", "drill", "retain"}
      /\ next = "offsite" => job.options.offsite
      /\ next = "drill" => ~job.options.offsite
      /\ next = "retain" => ~job.options.drill
  BY Shapes, AfterShape DEF Jobs
<1> HIDE DEF next
<1>4. /\ job' \in Jobs /\ job'.pc = next
      /\ next # "idle" => job'.options = job.options /\ job'.dir = job.dir
  BY <1>1, <1>3, FinishShape DEF Pcs
<1>5. Stage'
  BY <1>1, <1>3, <1>4 DEF IInv, Work, Stage, Here, There, FirstKind, Writing
<1>6. Leftovers'
  <2>1. Owed("local") = 1 /\ Owed("offsite") = 0
    BY <1>1 DEF IInv, Work, Stage, Owed, FirstKind
  <2>2. Owed("offsite")' = 0 /\ Owed("local")' = 0
    BY <1>3, <1>4 DEF Owed
  <2> QED
    BY <1>1, <1>2, <2>1, <2>2, Shapes DEF IInv, Work, Leftovers, Dirs
<1>7. Within'
  <2>1. \A d \in Dirs : Slack(d) \in Int /\ Slack(d)' \in Int
    BY DEF Slack
  <2>2. \A d \in Dirs : Slack(d) <= Slack(d)'
    BY <1>1, <1>3, <1>4 DEF Slack, BadRun, RunContent, Here, Writing, Dirs
  <2>3. job'.pc \notin Sweeping
    BY <1>3, <1>4 DEF Sweeping
  <2>4. ASSUME NEW d \in Dirs, NEW i \in Nat, Restores(d, i), i <= 1 + 2 * spoiled + Slack(d)
        PROVE  Restores(d, i)' /\ i <= 1 + 2 * spoiled' + Slack(d)'
    BY <1>1, <2>1, <2>2, <2>4, Shapes DEF Restores
  <2> QED
    BY <1>1, <2>3, <2>4, Shapes, WritingWithin
<1>8. PlanHeld'
  BY <1>3, <1>4, NotPruning DEF Pruning
<1>9. Marked'
  BY <1>1 DEF IInv, Marked, Wanted
<1> QED
  BY <1>1, <1>2, <1>4, <1>5, <1>6, <1>7, <1>8, <1>9, Shapes, JobStepKeeps DEF Work

-----------------------------------------------------------------------------
\* The backup goes off site and is drilled.

LEMMA OffsiteKeeps ==
  ASSUME IInv, Offsite
  PROVE  IInv'
<1>1. /\ job.pc = "offsite" /\ Goto("send")
      /\ UNCHANGED <<live, orphans, spoiled, restore, temps, restores, proven>>
  BY DEF Offsite, other
<1>2. /\ Len(files["local"]) >= 1 /\ files["local"][1].kind # "temporary" /\ ~files["local"][1].old
      /\ 1 \in DOMAIN files["local"] /\ files["local"][1] \in Groups
      /\ Head(files["local"]) = files["local"][1]
  <2>1. Len(files["local"]) >= 1 /\ files["local"][1].kind # "temporary" /\ ~files["local"][1].old
    BY <1>1 DEF IInv, Work, Stage, Here, Writing
  <2>2. files["local"] \in Seq(Groups)
    BY Shapes DEF Dirs
  <2> QED
    BY <2>1, <2>2, SeqFacts
<1> DEFINE g == NewGroup(files["local"][1].kind, Cut)
<1>3. Push("offsite", g)
  BY <1>2 DEF Offsite, Newest
<1>4. /\ g \in Groups /\ ~g.wanted /\ ~g.old /\ g.content = Cut /\ One(g.kind) = 0
  BY <1>2 DEF NewGroup, Groups, One, Contents
<1> HIDE DEF g
<1>5. /\ files' \in [Dirs -> Seq(Groups)] /\ files'["local"] = files["local"]
      /\ Len(files'["offsite"]) = Len(files["offsite"]) + 1 /\ files'["offsite"][1] = g
      /\ \A i \in DOMAIN files["offsite"] :
            i + 1 \in DOMAIN files'["offsite"] /\ files'["offsite"][i + 1] = files["offsite"][i]
      /\ Cardinality(Temps(files'["offsite"])) <= Cardinality(Temps(files["offsite"])) + 0
      /\ Cardinality(Temps(files'["offsite"])) \in Nat
      /\ Marked'
  BY <1>1, <1>3, <1>4, PushFiles DEF Dirs
<1>6. /\ job' \in Jobs /\ job'.pc = "send"
      /\ job'.options = job.options /\ job'.dir = job.dir
  BY <1>1, GotoShape DEF Pcs
<1>7. Len(files["offsite"]) \in Nat
  BY Shapes DEF Dirs
<1>8. Stage'
  BY <1>1, <1>2, <1>4, <1>5, <1>6, <1>7 DEF IInv, Work, Stage, Here, There, FirstKind, Writing
<1>9. Leftovers'
  BY <1>1, <1>5, <1>6, Shapes DEF IInv, Work, Leftovers, Owed, FirstKind, Dirs
<1>10. Within'
  <2>1. Slack("local")' = Slack("local") /\ Slack("offsite")' = Slack("offsite") + 1
    BY <1>1, <1>5, <1>6 DEF Slack, BadRun, RunContent, Here, Writing
  <2>2. \A d \in Dirs : Slack(d) \in -2..1
    BY DEF Slack
  <2>3. ASSUME NEW i \in Nat, Restores("offsite", i) PROVE i + 1 \in Nat /\ Restores("offsite", i + 1)'
    BY <1>5, <2>3 DEF Restores
  <2>4. ASSUME NEW i \in Nat, Restores("local", i) PROVE Restores("local", i)'
    BY <1>5, <2>4 DEF Restores
  <2> QED
    BY <1>1, <1>6, <2>1, <2>2, <2>3, <2>4, Shapes, WritingWithin DEF Dirs, Sweeping
<1> QED
  BY <1>1, <1>5, <1>6, <1>8, <1>9, <1>10, Shapes, NotPruning, JobStepKeeps DEF Work, Pruning

LEMMA SendKeeps ==
  ASSUME IInv, Send
  PROVE  IInv'
<1> DEFINE next == AfterCopies(job.options)
<1>1. /\ job.pc = "send" /\ Finish(next)
      /\ UNCHANGED <<live, orphans, spoiled, restore, temps, restores, proven>>
  BY DEF Send, other
<1>2. /\ Len(files["local"]) >= 1 /\ Len(files["offsite"]) >= 1
      /\ files["offsite"][1].content = Cut /\ ~files["offsite"][1].old
      /\ ~files["local"][1].old /\ files["local"][1].kind # "temporary"
      /\ job.dir = "local" /\ job.options.offsite
  BY <1>1 DEF IInv, Work, Stage, Here, There, Writing
<1>3. /\ files["local"][1].content \in Contents /\ 1 \in DOMAIN files["offsite"]
      /\ Head(files["local"]) = files["local"][1]
  <2>1. files["local"] \in Seq(Groups)
    BY Shapes DEF Dirs
  <2>2. files["local"][1] \in Groups /\ 1 \in DOMAIN files["offsite"]
    BY <1>2, Shapes DEF Dirs
  <2> QED
    BY <1>2, <2>1, <2>2, SeqFacts DEF Groups
<1>4. Touch("offsite", files["local"][1].content, TRUE)
  BY <1>3 DEF Send, Newest
<1>5. /\ files' \in [Dirs -> Seq(Groups)] /\ files'["local"] = files["local"]
      /\ Len(files'["offsite"]) = Len(files["offsite"]) /\ DOMAIN files'["offsite"] = DOMAIN files["offsite"]
      /\ files'["offsite"][1].content = files["local"][1].content
      /\ files'["offsite"][1].old = files["offsite"][1].old
      /\ \A i \in DOMAIN files["offsite"] : i # 1 => files'["offsite"][i] = files["offsite"][i]
      /\ Temps(files'["offsite"]) = Temps(files["offsite"])
      /\ Marked'
  BY <1>1, <1>2, <1>3, <1>4, TouchFiles DEF Dirs
<1>6. /\ job.options \in Options \cup {Prune}
      /\ next \in {"idle", "drill", "retain"}
      /\ next = "retain" => ~job.options.drill
  BY Shapes, AfterShape DEF Jobs
<1> HIDE DEF next
<1>7. /\ job' \in Jobs /\ job'.pc = next
      /\ next # "idle" => job'.options = job.options /\ job'.dir = job.dir
  BY <1>1, <1>6, FinishShape DEF Pcs
<1>8. Stage'
  BY <1>1, <1>2, <1>5, <1>6, <1>7 DEF Stage, Here, There, FirstKind, Writing
<1>9. Leftovers'
  <2>1. \A d \in Dirs : Owed(d) = 0 /\ Owed(d)' = 0
    BY <1>1, <1>6, <1>7 DEF Owed
  <2> QED
    BY <1>1, <1>5, <2>1, Shapes DEF IInv, Work, Leftovers, Dirs
<1>10. Within'
  <2>1. BadRun = (files["local"][1].content \notin Healthy) /\ Slack("local") = 0 /\ Slack("local")' = 0
    BY <1>1, <1>6, <1>7 DEF Slack, BadRun, RunContent, Here, Writing
  <2>2. ASSUME NEW i \in Nat, Restores("local", i) PROVE Restores("local", i)'
    BY <1>5, <2>2 DEF Restores
  <2>3. job'.pc \notin Sweeping
    BY <1>6, <1>7 DEF Sweeping
  <2>4. ASSUME NEW i \in Nat, Restores("offsite", i) PROVE Restores("offsite", i)'
    BY <1>2, <1>5, <2>4, BackupAssumption DEF Restores
  <2>5. CASE files["local"][1].content \in Healthy
    <3>1. Restores("offsite", 1)'
      BY <1>3, <1>5, <2>5 DEF Restores
    <3>2. Slack("offsite")' = 0
      BY <1>5, <1>6, <1>7, <2>5 DEF Slack, BadRun, RunContent, Here, Writing
    <3> QED
      BY <1>1, <2>1, <2>2, <2>3, <3>1, <3>2, Shapes, WritingWithin DEF Dirs
  <2>6. CASE files["local"][1].content \notin Healthy
    <3>1. Slack("offsite") = -1
      BY <1>1, <2>1, <2>6 DEF Slack
    <3>2. Slack("offsite")' = 0
      BY <1>5, <1>6, <1>7, <2>6 DEF Slack, BadRun, RunContent, Here, Writing
    <3> QED
      BY <1>1, <2>1, <2>2, <2>3, <2>4, <3>1, <3>2, Shapes, WritingWithin DEF Dirs
  <2> QED
    BY <2>5, <2>6
<1>11. PlanHeld'
  BY <1>6, <1>7, NotPruning DEF Pruning
<1> QED
  BY <1>1, <1>5, <1>7, <1>8, <1>9, <1>10, <1>11, Shapes, JobStepKeeps DEF Work

LEMMA DrillKeeps ==
  ASSUME IInv, Drill
  PROVE  IInv'
<1>1. /\ job.pc = "drill"
      /\ UNCHANGED <<live, files, orphans, spoiled, restore, temps, restores>>
      /\ Marked'
  BY DEF Drill, IInv, Marked, Wanted
<1>2. /\ Len(files["local"]) >= 1 /\ ~files["local"][1].old /\ job.dir = "local"
      /\ job.options.offsite =>
            Len(files["offsite"]) >= 1 /\ ~files["offsite"][1].old
            /\ files["offsite"][1].content = files["local"][1].content
  BY <1>1 DEF IInv, Work, Stage, Here, There, Writing
<1>3. /\ 1 \in DOMAIN files["local"] /\ (job.options.offsite => 1 \in DOMAIN files["offsite"])
      /\ Head(files["local"]) = files["local"][1]
  <2>1. files["local"] \in Seq(Groups)
    BY Shapes DEF Dirs
  <2>2. 1 \in DOMAIN files["local"] /\ (job.options.offsite => 1 \in DOMAIN files["offsite"])
    BY <1>2, Shapes DEF Dirs
  <2> QED
    BY <1>2, <2>1, <2>2, SeqFacts
<1>4. \A d \in Dirs : Owed(d) = 0
  BY <1>1 DEF Owed
<1>5. CASE Passed
  <2>1. /\ job' = [job EXCEPT !.pc = "retain"]
        /\ proven' = proven \cup {"local"} \cup (IF job.options.offsite THEN {"offsite"} ELSE {})
    BY <1>5 DEF Drill, Goto
  <2>2. /\ job' \in Jobs /\ job'.pc = "retain" /\ job'.options = job.options /\ job'.dir = job.dir
    BY <1>5, GotoShape DEF Drill, Pcs
  <2>3. Restores("local", 1) /\ (job.options.offsite => Restores("offsite", 1))
    BY <1>2, <1>3, <1>5 DEF Passed, Newest, Restores
  <2>4. Stage'
    BY <2>2 DEF Stage, Writing
  <2>5. \A d \in Dirs : Owed(d)' = 0
    BY <2>2 DEF Owed
  <2>6. Leftovers'
    BY <1>1, <1>4, <2>5 DEF IInv, Work, Leftovers
  <2>7. ASSUME NEW d \in Dirs, InPlan(d)'
        PROVE  /\ Pending(d)'
               /\ \E i \in 1..(1 + spoiled') : Restores(d, i)' /\ \A k \in 1..i : ~files'[d][k].old
    <3>1. d = "local" \/ (d = "offsite" /\ job.options.offsite)
      BY <2>2, <2>7 DEF InPlan, Dirs
    <3>2. Restores(d, 1)' /\ ~files'[d][1].old
      BY <1>1, <1>2, <2>3, <3>1 DEF Restores
    <3>3. 1 \in 1..(1 + spoiled') /\ \A k \in 1..1 : k = 1
      BY <1>1, Shapes
    <3>4. Pending(d)'
      BY <1>2, <2>2, <3>1 DEF Pending
    <3> QED
      BY <3>2, <3>3, <3>4
  <2>8. PlanHeld'
    BY <2>7 DEF PlanHeld
  <2>9. Within'
    <3> SUFFICES ASSUME NEW d \in proven', 2 * spoiled' < KeepLatest[d]
                 PROVE  \E i \in Nat : Restores(d, i)' /\ i <= 1 + 2 * spoiled' + Slack(d)'
      BY <2>2 DEF Within, Sweeping
    <3>1. Slack(d)' = 0 /\ spoiled' = spoiled /\ spoiled \in Nat
      BY <1>1, <2>2, Shapes DEF Slack, BadRun, Writing
    <3>2. CASE d = "local" \/ (d = "offsite" /\ job.options.offsite)
      <4>1. Restores(d, 1)'
        BY <1>1, <2>3, <3>2 DEF Restores
      <4> QED
        BY <3>1, <4>1
    <3>3. CASE ~(d = "local" \/ (d = "offsite" /\ job.options.offsite))
      <4>1. d \in proven /\ d \in Dirs
        BY <2>1, <3>3, Shapes
      <4>2. Slack(d) \in -2..0
        BY <1>1 DEF Slack
      <4>3. \E i \in Nat : Restores(d, i) /\ i <= 1 + 2 * spoiled + Slack(d)
        BY <3>1, <4>1 DEF IInv, Work, Within
      <4> QED
        BY <1>1, <3>1, <4>2, <4>3 DEF Restores
    <3> QED
      BY <3>2, <3>3
  <2>10. proven' \subseteq Dirs
    BY <2>1, Shapes DEF Dirs
  <2> QED
    BY <1>1, <2>2, <2>4, <2>6, <2>8, <2>9, <2>10, Shapes, JobStepKeeps DEF Work
<1>6. CASE ~Passed
  <2>1. job' = NoJob /\ proven' = proven
    BY <1>6 DEF Drill
  <2>2. job' \in Jobs /\ job'.pc = "idle"
    BY <2>1 DEF NoJob, Jobs, Dirs
  <2>3. Stage' /\ \A d \in Dirs : Owed(d)' = 0
    BY <2>2 DEF Stage, Writing, Owed
  <2>4. Leftovers'
    BY <1>1, <1>4, <2>3 DEF IInv, Work, Leftovers
  <2>5. PlanHeld'
    BY <2>2, NotPruning DEF Pruning
  <2>6. \A d \in Dirs : Slack(d) \in -2..0 /\ Slack(d)' = 0
    BY <1>1, <2>2 DEF Slack, BadRun, Writing
  <2>7. Within'
    <3>1. ASSUME NEW d \in Dirs, NEW i \in Nat, Restores(d, i), i <= 1 + 2 * spoiled + Slack(d)
          PROVE  Restores(d, i)' /\ i <= 1 + 2 * spoiled' + Slack(d)'
      <4>1. Restores(d, i)'
        BY <1>1, <3>1 DEF Restores
      <4>2. Slack(d) \in -2..0 /\ Slack(d)' = 0 /\ spoiled' = spoiled /\ spoiled \in Nat
        BY <1>1, <2>6, Shapes
      <4> QED
        BY <3>1, <4>1, <4>2
    <3> QED
      BY <1>1, <2>1, <2>2, <3>1, Shapes, WritingWithin DEF Sweeping
  <2> QED
    BY <1>1, <2>1, <2>2, <2>3, <2>4, <2>5, <2>7, Shapes, JobStepKeeps DEF Work
<1> QED
  BY <1>5, <1>6

-----------------------------------------------------------------------------
\* Retention.

\* What retention does not count stays within the policy.
LEMMA PruningWithin ==
  ASSUME IInv, proven' = proven, spoiled' = spoiled,
         job.pc \notin Writing, job'.pc \notin Writing,
         \A d \in Dirs : \A i \in Nat :
            /\ Restores(d, i) /\ i <= KeepLatest[d]
            /\ job.pc \in Sweeping /\ d = job.dir => i <= job.kept
            => /\ Restores(d, i)'
               /\ job'.pc \in Sweeping /\ d = job'.dir => i <= job'.kept
  PROVE  Within'
<1> SUFFICES ASSUME NEW d \in proven', 2 * spoiled' < KeepLatest[d]
             PROVE  \E i \in Nat :
                       /\ Restores(d, i)'
                       /\ i <= 1 + 2 * spoiled' + Slack(d)'
                       /\ job'.pc \in Sweeping /\ d = job'.dir => i <= job'.kept
  BY DEF Within
<1>1. d \in Dirs /\ d \in proven /\ KeepLatest[d] \in Nat /\ spoiled \in Nat
  BY Shapes, BackupAssumption
<1>2. Slack(d) = 0 /\ Slack(d)' = 0
  BY DEF Slack, BadRun, Writing
<1>3. PICK i \in Nat :
        /\ Restores(d, i)
        /\ i <= 1 + 2 * spoiled + Slack(d)
        /\ job.pc \in Sweeping /\ d = job.dir => i <= job.kept
  BY <1>1 DEF IInv, Work, Within
<1>4. i <= KeepLatest[d]
  BY <1>1, <1>2, <1>3
<1> QED
  BY <1>1, <1>2, <1>3, <1>4

LEMMA StartPruneKeeps ==
  ASSUME IInv, NEW d \in Dirs, StartPrune(d)
  PROVE  IInv'
<1> DEFINE begun == [NoJob EXCEPT !.pc = "retain", !.dir = d]
<1>1. /\ job.pc = "idle" /\ job' = begun
      /\ UNCHANGED <<live, files, orphans, spoiled, restore, temps, restores, proven>>
      /\ Marked'
  BY DEF StartPrune, other, IInv, Marked, Wanted
<1>2. begun \in Jobs /\ begun.pc = "retain" /\ begun.options.command = "prune"
  BY DEF NoJob, Jobs, Pcs, Dirs, Prune
<1> HIDE DEF begun
<1>3. Stage'
  BY <1>1, <1>2 DEF Stage, Writing
<1>4. Leftovers'
  <2>1. \A e \in Dirs : Owed(e) = 0 /\ Owed(e)' = 0
    BY <1>1, <1>2 DEF Owed
  <2> QED
    BY <1>1, <2>1 DEF IInv, Work, Leftovers
<1>5. Within'
  BY <1>1, <1>2, PruningWithin DEF Writing, Sweeping, Restores
<1> QED
  BY <1>1, <1>2, <1>3, <1>4, <1>5, Shapes, NotPruning, JobStepKeeps DEF Work

\* The policy keeps what it counts and, by age, whatever is fresh.
LEMMA KeptBounds ==
  ASSUME IInv, NEW d \in Dirs
  PROVE  /\ Kept(d) \in Nat
         /\ \A i \in DOMAIN files[d] : i <= KeepLatest[d] => i <= Kept(d)
         /\ \A i \in DOMAIN files[d] :
                AgeLimited /\ (\A k \in 1..i : ~files[d][k].old) => i <= Kept(d)
<1>1. KeepLatest[d] \in Nat /\ Len(files[d]) \in Nat /\ DOMAIN files[d] = 1..Len(files[d]) /\ AgeLimited \in BOOLEAN
  BY Shapes, BackupAssumption
<1> DEFINE fresh == {i \in DOMAIN files[d] : ~files[d][i].old}
<1>2. IsFiniteSet(fresh) /\ Cardinality(fresh) \in Nat
  <2>1. files[d] \in Seq(Groups)
    BY Shapes
  <2>2. IsFiniteSet(DOMAIN files[d])
    BY <2>1, SeqFacts, FS_Interval
  <2> QED
    BY <2>2, FS_Subset, FS_CardinalityType
<1>3. Fresh(d) \in Nat
  BY <1>2 DEF Fresh
<1>4. ASSUME NEW i \in DOMAIN files[d], \A k \in 1..i : ~files[d][k].old
      PROVE  i <= Fresh(d)
  <2>1. 1..i \subseteq fresh
    BY <1>1, <1>4
  <2>2. Cardinality(1..i) = i
    BY <1>1, FS_Interval
  <2> QED
    BY <1>2, <2>1, <2>2, FS_Subset DEF Fresh
<1>5. Kept(d) \in Nat
  BY <1>1, <1>3 DEF Kept
<1>6. ASSUME NEW i \in DOMAIN files[d], i <= KeepLatest[d]
      PROVE  i <= Kept(d)
  BY <1>1, <1>3, <1>6 DEF Kept
<1>7. ASSUME NEW i \in DOMAIN files[d], AgeLimited, \A k \in 1..i : ~files[d][k].old
      PROVE  i <= Kept(d)
  <2>1. i <= Fresh(d)
    BY <1>4, <1>7
  <2> QED
    BY <1>1, <1>3, <1>7, <2>1 DEF Kept
<1> QED
  BY <1>5, <1>6, <1>7

LEMMA RetainKeeps ==
  ASSUME IInv, Retain
  PROVE  IInv'
<1>1. /\ job.pc = "retain" /\ job' = [job EXCEPT !.pc = "sweep", !.kept = Kept(job.dir)]
      /\ UNCHANGED <<live, files, orphans, spoiled, restore, temps, restores, proven>>
      /\ Marked'
  BY DEF Retain, other, IInv, Marked, Wanted
<1>2. /\ job.dir \in Dirs /\ Kept(job.dir) \in Nat
      /\ \A i \in DOMAIN files[job.dir] : i <= KeepLatest[job.dir] => i <= Kept(job.dir)
      /\ \A i \in DOMAIN files[job.dir] :
             AgeLimited /\ (\A k \in 1..i : ~files[job.dir][k].old) => i <= Kept(job.dir)
  <2>1. job.dir \in Dirs
    BY Shapes DEF Jobs
  <2> QED
    BY <2>1, KeptBounds
<1>3. /\ job' \in Jobs /\ job'.pc = "sweep" /\ job'.options = job.options /\ job'.dir = job.dir
      /\ job'.kept = Kept(job.dir)
  BY <1>1, <1>2, Shapes DEF Jobs, Pcs
<1>4. Stage'
  BY <1>3 DEF Stage, Writing
<1>5. Leftovers'
  <2>1. \A e \in Dirs : Owed(e) = 0 /\ Owed(e)' = 0
    BY <1>1, <1>3 DEF Owed
  <2> QED
    BY <1>1, <2>1 DEF IInv, Work, Leftovers
<1>6. Within'
  <2>1. ASSUME NEW d \in Dirs, NEW i \in Nat, Restores(d, i), i <= KeepLatest[d], d = job'.dir
        PROVE  i <= job'.kept
    BY <1>2, <1>3, <2>1 DEF Restores
  <2>2. \A d \in Dirs : \A i \in Nat : Restores(d, i)' <=> Restores(d, i)
    BY <1>1 DEF Restores
  <2> QED
    BY <1>1, <1>3, <2>1, <2>2, PruningWithin DEF Writing
<1>7. ASSUME NEW d \in Dirs, InPlan(d)', Pending(d)'
      PROVE  \E i \in 1..(1 + spoiled') : Restores(d, i)' /\ \A k \in 1..i : ~files'[d][k].old
  <2>1. InPlan(d) /\ Pending(d)
    BY <1>1, <1>3, <1>7 DEF InPlan, Pending, Pruning
  <2>2. \E i \in 1..(1 + spoiled) : Restores(d, i) /\ \A k \in 1..i : ~files[d][k].old
    BY <2>1 DEF IInv, Work, PlanHeld
  <2> QED
    BY <1>1, <2>2 DEF Restores
<1>8. ASSUME NEW d \in Dirs, InPlan(d)', ~Pending(d)', KeepLatest[d] > spoiled' \/ AgeLimited
      PROVE  \E i \in Nat : Restores(d, i)' /\ (d = job'.dir => i <= job'.kept)
  <2>1. InPlan(d)
    BY <1>1, <1>3, <1>8 DEF InPlan, Pruning
  <2>2. CASE d = job.dir
    <3>1. Pending(d)
      BY <1>1, <2>2 DEF Pending
    <3>2. PICK i \in 1..(1 + spoiled) : Restores(d, i) /\ \A k \in 1..i : ~files[d][k].old
      BY <2>1, <3>1 DEF IInv, Work, PlanHeld
    <3>3. /\ i \in Nat /\ i \in DOMAIN files[d] /\ spoiled \in Nat /\ spoiled' = spoiled
          /\ KeepLatest[d] \in Nat
      BY <1>1, <3>2, Shapes, BackupAssumption DEF Restores
    <3>4. i <= Kept(job.dir)
      <4>1. CASE KeepLatest[d] > spoiled'
        BY <1>2, <2>2, <3>2, <3>3, <4>1
      <4>2. CASE AgeLimited
        BY <1>2, <2>2, <3>2, <3>3, <4>2
      <4> QED
        BY <1>8, <4>1, <4>2
    <3>5. Restores(d, i)'
      BY <1>1, <3>2 DEF Restores
    <3> QED
      BY <1>3, <3>3, <3>4, <3>5
  <2>3. CASE d # job.dir
    <3>1. ~Pending(d)
      BY <1>1, <1>3, <1>8, <2>3 DEF Pending
    <3>2. \E i \in Nat : Restores(d, i)
      BY <1>1, <1>8, <2>1, <3>1 DEF IInv, Work, PlanHeld
    <3> QED
      BY <1>1, <1>3, <2>3, <3>2 DEF Restores
  <2> QED
    BY <2>2, <2>3
<1>9. PlanHeld'
  BY <1>7, <1>8 DEF PlanHeld
<1> QED
  BY <1>1, <1>3, <1>4, <1>5, <1>6, <1>9, Shapes, JobStepKeeps DEF Work

LEMMA SweepKeeps ==
  ASSUME IInv, Sweep
  PROVE  IInv'
<1>1. /\ job.pc = "sweep"
      /\ UNCHANGED <<live, spoiled, restore, temps, restores, proven>>
  BY DEF Sweep, other
<1> DEFINE d == job.dir
<1>2. d \in Dirs /\ job.kept \in Nat
  BY Shapes DEF Jobs
<1>3. PICK i \in Doomed : UnlinkPrimary(job.dir, i, "sweepSidecars")
  BY DEF Sweep
<1>4. i \in DOMAIN files[d] /\ i > job.kept
  BY <1>3 DEF Doomed
<1>5. UnlinkPrimary(d, i, "sweepSidecars")
  BY <1>3
<1> HIDE DEF d
<1>6. /\ files' \in [Dirs -> Seq(Groups)] /\ \A e \in Dirs \ {d} : files'[e] = files[e]
      /\ \A k \in DOMAIN files[d] : k < i => k \in DOMAIN files'[d] /\ files'[d][k] = files[d][k]
      /\ Cardinality(Temps(files'[d])) <= Cardinality(Temps(files[d])) - One(files[d][i].kind)
      /\ Cardinality(Temps(files'[d])) \in Nat
      /\ Marked'
  BY <1>1, <1>2, <1>4, <1>5, CutFiles DEF Pcs
<1>7. /\ \A e \in Dirs : Cardinality(Temps(files'[e])) <= Cardinality(Temps(files[e]))
      /\ \A e \in Dirs : Cardinality(Temps(files'[e])) \in Nat /\ Cardinality(Temps(files[e])) \in Nat
  <2>1. One(files[d][i].kind) \in {0, 1}
    BY DEF One
  <2> SUFFICES ASSUME NEW e \in Dirs
               PROVE  /\ Cardinality(Temps(files'[e])) <= Cardinality(Temps(files[e]))
                      /\ Cardinality(Temps(files'[e])) \in Nat /\ Cardinality(Temps(files[e])) \in Nat
    OBVIOUS
  <2>2. Cardinality(Temps(files[e])) \in Nat /\ Cardinality(Temps(files[d])) \in Nat
    BY <1>2, Shapes
  <2> QED
    BY <1>6, <2>1, <2>2
<1>8. ASSUME NEW e \in Dirs, NEW k \in Nat, Restores(e, k), e = d => k <= job.kept
      PROVE  Restores(e, k)'
  <2>1. CASE e = d
    <3>1. k \in DOMAIN files[d] /\ k < i /\ files[d][k].content \in Healthy
      BY <1>2, <1>4, <1>8, <2>1, Shapes DEF Restores
    <3> QED
      BY <1>6, <2>1, <3>1 DEF Restores
  <2>2. CASE e # d
    BY <1>6, <1>8, <2>2 DEF Restores
  <2> QED
    BY <2>1, <2>2
<1>9. ASSUME job' \in Jobs, job'.pc \in Sweeping, job'.options = job.options,
             job'.dir = job.dir, job'.kept = job.kept
      PROVE  PlanHeld' /\ Within'
  <2>1. ASSUME NEW e \in Dirs, InPlan(e)'
        PROVE  /\ ~Pending(e)' /\ (KeepLatest[e] > spoiled' \/ AgeLimited) =>
                      \E k \in Nat : Restores(e, k)' /\ (e = job'.dir => k <= job'.kept)
               /\ Pending(e)' => \E k \in 1..(1 + spoiled') :
                                    Restores(e, k)' /\ \A n \in 1..k : ~files'[e][n].old
    <3>1. InPlan(e) /\ (Pending(e)' <=> Pending(e)) /\ (Pending(e) => e # d)
      BY <1>1, <1>9, <2>1 DEF InPlan, Pending, Sweeping, Pruning, d
    <3>2. CASE Pending(e)
      <4>1. PICK k \in 1..(1 + spoiled) : Restores(e, k) /\ \A n \in 1..k : ~files[e][n].old
        BY <3>1, <3>2 DEF IInv, Work, PlanHeld
      <4> QED
        BY <1>1, <1>6, <3>1, <3>2, <4>1 DEF Restores
    <3>3. CASE ~Pending(e)
      <4> SUFFICES ASSUME KeepLatest[e] > spoiled' \/ AgeLimited
                   PROVE  \E k \in Nat : Restores(e, k)' /\ (e = job'.dir => k <= job'.kept)
        BY <3>1, <3>3
      <4>1. PICK k \in Nat : Restores(e, k) /\ (e = job.dir => k <= job.kept)
        BY <1>1, <3>1, <3>3 DEF IInv, Work, PlanHeld
      <4> QED
        BY <1>8, <1>9, <4>1 DEF d
    <3> QED
      BY <3>1, <3>2, <3>3
  <2>2. ASSUME NEW e \in Dirs, NEW k \in Nat, Restores(e, k), e = job.dir => k <= job.kept
        PROVE  Restores(e, k)' /\ (e = job'.dir => k <= job'.kept)
    BY <1>8, <1>9, <2>2 DEF d
  <2>3. job.pc \in Sweeping /\ job.pc \notin Writing /\ job'.pc \notin Writing
    BY <1>1, <1>9 DEF Sweeping, Writing
  <2> QED
    BY <1>1, <2>1, <2>2, <2>3, PruningWithin DEF PlanHeld
<1>10. \A e \in Dirs : Owed(e) = 0
  BY <1>1 DEF Owed
<1>11. CASE files[d][i].sidecars
  <2>1. orphans' = [orphans EXCEPT ![d] = @ + 1] /\ job' = [job EXCEPT !.pc = "sweepSidecars"]
    BY <1>5, <1>11 DEF UnlinkPrimary
  <2>2. /\ job' \in Jobs /\ job'.pc = "sweepSidecars" /\ job'.options = job.options
        /\ job'.dir = job.dir /\ job'.kept = job.kept
    BY <2>1, Shapes DEF Jobs, Pcs
  <2>3. /\ orphans' \in [Dirs -> Nat] /\ orphans'[d] = orphans[d] + 1
        /\ \A e \in Dirs : orphans[e] \in Nat
        /\ \A e \in Dirs \ {d} : orphans'[e] = orphans[e]
    BY <1>2, <2>1, Shapes
  <2>4. Stage'
    BY <1>2, <2>2, <2>3 DEF Stage, Writing, d
  <2>5. ASSUME NEW e \in Dirs
        PROVE  Cardinality(Temps(files'[e])) + orphans'[e] <= Owed(e)' + spoiled'
    <3>1. Owed(e)' = IF e = d THEN 1 ELSE 0
      BY <2>2 DEF Owed, d
    <3>2. Cardinality(Temps(files[e])) + orphans[e] <= 0 + spoiled
      BY <1>10 DEF IInv, Work, Leftovers
    <3>3. orphans'[e] = IF e = d THEN orphans[e] + 1 ELSE orphans[e]
      BY <2>3
    <3> QED
      BY <1>1, <1>7, <2>3, <3>1, <3>2, <3>3, Shapes
  <2>6. PlanHeld' /\ Within'
    BY <1>9, <2>2 DEF Sweeping
  <2> QED
    BY <1>1, <1>6, <2>2, <2>3, <2>4, <2>5, <2>6, Shapes, JobStepKeeps DEF Work, Leftovers
<1>12. CASE ~files[d][i].sidecars
  <2>1. UNCHANGED <<orphans, job>>
    BY <1>5, <1>12 DEF UnlinkPrimary
  <2>2. Stage'
    BY <1>1, <2>1 DEF Stage, Writing
  <2>3. Leftovers'
    <3>1. \A e \in Dirs : Owed(e)' = 0
      BY <1>1, <2>1 DEF Owed
    <3>2. \A e \in Dirs : Cardinality(Temps(files[e])) + orphans[e] <= 0 + spoiled
      BY <1>10 DEF IInv, Work, Leftovers
    <3> QED
      BY <1>1, <1>7, <2>1, <3>1, <3>2, Shapes DEF Leftovers
  <2>4. PlanHeld' /\ Within'
    BY <1>1, <1>9, <2>1, Shapes DEF Sweeping
  <2> QED
    BY <1>1, <1>6, <2>1, <2>2, <2>3, <2>4, Shapes, JobStepKeeps DEF Work
<1> QED
  BY <1>11, <1>12

LEMMA SweepSidecarsKeeps ==
  ASSUME IInv, SweepSidecars
  PROVE  IInv'
<1>1. /\ job.pc = "sweepSidecars" /\ Goto("sweep")
      /\ orphans' = [orphans EXCEPT ![job.dir] = @ - 1]
      /\ UNCHANGED <<live, files, spoiled, restore, temps, restores, proven>>
      /\ Marked'
  BY DEF SweepSidecars, other, IInv, Marked, Wanted
<1>2. /\ job' \in Jobs /\ job'.pc = "sweep"
      /\ job'.options = job.options /\ job'.dir = job.dir /\ job'.kept = job.kept
      /\ job.dir \in Dirs
  BY <1>1, GotoShape, Shapes DEF Pcs, Jobs
<1>3. /\ orphans' \in [Dirs -> Nat] /\ orphans'[job.dir] = orphans[job.dir] - 1
      /\ \A e \in Dirs : orphans[e] \in Nat
      /\ \A e \in Dirs \ {job.dir} : orphans'[e] = orphans[e]
  <2>1. orphans[job.dir] >= 1
    BY <1>1 DEF IInv, Work, Stage
  <2> QED
    BY <1>1, <1>2, <2>1, Shapes
<1>4. Stage'
  BY <1>2 DEF Stage, Writing
<1>5. ASSUME NEW e \in Dirs
      PROVE  Cardinality(Temps(files'[e])) + orphans'[e] <= Owed(e)' + spoiled'
  <2>1. Owed(e) = (IF e = job.dir THEN 1 ELSE 0) /\ Owed(e)' = 0
    BY <1>1, <1>2 DEF Owed
  <2>2. Cardinality(Temps(files[e])) + orphans[e] <= Owed(e) + spoiled
    BY DEF IInv, Work, Leftovers
  <2>3. orphans'[e] = IF e = job.dir THEN orphans[e] - 1 ELSE orphans[e]
    BY <1>2, <1>3
  <2> QED
    BY <1>1, <1>3, <2>1, <2>2, <2>3, Shapes
<1>6. Within'
  BY <1>1, <1>2, PruningWithin DEF Writing, Sweeping, Restores
<1>7. PlanHeld'
  <2> SUFFICES ASSUME NEW d \in Dirs, InPlan(d)'
               PROVE  /\ Pending(d)' => \E i \in 1..(1 + spoiled') :
                                           Restores(d, i)' /\ \A k \in 1..i : ~files'[d][k].old
                      /\ ~Pending(d)' /\ (KeepLatest[d] > spoiled' \/ AgeLimited) =>
                           \E i \in Nat : Restores(d, i)' /\ (d = job'.dir => i <= job'.kept)
    BY DEF PlanHeld
  <2>1. InPlan(d) /\ (Pending(d)' <=> Pending(d))
    BY <1>1, <1>2 DEF InPlan, Pending, Pruning
  <2> QED
    BY <1>1, <1>2, <2>1 DEF IInv, Work, PlanHeld, Restores
<1> QED
  BY <1>1, <1>2, <1>3, <1>4, <1>5, <1>6, <1>7, Shapes, JobStepKeeps DEF Work, Leftovers

LEMMA SweptKeeps ==
  ASSUME IInv, Swept
  PROVE  IInv'
<1>1. /\ job.pc = "sweep"
      /\ UNCHANGED <<live, files, orphans, spoiled, restore, temps, restores, proven>>
      /\ Marked'
  BY DEF Swept, other, IInv, Marked, Wanted
<1>2. \A e \in Dirs : Owed(e) = 0
  BY <1>1 DEF Owed
<1>3. CASE job.options.offsite /\ job.dir = "local"
  <2>1. job' = [job EXCEPT !.pc = "retain", !.dir = "offsite"]
    BY <1>3 DEF Swept, GotoDir
  <2>2. job' \in Jobs /\ job'.pc = "retain" /\ job'.options = job.options /\ job'.dir = "offsite"
    BY <2>1, Shapes DEF Jobs, Pcs, Dirs
  <2>3. Stage' /\ \A e \in Dirs : Owed(e)' = 0
    BY <2>2 DEF Stage, Writing, Owed
  <2>4. Leftovers'
    BY <1>1, <1>2, <2>3 DEF IInv, Work, Leftovers
  <2>5. Within'
    BY <1>1, <2>2, PruningWithin DEF Writing, Sweeping, Restores
  <2>6. PlanHeld'
    <3> SUFFICES ASSUME NEW d \in Dirs, InPlan(d)'
                 PROVE  /\ Pending(d)' => \E i \in 1..(1 + spoiled') :
                                             Restores(d, i)' /\ \A k \in 1..i : ~files'[d][k].old
                        /\ ~Pending(d)' /\ (KeepLatest[d] > spoiled' \/ AgeLimited) =>
                             \E i \in Nat : Restores(d, i)' /\ (d = job'.dir => i <= job'.kept)
      BY DEF PlanHeld
    <3>1. InPlan(d) /\ (Pending(d)' <=> Pending(d)) /\ (~Pending(d)' => d # "offsite")
      BY <1>1, <1>3, <2>2 DEF InPlan, Pending, Pruning, Dirs
    <3> QED
      BY <1>1, <2>2, <3>1 DEF IInv, Work, PlanHeld, Restores
  <2> QED
    BY <1>1, <2>2, <2>3, <2>4, <2>5, <2>6, Shapes, JobStepKeeps DEF Work
<1>4. CASE ~(job.options.offsite /\ job.dir = "local")
  <2>1. job' = NoJob
    BY <1>4 DEF Swept
  <2>2. job' \in Jobs /\ job'.pc = "idle"
    BY <2>1 DEF NoJob, Jobs, Dirs
  <2>3. Stage' /\ \A e \in Dirs : Owed(e)' = 0
    BY <2>2 DEF Stage, Writing, Owed
  <2>4. Leftovers'
    BY <1>1, <1>2, <2>3 DEF IInv, Work, Leftovers
  <2>5. Within'
    BY <1>1, <2>2, PruningWithin DEF Writing, Sweeping, Restores
  <2> QED
    BY <1>1, <2>2, <2>3, <2>4, <2>5, Shapes, NotPruning, JobStepKeeps DEF Work, Pruning
<1> QED
  BY <1>3, <1>4

\* An error, or a crash: the run is spoiled, and nothing is at work.
LEMMA FailKeeps ==
  ASSUME IInv, Fail
  PROVE  IInv'
<1>1. /\ job' = NoJob /\ spoiled' = spoiled + 1 /\ spoiled < MaxSpoiled
      /\ UNCHANGED <<live, files, orphans, restore, restores, proven>>
      /\ temps' \in {temps, temps + 1}
      /\ Marked'
  BY DEF Fail, IInv, Marked, Wanted
<1>2. job' \in Jobs /\ job'.pc = "idle"
  BY <1>1 DEF NoJob, Jobs, Dirs
<1>3. spoiled \in Nat /\ spoiled' \in 0..MaxSpoiled
  BY <1>1, Shapes
<1>4. Stage'
  BY <1>2 DEF Stage, Writing
<1>5. ASSUME NEW d \in Dirs
      PROVE  Cardinality(Temps(files'[d])) + orphans'[d] <= Owed(d)' + spoiled'
  <2>1. Owed(d) \in {0, 1} /\ Owed(d)' = 0
    BY <1>2 DEF Owed
  <2>2. Cardinality(Temps(files[d])) + orphans[d] <= Owed(d) + spoiled
    BY DEF IInv, Work, Leftovers
  <2>3. Cardinality(Temps(files[d])) \in Nat /\ orphans[d] \in Nat
    BY Shapes
  <2> QED
    BY <1>1, <1>3, <2>1, <2>2, <2>3
<1>6. Within'
  <2>1. ASSUME NEW d \in Dirs, NEW i \in Nat, Restores(d, i), i <= 1 + 2 * spoiled + Slack(d)
        PROVE  Restores(d, i)' /\ i <= 1 + 2 * spoiled' + Slack(d)'
    <3>1. Slack(d) \in -2..1 /\ Slack(d)' = 0
      BY <1>2 DEF Slack, BadRun, Writing
    <3>2. Restores(d, i)'
      BY <1>1, <2>1 DEF Restores
    <3> QED
      BY <1>1, <1>3, <2>1, <3>1, <3>2
  <2> QED
    BY <1>1, <1>2, <1>3, <2>1, WritingWithin DEF Sweeping
<1>7. PlanHeld'
  BY <1>2, NotPruning DEF Pruning
<1>8. TypeOK'
  <2>1. temps' \in Nat
    BY <1>1 DEF IInv, TypeOK
  <2> QED
    BY <1>1, <1>2, <1>3, <2>1 DEF IInv, TypeOK, Jobs
<1> QED
  BY <1>1, <1>4, <1>5, <1>6, <1>7, <1>8 DEF IInv, Undo, Work, Leftovers

-----------------------------------------------------------------------------
\* Restores, the program and the days.

\* Marks aside, the files stay what they are, and so does the command.
Alike ==
    /\ \A d \in Dirs : DOMAIN files'[d] = DOMAIN files[d] /\ Len(files'[d]) = Len(files[d])
    /\ \A d \in Dirs : \A i \in DOMAIN files[d] :
        /\ files'[d][i].kind = files[d][i].kind
        /\ files'[d][i].content = files[d][i].content
        /\ files'[d][i].sidecars = files[d][i].sidecars
        /\ files'[d][i].old = files[d][i].old
    /\ UNCHANGED <<orphans, job, proven>>
    /\ spoiled' \in {spoiled, spoiled + 1}

LEMMA AlikeKeeps ==
  ASSUME IInv, Alike
  PROVE  Work'
<1>1. /\ \A d \in Dirs : DOMAIN files'[d] = DOMAIN files[d] /\ Len(files'[d]) = Len(files[d])
      /\ \A d \in Dirs : DOMAIN files[d] = 1..Len(files[d]) /\ Len(files[d]) \in Nat
      /\ \A d \in Dirs : \A i \in DOMAIN files[d] :
            /\ files'[d][i].kind = files[d][i].kind
            /\ files'[d][i].content = files[d][i].content
            /\ files'[d][i].sidecars = files[d][i].sidecars
            /\ files'[d][i].old = files[d][i].old
      /\ orphans' = orphans /\ job' = job /\ proven' = proven
      /\ spoiled \in Nat /\ spoiled' \in Nat /\ spoiled <= spoiled'
  BY Shapes DEF Alike
<1>2. \A d \in Dirs : \A i \in Nat : Restores(d, i)' <=> Restores(d, i)
  BY <1>1 DEF Restores
<1>3. Stage'
  <2>1. Len(Here) >= 1 => /\ Here'[1].kind = Here[1].kind /\ Here'[1].content = Here[1].content
                          /\ Here'[1].sidecars = Here[1].sidecars /\ Here'[1].old = Here[1].old
    BY <1>1 DEF Here, Dirs
  <2>2. Len(Here) >= 2 => /\ Here'[2].kind = Here[2].kind /\ Here'[2].content = Here[2].content
                          /\ Here'[2].sidecars = Here[2].sidecars
    BY <1>1 DEF Here, Dirs
  <2>3. Len(There) >= 1 => There'[1].content = There[1].content /\ There'[1].old = There[1].old
    BY <1>1 DEF There, Dirs
  <2>4. Len(Here') = Len(Here) /\ Len(There') = Len(There)
    BY <1>1 DEF Here, There, Dirs
  <2>5. job.pc \in Writing => Len(Here) >= 1
    BY DEF IInv, Work, Stage
  <2>6. Len(Here) \in Nat
    BY <1>1 DEF Here, Dirs
  <2>7. Stage
    BY DEF IInv, Work
  <2> QED
    BY <1>1, <2>1, <2>2, <2>3, <2>4, <2>5, <2>6, <2>7 DEF Stage, FirstKind, Writing
<1>4. Leftovers'
  <2>1. \A d \in Dirs : Temps(files'[d]) = Temps(files[d])
    BY <1>1, SameTemps
  <2>2. \A d \in Dirs : Owed(d)' = Owed(d)
    BY <1>1 DEF Owed, FirstKind
  <2>3. \A d \in Dirs : Owed(d) \in {0, 1}
    BY DEF Owed
  <2> SUFFICES ASSUME NEW d \in Dirs
               PROVE  Cardinality(Temps(files'[d])) + orphans'[d] <= Owed(d)' + spoiled'
    BY DEF Leftovers
  <2>4. Cardinality(Temps(files[d])) + orphans[d] <= Owed(d) + spoiled
    BY DEF IInv, Work, Leftovers
  <2>5. Cardinality(Temps(files[d])) \in Nat /\ orphans[d] \in Nat
    BY Shapes
  <2> QED
    BY <1>1, <2>1, <2>2, <2>3, <2>4, <2>5
<1>5. \A d \in Dirs : Slack(d)' = Slack(d) /\ Slack(d) \in -2..1
  <2>1. job.pc \in Writing => RunContent' = RunContent
    <3>1. job.pc \in Writing => Len(files["local"]) >= 1
      BY DEF IInv, Work, Stage, Here
    <3>2. job.pc = "seal" => Len(files["local"]) >= 2
      BY DEF IInv, Work, Stage, Here
    <3>3. job.pc \in Writing => 1 \in DOMAIN files["local"]
      BY <1>1, <3>1 DEF Dirs
    <3>4. job.pc = "seal" => 2 \in DOMAIN files["local"]
      BY <1>1, <3>2 DEF Dirs
    <3> QED
      BY <1>1, <3>3, <3>4 DEF RunContent, Here, Dirs
  <2>2. BadRun' = BadRun
    BY <1>1, <2>1 DEF BadRun
  <2> QED
    BY <1>1, <2>2 DEF Slack
<1>6. PlanHeld'
  <2> SUFFICES ASSUME NEW d \in Dirs, InPlan(d)'
               PROVE  /\ Pending(d)' => \E i \in 1..(1 + spoiled') :
                                           Restores(d, i)' /\ \A k \in 1..i : ~files'[d][k].old
                      /\ ~Pending(d)' /\ (KeepLatest[d] > spoiled' \/ AgeLimited) =>
                           \E i \in Nat : Restores(d, i)' /\ (d = job'.dir => i <= job'.kept)
    BY DEF PlanHeld
  <2>1. InPlan(d) /\ (Pending(d)' <=> Pending(d))
    BY <1>1 DEF InPlan, Pending
  <2>2. CASE Pending(d)
    <3>1. PICK i \in 1..(1 + spoiled) : Restores(d, i) /\ \A k \in 1..i : ~files[d][k].old
      BY <2>1, <2>2 DEF IInv, Work, PlanHeld
    <3>2. i \in Nat /\ i \in DOMAIN files[d] /\ i \in 1..(1 + spoiled')
      BY <1>1, <3>1 DEF Restores
    <3>3. \A k \in 1..i : k \in DOMAIN files[d]
      BY <1>1, <3>2
    <3> QED
      BY <1>1, <1>2, <2>1, <2>2, <3>1, <3>2, <3>3
  <2>3. CASE ~Pending(d)
    <3> SUFFICES ASSUME KeepLatest[d] > spoiled' \/ AgeLimited
                 PROVE  \E i \in Nat : Restores(d, i)' /\ (d = job'.dir => i <= job'.kept)
      BY <2>1, <2>3
    <3>1. KeepLatest[d] > spoiled \/ AgeLimited
      BY <1>1, BackupAssumption
    <3>2. PICK i \in Nat : Restores(d, i) /\ (d = job.dir => i <= job.kept)
      BY <2>1, <2>3, <3>1 DEF IInv, Work, PlanHeld
    <3> QED
      BY <1>1, <1>2, <3>2
  <2> QED
    BY <2>2, <2>3
<1>7. Within'
  <2> SUFFICES ASSUME NEW d \in proven', 2 * spoiled' < KeepLatest[d]
               PROVE  \E i \in Nat :
                         /\ Restores(d, i)'
                         /\ i <= 1 + 2 * spoiled' + Slack(d)'
                         /\ job'.pc \in Sweeping /\ d = job'.dir => i <= job'.kept
    BY DEF Within
  <2>1. d \in Dirs /\ d \in proven /\ KeepLatest[d] \in Nat
    BY <1>1, Shapes, BackupAssumption
  <2>2. 2 * spoiled < KeepLatest[d]
    BY <1>1, <2>1
  <2>3. PICK i \in Nat :
          /\ Restores(d, i)
          /\ i <= 1 + 2 * spoiled + Slack(d)
          /\ job.pc \in Sweeping /\ d = job.dir => i <= job.kept
    BY <2>1, <2>2 DEF IInv, Work, Within
  <2>4. i <= 1 + 2 * spoiled' + Slack(d)'
    BY <1>1, <1>5, <2>1, <2>3
  <2> QED
    BY <1>1, <1>2, <2>1, <2>3, <2>4
<1> QED
  BY <1>3, <1>4, <1>6, <1>7 DEF Work

RestoreShape == [pc : {"idle", "decrypt", "overwrite"}, content : Contents, saved : Contents,
                 encrypted : BOOLEAN, dir : Dirs, written : BOOLEAN]

\* A step of a restore, of the program or of time.
LEMMA OtherStepKeeps ==
  ASSUME IInv, live' \in Contents, files' \in [Dirs -> Seq(Groups)], orphans' = orphans, job' \in Jobs,
         restore' \in RestoreShape, temps' \in {temps, temps + 1}, spoiled' \in 0..MaxSpoiled,
         restores' \in 0..MaxRestores, proven' = proven, Marked', Undo', Work'
  PROVE  IInv'
<1>1. temps' \in Nat
  BY DEF IInv, TypeOK
<1>2. TypeOK'
  BY <1>1 DEF IInv, TypeOK, Jobs, RestoreShape
<1> QED
  BY <1>2 DEF IInv

\* The restore is over, however it ended.
LEMMA UnmarkedFiles ==
  ASSUME IInv, files' = Unmarked, restore' = NoRestore, UNCHANGED <<orphans, job, proven>>,
         spoiled' \in {spoiled, spoiled + 1}
  PROVE  /\ files' \in [Dirs -> Seq(Groups)] /\ Alike /\ Marked' /\ Undo'
         /\ restore' \in RestoreShape
<1>1. ASSUME NEW d \in Dirs
      PROVE  /\ files'[d] \in Seq(Groups) /\ DOMAIN files'[d] = DOMAIN files[d]
             /\ Len(files'[d]) = Len(files[d])
             /\ \A i \in DOMAIN files[d] :
                  /\ files'[d][i].kind = files[d][i].kind
                  /\ files'[d][i].content = files[d][i].content
                  /\ files'[d][i].sidecars = files[d][i].sidecars
                  /\ files'[d][i].old = files[d][i].old
                  /\ files'[d][i].wanted = FALSE
  <2>1. files'[d] = [i \in DOMAIN files[d] |-> [files[d][i] EXCEPT !.wanted = FALSE]]
    BY DEF Unmarked
  <2>2. /\ Len(files[d]) \in Nat /\ DOMAIN files[d] = 1..Len(files[d])
        /\ \A i \in DOMAIN files[d] : files[d][i] \in Groups
    BY Shapes
  <2>3. \A i \in DOMAIN files[d] : [files[d][i] EXCEPT !.wanted = FALSE] \in Groups
    BY <2>2 DEF Groups
  <2>4. files'[d] \in [1..Len(files[d]) -> Groups]
    BY <2>1, <2>2, <2>3
  <2>5. files'[d] \in Seq(Groups)
    BY <2>2, <2>4, SeqDef
  <2>6. Len(files'[d]) = Len(files[d])
    BY <2>2, <2>4, <2>5, LenProperties
  <2>7. \A i \in DOMAIN files[d] : files[d][i] \in Groups
    BY <2>2
  <2> QED
    BY <2>1, <2>5, <2>6, <2>7 DEF Groups
<1>2. files' \in [Dirs -> Seq(Groups)]
  BY <1>1 DEF Unmarked
<1>3. Alike
  BY <1>1 DEF Alike
<1>4. \A d \in Dirs : Wanted(d)' = {}
  BY <1>1 DEF Wanted
<1>5. NoRestore.pc = "idle" /\ NoRestore \in RestoreShape
  BY BackupAssumption DEF NoRestore, RestoreShape, Dirs, Contents
<1> QED
  BY <1>2, <1>3, <1>4, <1>5 DEF Marked, Undo

LEMMA SaveKeeps ==
  ASSUME IInv, NEW d \in Dirs, NEW i \in DOMAIN files[d], Save(d, i)
  PROVE  IInv'
<1> DEFINE begun == [NoRestore EXCEPT !.pc = IF files[d][i].kind = "enc" THEN "decrypt" ELSE "overwrite",
                                      !.encrypted = files[d][i].kind = "enc",
                                      !.dir = d, !.saved = live]
<1>1. /\ restore.pc = "idle" /\ restores < MaxRestores /\ restores' = restores + 1
      /\ files' = [files EXCEPT ![d][i].wanted = TRUE] /\ restore' = begun
      /\ UNCHANGED <<live, orphans, job, temps, spoiled, proven>>
  BY DEF Save
<1>2. /\ begun \in RestoreShape /\ begun.pc \in {"decrypt", "overwrite"} /\ begun.dir = d
      /\ begun.saved = live /\ ~begun.written
  <2>1. (files[d][i].kind = "enc") \in BOOLEAN /\ live \in Contents
    BY Shapes
  <2> QED
    BY <2>1, BackupAssumption DEF NoRestore, RestoreShape, Contents
<1> HIDE DEF begun
<1>3. /\ files \in [Dirs -> Seq(Groups)] /\ files[d] \in Seq(Groups)
      /\ Len(files[d]) \in Nat /\ DOMAIN files[d] = 1..Len(files[d])
      /\ \A k \in DOMAIN files[d] : files[d][k] \in Groups
  BY Shapes
<1> DEFINE g == [files[d][i] EXCEPT !.wanted = TRUE]
<1>4. g \in Groups /\ g.wanted /\ g.kind = files[d][i].kind /\ g.content = files[d][i].content
      /\ g.sidecars = files[d][i].sidecars /\ g.old = files[d][i].old
  BY <1>3 DEF Groups
<1>5. files'[d] = [files[d] EXCEPT ![i] = g] /\ \A e \in Dirs \ {d} : files'[e] = files[e]
  BY <1>1, <1>3
<1> HIDE DEF g
<1>6. /\ files'[d] \in Seq(Groups) /\ Len(files'[d]) = Len(files[d]) /\ DOMAIN files'[d] = DOMAIN files[d]
      /\ files'[d][i] = g /\ \A k \in DOMAIN files[d] \ {i} : files'[d][k] = files[d][k]
  BY <1>3, <1>4, <1>5, ExceptSeq
<1>7. files' \in [Dirs -> Seq(Groups)]
  <2>1. files' = [files EXCEPT ![d] = files'[d]]
    BY <1>1, <1>3
  <2> QED
    BY <1>3, <1>6, <2>1
<1>8. Alike
  BY <1>1, <1>4, <1>5, <1>6 DEF Alike
<1>9. Marked'
  <2>1. \A e \in Dirs : Wanted(e) = {}
    BY <1>1 DEF IInv, Marked
  <2>2. Wanted(d)' = {i}
    BY <1>4, <1>6, <2>1 DEF Wanted
  <2>3. \A e \in Dirs \ {d} : Wanted(e)' = {}
    BY <1>5, <2>1 DEF Wanted
  <2> QED
    BY <1>1, <1>2, <2>2, <2>3 DEF Marked
<1>10. Undo'
  BY <1>1, <1>2 DEF Undo
<1>11. restores' \in 0..MaxRestores
  BY <1>1, BackupAssumption DEF IInv, TypeOK
<1> QED
  BY <1>1, <1>2, <1>7, <1>8, <1>9, <1>10, <1>11, Shapes, AlikeKeeps, OtherStepKeeps

LEMMA DecryptKeeps ==
  ASSUME IInv, Decrypt
  PROVE  IInv'
<1>1. PICK i \in Wanted(restore.dir) :
        restore' = [restore EXCEPT !.pc = "overwrite", !.content = files[restore.dir][i].content]
  BY DEF Decrypt
<1>2. restore.pc = "decrypt" /\ UNCHANGED <<live, files, orphans, job, temps, spoiled, restores, proven>>
  BY DEF Decrypt
<1>3. restore \in RestoreShape
  BY DEF IInv, TypeOK, RestoreShape
<1>4. files[restore.dir][i].content \in Contents
  <2>1. restore.dir \in Dirs
    BY <1>3 DEF RestoreShape
  <2>2. files[restore.dir][i] \in Groups
    BY <2>1, Shapes DEF Wanted
  <2> QED
    BY <1>1, <2>2 DEF Groups
<1>5. /\ restore' \in RestoreShape /\ restore'.dir = restore.dir /\ restore'.pc = "overwrite"
      /\ restore'.saved = restore.saved /\ restore'.written = restore.written
  BY <1>1, <1>3, <1>4 DEF RestoreShape
<1>6. Marked'
  BY <1>2, <1>5 DEF IInv, Marked, Wanted
<1>7. Undo'
  BY <1>2, <1>5 DEF IInv, Undo
<1>8. Alike
  BY <1>2 DEF Alike
<1>9. restores' \in 0..MaxRestores
  BY <1>2 DEF IInv, TypeOK
<1> QED
  BY <1>2, <1>5, <1>6, <1>7, <1>8, <1>9, Shapes, AlikeKeeps, OtherStepKeeps

LEMMA DecryptFailsKeeps ==
  ASSUME IInv, DecryptFails
  PROVE  IInv'
<1>1. /\ temps' = temps + 1 /\ restore' = NoRestore /\ files' = Unmarked
      /\ UNCHANGED <<live, orphans, job, spoiled, restores, proven>>
  BY DEF DecryptFails
<1>2. /\ files' \in [Dirs -> Seq(Groups)] /\ Alike /\ Marked' /\ Undo' /\ restore' \in RestoreShape
  BY <1>1, UnmarkedFiles
<1>3. restores' \in 0..MaxRestores
  BY <1>1 DEF IInv, TypeOK
<1> QED
  BY <1>1, <1>2, <1>3, Shapes, AlikeKeeps, OtherStepKeeps

\* What SQLite makes of a file is something a database may hold.
LEMMA OpenedIs ==
  ASSUME NEW content \in Contents
  PROVE  Opened(content) \subseteq Contents
BY BackupAssumption DEF Opened, Contents

LEMMA OverwriteKeeps ==
  ASSUME IInv, Overwrite
  PROVE  IInv'
<1>1. /\ restore' = NoRestore /\ files' = Unmarked
      /\ UNCHANGED <<orphans, job, temps, spoiled, restores, proven>>
  BY DEF Overwrite
<1>2. /\ files' \in [Dirs -> Seq(Groups)] /\ Alike /\ Marked' /\ Undo' /\ restore' \in RestoreShape
  BY <1>1, UnmarkedFiles
<1>3. restores' \in 0..MaxRestores
  BY <1>1 DEF IInv, TypeOK
<1>4. restore \in RestoreShape /\ restore.dir \in Dirs
  BY DEF IInv, TypeOK, RestoreShape
<1>5. live' \in Contents
  <2>1. CASE restore.encrypted
    <3>1. restore.content \in Contents /\ live' \in Opened(restore.content)
      BY <1>4, <2>1 DEF Overwrite, RestoreShape
    <3> QED
      BY <3>1, OpenedIs
  <2>2. CASE ~restore.encrypted
    <3>1. PICK i \in Wanted(restore.dir) : live' \in Opened(files[restore.dir][i].content)
      BY <2>2 DEF Overwrite
    <3>2. files[restore.dir][i] \in Groups
      BY <1>4, <3>1, Shapes DEF Wanted
    <3>3. files[restore.dir][i].content \in Contents
      BY <3>2 DEF Groups
    <3> QED
      BY <3>1, <3>3, OpenedIs
  <2> QED
    BY <2>1, <2>2
<1> QED
  BY <1>1, <1>2, <1>3, <1>5, Shapes, AlikeKeeps, OtherStepKeeps

LEMMA RestoreFailsKeeps ==
  ASSUME IInv, RestoreFails
  PROVE  IInv'
<1>1. /\ restore' = NoRestore /\ files' = Unmarked
      /\ UNCHANGED <<live, orphans, job, temps, spoiled, restores, proven>>
  BY DEF RestoreFails
<1>2. /\ files' \in [Dirs -> Seq(Groups)] /\ Alike /\ Marked' /\ Undo' /\ restore' \in RestoreShape
  BY <1>1, UnmarkedFiles
<1>3. restores' \in 0..MaxRestores
  BY <1>1 DEF IInv, TypeOK
<1> QED
  BY <1>1, <1>2, <1>3, Shapes, AlikeKeeps, OtherStepKeeps

LEMMA RestoreDiesKeeps ==
  ASSUME IInv, RestoreDies
  PROVE  IInv'
<1>1. /\ restore' = NoRestore /\ files' = Unmarked
      /\ spoiled < MaxSpoiled /\ spoiled' = spoiled + 1
      /\ temps' \in {temps, temps + 1}
      /\ UNCHANGED <<live, orphans, job, restores, proven>>
  BY DEF RestoreDies
<1>2. /\ files' \in [Dirs -> Seq(Groups)] /\ Alike /\ Marked' /\ Undo' /\ restore' \in RestoreShape
  BY <1>1, UnmarkedFiles
<1>3. restores' \in 0..MaxRestores
  BY <1>1 DEF IInv, TypeOK
<1>4. spoiled' \in 0..MaxSpoiled
  BY <1>1, Shapes
<1> QED
  BY <1>1, <1>2, <1>3, <1>4, Shapes, AlikeKeeps, OtherStepKeeps

\* The empty file of a restore whose backup is gone comes before the others.
LEMMA OverwriteGoneKeeps ==
  ASSUME IInv, OverwriteGone
  PROVE  IInv'
<1> DEFINE g == NewGroup("plain", Empty)
<1>2. PICK d \in Dirs : d = restore.dir
  BY DEF IInv, TypeOK
<1>1. /\ restore.pc = "overwrite" /\ Wanted(d) = {}
      /\ job.pc \in {"idle", "retain", "sweep", "sweepSidecars"}
      /\ spoiled < MaxSpoiled /\ spoiled' = spoiled + 1
      /\ live' = Empty /\ Push(d, g) /\ restore' = NoRestore
      /\ job' = IF job.dir = d THEN [job EXCEPT !.kept = @ + 1] ELSE job
      /\ UNCHANGED <<orphans, temps, restores, proven>>
  BY <1>2 DEF OverwriteGone
<1>3. g \in Groups /\ ~g.wanted /\ ~g.old /\ One(g.kind) = 0
  BY BackupAssumption DEF NewGroup, Groups, One, Contents
<1> HIDE DEF g
<1>4. /\ files' \in [Dirs -> Seq(Groups)] /\ \A e \in Dirs \ {d} : files'[e] = files[e]
      /\ Len(files'[d]) = Len(files[d]) + 1 /\ files'[d][1] = g
      /\ \A i \in DOMAIN files[d] : i + 1 \in DOMAIN files'[d] /\ files'[d][i + 1] = files[d][i]
      /\ Cardinality(Temps(files'[d])) <= Cardinality(Temps(files[d])) + 0
      /\ Cardinality(Temps(files'[d])) \in Nat
  BY <1>1, <1>2, <1>3, PushFiles
<1>5. /\ job' \in Jobs /\ job'.pc = job.pc /\ job'.options = job.options /\ job'.dir = job.dir
      /\ job'.kept = IF job.dir = d THEN job.kept + 1 ELSE job.kept
      /\ job.kept \in Nat
  <2>1. job \in Jobs
    BY Shapes
  <2>2. CASE job.dir = d
    BY <1>1, <2>1, <2>2 DEF Jobs
  <2>3. CASE job.dir # d
    BY <1>1, <2>1, <2>3 DEF Jobs
  <2> QED
    BY <2>2, <2>3
<1>6. spoiled \in Nat /\ spoiled' \in 0..MaxSpoiled
  BY <1>1, Shapes
<1>7. /\ \A e \in Dirs : DOMAIN files[e] = 1..Len(files[e]) /\ Len(files[e]) \in Nat
      /\ DOMAIN files'[d] = 1..(Len(files[d]) + 1)
  <2>1. files'[d] \in Seq(Groups)
    BY <1>2, <1>4
  <2>2. DOMAIN files'[d] = 1..Len(files'[d])
    BY <2>1, SeqFacts
  <2> QED
    BY <1>4, <2>2, Shapes
<1>8. ASSUME NEW e \in Dirs, NEW i \in Nat, Restores(e, i)
      PROVE  \E k \in Nat : /\ Restores(e, k)' /\ k <= i + 1
                            /\ e = job.dir /\ i <= job.kept => k <= job'.kept
  <2>1. CASE e = d
    <3>1. i + 1 \in DOMAIN files'[d] /\ files'[d][i + 1] = files[d][i] /\ files[d][i].content \in Healthy
      BY <1>4, <1>8, <2>1 DEF Restores
    <3>2. Restores(e, i + 1)'
      BY <2>1, <3>1 DEF Restores
    <3> QED
      BY <1>5, <2>1, <3>2
  <2>2. CASE e # d
    <3>1. files'[e] = files[e]
      BY <1>4, <2>2
    <3>2. Restores(e, i)'
      BY <1>8, <3>1 DEF Restores
    <3> QED
      BY <1>5, <3>2
  <2> QED
    BY <2>1, <2>2
<1>9. \A e \in Dirs : Wanted(e)' = {}
  <2>1. \A e \in Dirs : Wanted(e) = {}
    BY <1>1, <1>2 DEF IInv, Marked
  <2>2. ASSUME NEW i \in DOMAIN files'[d], files'[d][i].wanted PROVE FALSE
    <3>1. i # 1
      BY <1>3, <1>4, <2>2
    <3>2. i \in 1..(Len(files[d]) + 1) /\ DOMAIN files[d] = 1..Len(files[d]) /\ Len(files[d]) \in Nat
      BY <1>7
    <3>3. i - 1 \in DOMAIN files[d] /\ (i - 1) + 1 = i
      BY <3>1, <3>2
    <3>4. files'[d][i] = files[d][i - 1]
      BY <1>4, <3>3
    <3> QED
      BY <2>1, <2>2, <3>3, <3>4 DEF Wanted
  <2>3. ASSUME NEW e \in Dirs, e # d PROVE Wanted(e)' = {}
    BY <1>4, <2>1, <2>3 DEF Wanted
  <2> QED
    BY <2>2, <2>3 DEF Wanted
<1>10. NoRestore.pc = "idle" /\ NoRestore \in RestoreShape
  BY BackupAssumption DEF NoRestore, RestoreShape, Dirs, Contents
<1>11. Marked' /\ Undo'
  BY <1>1, <1>9, <1>10 DEF Marked, Undo
<1>12. Stage'
  BY <1>1, <1>5 DEF IInv, Work, Stage, Writing
<1>13. ASSUME NEW e \in Dirs
       PROVE  Cardinality(Temps(files'[e])) + orphans'[e] <= Owed(e)' + spoiled'
  <2>1. Owed(e)' = Owed(e) /\ Owed(e) \in {0, 1}
    BY <1>5 DEF Owed, FirstKind
  <2>2. Cardinality(Temps(files[e])) + orphans[e] <= Owed(e) + spoiled
    BY DEF IInv, Work, Leftovers
  <2>3. Cardinality(Temps(files[e])) \in Nat /\ orphans[e] \in Nat
    BY Shapes
  <2>4. Cardinality(Temps(files'[e])) <= Cardinality(Temps(files[e])) /\ Cardinality(Temps(files'[e])) \in Nat
    BY <1>4, <2>3
  <2> QED
    BY <1>1, <1>6, <2>1, <2>2, <2>3, <2>4
<1>15. PlanHeld'
  <2> SUFFICES ASSUME NEW e \in Dirs, InPlan(e)'
               PROVE  /\ Pending(e)' => \E i \in 1..(1 + spoiled') :
                                           Restores(e, i)' /\ \A k \in 1..i : ~files'[e][k].old
                      /\ ~Pending(e)' /\ (KeepLatest[e] > spoiled' \/ AgeLimited) =>
                           \E i \in Nat : Restores(e, i)' /\ (e = job'.dir => i <= job'.kept)
    BY DEF PlanHeld
  <2>1. InPlan(e) /\ (Pending(e)' <=> Pending(e))
    BY <1>5 DEF InPlan, Pending
  <2>2. CASE Pending(e)
    <3>1. PICK i \in 1..(1 + spoiled) : Restores(e, i) /\ \A k \in 1..i : ~files[e][k].old
      BY <2>1, <2>2 DEF IInv, Work, PlanHeld
    <3>2. i \in Nat /\ i \in DOMAIN files[e]
      BY <1>6, <3>1 DEF Restores
    <3>3. CASE e # d
      <4>1. files'[e] = files[e] /\ i \in 1..(1 + spoiled')
        BY <1>1, <1>4, <1>6, <3>1, <3>3
      <4>2. Restores(e, i)' /\ \A k \in 1..i : ~files'[e][k].old
        BY <3>1, <4>1 DEF Restores
      <4> QED
        BY <2>1, <2>2, <4>1, <4>2
    <3>4. CASE e = d
      <4>1. i + 1 \in 1..(1 + spoiled')
        BY <1>1, <1>6, <3>1
      <4>2. Restores(d, i + 1)'
        BY <1>4, <3>1, <3>4 DEF Restores
      <4>3. ASSUME NEW k \in 1..(i + 1)
            PROVE  ~files'[d][k].old
        <5>1. CASE k = 1
          BY <1>3, <1>4, <5>1
        <5>2. CASE k # 1
          <6>1. k - 1 \in 1..i /\ k - 1 \in DOMAIN files[d] /\ (k - 1) + 1 = k
            BY <1>7, <3>2, <3>4, <5>2
          <6>2. files'[d][k] = files[d][k - 1]
            BY <1>4, <6>1
          <6> QED
            BY <3>1, <3>4, <6>1, <6>2
        <5> QED
          BY <5>1, <5>2
      <4> QED
        BY <2>1, <2>2, <3>4, <4>1, <4>2, <4>3
    <3> QED
      BY <3>3, <3>4
  <2>3. CASE ~Pending(e)
    <3> SUFFICES ASSUME KeepLatest[e] > spoiled' \/ AgeLimited
                 PROVE  \E i \in Nat : Restores(e, i)' /\ (e = job'.dir => i <= job'.kept)
      BY <2>1, <2>3
    <3>1. KeepLatest[e] > spoiled \/ AgeLimited
      BY <1>1, <1>6, BackupAssumption
    <3>2. PICK i \in Nat : Restores(e, i) /\ (e = job.dir => i <= job.kept)
      BY <2>1, <2>3, <3>1 DEF IInv, Work, PlanHeld
    <3>3. PICK k \in Nat : /\ Restores(e, k)' /\ k <= i + 1
                           /\ e = job.dir /\ i <= job.kept => k <= job'.kept
      BY <1>8, <3>2
    <3> QED
      BY <1>5, <3>2, <3>3
  <2> QED
    BY <2>2, <2>3
<1>16. Within'
  <2> SUFFICES ASSUME NEW e \in proven', 2 * spoiled' < KeepLatest[e]
               PROVE  \E i \in Nat :
                         /\ Restores(e, i)'
                         /\ i <= 1 + 2 * spoiled' + Slack(e)'
                         /\ job'.pc \in Sweeping /\ e = job'.dir => i <= job'.kept
    BY DEF Within
  <2>1. e \in Dirs /\ e \in proven /\ KeepLatest[e] \in Nat
    BY <1>1, Shapes, BackupAssumption
  <2>2. Slack(e) = 0 /\ Slack(e)' = 0
    BY <1>1, <1>5 DEF Slack, BadRun, Writing
  <2>3. 2 * spoiled < KeepLatest[e]
    BY <1>1, <1>6, <2>1
  <2>4. PICK i \in Nat :
          /\ Restores(e, i)
          /\ i <= 1 + 2 * spoiled + Slack(e)
          /\ job.pc \in Sweeping /\ e = job.dir => i <= job.kept
    BY <2>1, <2>3 DEF IInv, Work, Within
  <2>5. PICK k \in Nat : /\ Restores(e, k)' /\ k <= i + 1
                         /\ e = job.dir /\ i <= job.kept => k <= job'.kept
    BY <1>8, <2>1, <2>4
  <2>6. k <= 1 + 2 * spoiled' + Slack(e)'
    BY <1>1, <1>6, <2>2, <2>4, <2>5
  <2> QED
    BY <1>5, <2>4, <2>5, <2>6
<1>17. live' \in Contents /\ restores' \in 0..MaxRestores
  BY <1>1, BackupAssumption DEF IInv, TypeOK, Contents
<1> QED
  BY <1>1, <1>4, <1>5, <1>6, <1>10, <1>11, <1>12, <1>13, <1>15, <1>16, <1>17, OtherStepKeeps
     DEF Work, Leftovers

LEMMA WriteKeeps ==
  ASSUME IInv, NEW v \in Versions, Write(v)
  PROVE  IInv'
<1>1. /\ live' = v /\ restore' = [restore EXCEPT !.written = restore.pc # "idle"]
      /\ UNCHANGED <<files, orphans, job, temps, spoiled, restores, proven>>
  BY DEF Write
<1>2. restore \in RestoreShape
  BY DEF IInv, TypeOK, RestoreShape
<1>3. /\ restore' \in RestoreShape /\ restore'.dir = restore.dir /\ restore'.pc = restore.pc
      /\ restore'.written = (restore.pc # "idle")
  BY <1>1, <1>2 DEF RestoreShape
<1>4. Marked'
  BY <1>1, <1>3 DEF IInv, Marked, Wanted
<1>5. Undo'
  BY <1>3 DEF Undo
<1>6. Alike
  BY <1>1 DEF Alike
<1>7. restores' \in 0..MaxRestores
  BY <1>1 DEF IInv, TypeOK
<1> QED
  BY <1>1, <1>3, <1>4, <1>5, <1>6, <1>7, Shapes, AlikeKeeps, OtherStepKeeps DEF Contents

\* Age decides about retention only once a command is at work.
LEMMA AgeKeeps ==
  ASSUME IInv, NEW d \in Dirs, Age(d)
  PROVE  IInv'
<1> DEFINE n == Fresh(d)
<1>1. /\ job.pc = "idle" /\ n > 0 /\ files' = [files EXCEPT ![d][n].old = TRUE]
      /\ UNCHANGED <<live, orphans, job, restore, temps, spoiled, restores, proven>>
  BY DEF Age
<1>2. /\ files \in [Dirs -> Seq(Groups)] /\ files[d] \in Seq(Groups)
      /\ Len(files[d]) \in Nat /\ DOMAIN files[d] = 1..Len(files[d])
      /\ \A k \in DOMAIN files[d] : files[d][k] \in Groups
  BY Shapes
<1>3. n \in DOMAIN files[d]
  <2> DEFINE fresh == {i \in DOMAIN files[d] : ~files[d][i].old}
  <2>1. IsFiniteSet(DOMAIN files[d]) /\ Cardinality(DOMAIN files[d]) = Len(files[d])
    <3>1. /\ IsFiniteSet(1..Len(files[d]))
          /\ Cardinality(1..Len(files[d])) = IF 1 > Len(files[d]) THEN 0 ELSE Len(files[d]) - 1 + 1
      BY <1>2, FS_Interval
    <3> QED
      BY <1>2, <3>1
  <2>2. Cardinality(fresh) <= Len(files[d]) /\ Cardinality(fresh) \in Nat
    BY <2>1, FS_Subset, FS_CardinalityType
  <2> QED
    BY <1>1, <1>2, <2>2 DEF Fresh
<1> HIDE DEF n
<1> DEFINE g == [files[d][n] EXCEPT !.old = TRUE]
<1>4. g \in Groups /\ g.wanted = files[d][n].wanted /\ g.kind = files[d][n].kind /\ g.content = files[d][n].content
  BY <1>2, <1>3 DEF Groups
<1>5. files'[d] = [files[d] EXCEPT ![n] = g] /\ \A e \in Dirs \ {d} : files'[e] = files[e]
  BY <1>1, <1>2
<1> HIDE DEF g
<1>6. /\ files'[d] \in Seq(Groups) /\ Len(files'[d]) = Len(files[d]) /\ DOMAIN files'[d] = DOMAIN files[d]
      /\ files'[d][n] = g /\ \A k \in DOMAIN files[d] \ {n} : files'[d][k] = files[d][k]
  BY <1>2, <1>3, <1>4, <1>5, ExceptSeq
<1>7. files' \in [Dirs -> Seq(Groups)]
  <2>1. files' = [files EXCEPT ![d] = files'[d]]
    BY <1>1, <1>2
  <2> QED
    BY <1>2, <1>6, <2>1
<1>8. ASSUME NEW e \in Dirs
      PROVE  /\ DOMAIN files'[e] = DOMAIN files[e]
             /\ \A i \in DOMAIN files[e] :
                  /\ files'[e][i].kind = files[e][i].kind
                  /\ files'[e][i].content = files[e][i].content
                  /\ files'[e][i].wanted = files[e][i].wanted
  BY <1>4, <1>5, <1>6
<1>9. Marked'
  <2>1. \A e \in Dirs : Wanted(e)' = Wanted(e)
    BY <1>8 DEF Wanted
  <2> QED
    BY <1>1, <2>1 DEF IInv, Marked
<1>10. Undo'
  BY <1>1 DEF IInv, Undo
<1>11. Stage' /\ PlanHeld'
  BY <1>1, NotPruning DEF Stage, Writing, Pruning
<1>12. Leftovers'
  <2>1. \A e \in Dirs : Temps(files'[e]) = Temps(files[e])
    BY <1>8, SameTemps
  <2>2. \A e \in Dirs : Owed(e) = 0 /\ Owed(e)' = 0
    BY <1>1 DEF Owed
  <2> QED
    BY <1>1, <2>1, <2>2 DEF IInv, Work, Leftovers
<1>13. Within'
  <2>1. \A e \in Dirs : \A i \in Nat : Restores(e, i)' <=> Restores(e, i)
    BY <1>8 DEF Restores
  <2> QED
    BY <1>1, <2>1, PruningWithin DEF Writing, Sweeping
<1>14. restores' \in 0..MaxRestores /\ restore' \in RestoreShape
  BY <1>1 DEF IInv, TypeOK, RestoreShape
<1> QED
  BY <1>1, <1>7, <1>9, <1>10, <1>11, <1>12, <1>13, <1>14, Shapes, OtherStepKeeps DEF Work

-----------------------------------------------------------------------------
LEMMA InitIInv == Init => IInv
<1> SUFFICES ASSUME Init PROVE IInv
  OBVIOUS
<1>1. /\ live \in Contents /\ job = NoJob /\ restore = NoRestore /\ spoiled = 0 /\ proven = {}
      /\ \A d \in Dirs : files[d] = <<>> /\ orphans[d] = 0
      /\ files \in [Dirs -> Seq(Groups)] /\ orphans \in [Dirs -> Nat]
  BY BackupAssumption, EmptySeq DEF Init, Contents
<1>2. NoJob \in Jobs /\ NoJob.pc = "idle" /\ NoRestore \in RestoreShape /\ NoRestore.pc = "idle"
  BY BackupAssumption DEF NoJob, Jobs, NoRestore, RestoreShape, Dirs, Contents
<1>3. TypeOK
  BY <1>1, <1>2, BackupAssumption DEF Init, TypeOK, Jobs, RestoreShape
<1>4. \A d \in Dirs : DOMAIN files[d] = {}
  BY <1>1
<1>5. Marked /\ Undo
  BY <1>1, <1>2, <1>4 DEF Marked, Wanted, Undo
<1>6. \A d \in Dirs : Cardinality(Temps(files[d])) = 0 /\ Owed(d) = 0
  <2>1. \A d \in Dirs : Temps(files[d]) = {}
    BY <1>4 DEF Temps
  <2> QED
    BY <1>1, <1>2, <2>1, FS_EmptySet DEF Owed
<1>7. Stage /\ Leftovers /\ PlanHeld /\ Within
  BY <1>1, <1>2, <1>6 DEF Stage, Leftovers, PlanHeld, InPlan, Within, Writing, Pruning
<1> QED
  BY <1>3, <1>5, <1>7 DEF IInv, Work

LEMMA StutterKeeps ==
  ASSUME IInv, UNCHANGED vars
  PROVE  IInv'
<1>1. UNCHANGED <<live, files, orphans, job, restore, temps, spoiled, restores, proven>>
  BY DEF vars
<1>2. Alike
  BY <1>1 DEF Alike
<1>3. Marked' /\ Undo'
  BY <1>1 DEF IInv, Marked, Wanted, Undo
<1>4. restores' \in 0..MaxRestores /\ restore' \in RestoreShape
  BY <1>1 DEF IInv, TypeOK, RestoreShape
<1> QED
  BY <1>1, <1>2, <1>3, <1>4, Shapes, AlikeKeeps, OtherStepKeeps

\* The inductive invariant holds in every reachable state.
THEOREM Invariance == Spec => []IInv
<1>1. ASSUME IInv, [Next]_vars
      PROVE  IInv'
  <2>1. CASE StartPlan \/ StartBackup
    BY <1>1, <2>1, StartKeeps DEF StartPlan, StartBackup
  <2>2. CASE \E d \in Dirs : StartPrune(d)
    BY <1>1, <2>2, StartPruneKeeps
  <2>3. CASE Copy
    BY <1>1, <2>3, CopyKeeps
  <2>4. CASE BackupStep
    BY <1>1, <2>4, ChecksumKeeps, EncryptKeeps, SealKeeps, ManifestKeeps, UnlinkKeeps,
       UnlinkSidecarKeeps, OffsiteKeeps, SendKeeps DEF BackupStep
  <2>5. CASE PlanStep
    BY <1>1, <2>5, DrillKeeps, RetainKeeps, SweepKeeps, SweepSidecarsKeeps, SweptKeeps DEF PlanStep
  <2>6. CASE Fail
    BY <1>1, <2>6, FailKeeps
  <2>7. CASE Restore
    BY <1>1, <2>7, SaveKeeps, DecryptKeeps, DecryptFailsKeeps, OverwriteKeeps, OverwriteGoneKeeps,
       RestoreFailsKeeps, RestoreDiesKeeps DEF Restore
  <2>8. CASE \E v \in Versions : Write(v)
    BY <1>1, <2>8, WriteKeeps
  <2>9. CASE \E d \in Dirs : Age(d)
    BY <1>1, <2>9, AgeKeeps
  <2>10. CASE UNCHANGED vars
    BY <1>1, <2>10, StutterKeeps
  <2> QED
    BY <1>1, <2>1, <2>2, <2>3, <2>4, <2>5, <2>6, <2>7, <2>8, <2>9, <2>10 DEF Next
<1> QED
  BY <1>1, InitIInv, PTL DEF Spec

\* Every variable keeps its type, whatever crashes leave and restores take: what
\* the other theorems assume of files, jobs and restores.  The database holds a
\* version of it, or what restore_database makes of a file that was cut short.
THEOREM TypeCorrect == Spec => []TypeOK
<1>1. IInv => TypeOK
  BY DEF IInv
<1> QED
  BY <1>1, Invariance, PTL

\* scripts/backup_db.py leaves at most one plaintext or one orphan sidecar per
\* run that died, in each directory, besides what the run at work will remove.
THEOREM LeftoversHold == Spec => []LeftoversBounded
<1>1. ASSUME IInv PROVE LeftoversBounded
  <2> SUFFICES ASSUME NEW d \in Dirs
               PROVE  Cardinality(Temporaries(d)) + orphans[d] <= AtWork + spoiled
    BY DEF LeftoversBounded
  <2>1. Temporaries(d) = Temps(files[d])
    BY DEF Temporaries, Temps
  <2>2. Cardinality(Temps(files[d])) + orphans[d] <= Owed(d) + spoiled
    BY <1>1 DEF IInv, Work, Leftovers
  <2>3. Owed(d) \in {0, 1} /\ AtWork \in {0, 1} /\ (Owed(d) = 1 => AtWork = 1)
    BY DEF Owed, AtWork
  <2>4. Cardinality(Temps(files[d])) \in Nat /\ orphans[d] \in Nat /\ spoiled \in Nat
    BY <1>1, Shapes
  <2> QED
    BY <2>1, <2>2, <2>3, <2>4
<1> QED
  BY <1>1, Invariance, PTL

\* Once a drill has passed, retention leaves a backup that restores in each
\* directory it was put into, while keep_latest is above twice the spoiled runs.
THEOREM RecoverableHolds == Spec => []Recoverable
<1>1. ASSUME IInv PROVE Recoverable
  BY <1>1 DEF IInv, Work, Within, Recoverable, Restorable, Restores
<1> QED
  BY <1>1, Invariance, PTL

\* run_backup_plan: the retention that follows a drill leaves what was drilled,
\* here and off site.
THEOREM PlanRecoverableHolds == Spec => []PlanRecoverable
<1>1. ASSUME IInv PROVE PlanRecoverable
  <2> SUFFICES ASSUME NEW d \in {"local"} \cup (IF job.options.offsite THEN {"offsite"} ELSE {}),
                      job.pc \in {"retain", "sweep", "sweepSidecars"},
                      job.options.command = "plan", job.options.drill,
                      KeepLatest[d] > spoiled \/ AgeLimited
               PROVE  Restorable(d)
    BY DEF PlanRecoverable
  <2>1. d \in Dirs /\ InPlan(d)
    BY DEF InPlan, Pruning, Dirs
  <2>2. \E i \in Nat : Restores(d, i)
    <3>1. CASE Pending(d)
      <4>1. PICK i \in 1..(1 + spoiled) : Restores(d, i)
        BY <1>1, <2>1, <3>1 DEF IInv, Work, PlanHeld
      <4> QED
        BY <1>1, <4>1, Shapes
    <3>2. CASE ~Pending(d)
      BY <1>1, <2>1, <3>2 DEF IInv, Work, PlanHeld
    <3> QED
      BY <3>1, <3>2
  <2> QED
    BY <2>2 DEF Restores, Restorable
<1> QED
  BY <1>1, Invariance, PTL

\* restore_database: what a restore overwrites was saved to pre_restore_* first,
\* unless the program wrote in between.
THEOREM RestoresUndoable == Spec => RestoreUndoable
<1>1. ASSUME IInv, [Next]_vars
      PROVE  [live' # live /\ restore'.pc = "idle" /\ restore.pc = "overwrite"
              => live = restore.saved \/ restore.written]_vars
  BY <1>1 DEF IInv, Undo
<1> QED
  BY <1>1, Invariance, PTL DEF Spec, RestoreUndoable
=============================================================================
