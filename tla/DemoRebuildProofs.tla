-------------------------- MODULE DemoRebuildProofs --------------------------
(***************************************************************************)
(* Theorems about DemoRebuild for any number of threads, scripts and       *)
(* files, and any bound on what others ask for and on what fails.          *)
(***************************************************************************)
EXTENDS DemoRebuild, TLAPS

-----------------------------------------------------------------------------
\* The inductive invariant.

\* One file is never at both paths, and who builds has a file open.
Apart ==
    /\ tmp # NONE => db # tmp
    /\ \A w \in Workers : job[w].pc = "build" => job[w].inode \in Inodes

\* What the temporary path leads to, at each stage of a rebuild.
Stage(j) ==
    /\ j.pc = "create" => tmp = NONE
    /\ j.pc = "build" => tmp = j.inode
    /\ j.pc \in {"built", "unwal", "replace"} => tmp # NONE /\ content[tmp] = "whole"

\* While no two have been at work at once.
Orderly ==
    ~overlapped =>
        /\ \A v, w \in Workers : job[v].pc \in Rebuilding /\ job[w].pc \in Rebuilding => v = w
        /\ \A w \in Workers : Stage(job[w])
        /\ db # NONE => content[db] # "part"

\* Only the service keeps a report, and a job with one is for the report.
Storing == {"admit", "deny"}
Reporting == {"accept", "refuse"} \cup Storing
Mine(w) ==
    /\ job[w].kind = "ready" => w \in Threads
    /\ job[w].pc \in Reporting => job[w].kind = "ready"

\* A report says ready only of a moment when the database was whole, a request
\* came before its report, and the time it has written last is its own.
Truthful ==
    /\ Whole => sinceWhole = 0
    /\ \A w \in Workers : Mine(w) /\ (job[w].pc \in {"accept", "admit"} => sinceWhole <= job[w].age)
    /\ job[stamper].pc \in Storing => cache.age = job[stamper].age
    /\ CacheHonest

IInv == TypeOK /\ Apart /\ Orderly /\ Truthful

-----------------------------------------------------------------------------
\* What the parts of a step keep.

LEMMA Basics ==
  /\ NONE \notin Inodes /\ TTL \in Nat /\ MaxInode \in Nat
  /\ Poller \in Workers /\ \A w \in Threads \cup Scripts : w \in Workers
  /\ \A a \in 0..TTL : Older(a) \in 0..TTL /\ a <= Older(a)
  /\ \A a, b \in 0..TTL : a <= b => Older(a) <= Older(b)
BY RebuildAssumption DEF NONE, Inodes, Workers, Older

\* What somebody refers to is not collected.
LEMMA Collected ==
  ASSUME NEW c \in [Inodes -> Contents], Collect(c)
  PROVE  /\ content' \in [Inodes -> Contents]
         /\ db' \in Inodes => content'[db'] = c[db']
         /\ tmp' \in Inodes => content'[tmp'] = c[tmp']
<1>1. content' = [i \in Inodes |-> IF i \in Referred THEN c[i] ELSE "none"]
  BY DEF Collect
<1>2. db' \in Referred /\ tmp' \in Referred
  BY DEF Referred
<1>3. "none" \in Contents
  BY DEF Contents
<1> QED
  BY <1>1, <1>2, <1>3

\* A connection finds the database, or creates one that nothing else is.
LEMMA Connected ==
  ASSUME IInv, NEW i \in Inodes, Connect(i)
  PROVE  /\ i # tmp
         /\ db # NONE => i = db
         /\ db = NONE => \A w \in Workers : i # job[w].inode
BY Basics DEF Connect, New, Used, IInv, Apart

CachedType == cache \in [ready : BOOLEAN, age : 0..TTL] /\ stamper \in Workers /\ slack \in 0..TTL

Jobs == [pc : Pcs, kind : Kinds, stage : 0..4,
         inode : Inodes \cup {NONE}, age : 0..TTL]

LEMMA JobIs ==
  ASSUME TypeOK, NEW w \in Workers
  PROVE  job[w] \in Jobs /\ job = [v \in Workers |-> job[v]] /\ job \in [Workers -> Jobs]
BY DEF TypeOK, Jobs

LEMMA NoJobIs ==
  NoJob \in Jobs /\ NoJob.pc = "idle" /\ NoJob.kind = "visit" /\ NoJob.inode = NONE /\ NoJob.age = 0
BY Basics DEF NoJob, Jobs, Pcs, Kinds

\* A step that puts one worker's job in place of another.
LEMMA OneJob ==
  ASSUME TypeOK, NEW w \in Workers, NEW n \in Jobs, job' = [job EXCEPT ![w] = n]
  PROVE  /\ job' \in [Workers -> Jobs] /\ job'[w] = n
         /\ \A v \in Workers \ {w} : job'[v] = job[v]
BY JobIs

-----------------------------------------------------------------------------
\* The paths and the files, by what a step does to them.

\* A step that is no part of a rebuild, though it may start one.
Quiet(w) ==
    /\ tmp' = tmp
    /\ tmp # NONE => content'[tmp] = content[tmp]
    /\ db' # NONE => db' # tmp /\ (content'[db'] # "part" \/ (db' = db /\ content'[db] = content[db]))
    /\ \A v \in Workers \ {w} : job'[v] = job[v]
    /\ job'[w].pc \notin Rebuilding \ {"remove"}
    /\ IF job'[w].pc = "remove"
       THEN overlapped' = (overlapped \/ \E v \in Workers : job[v].pc \in Rebuilding)
       ELSE overlapped' = overlapped

LEMMA QuietKeeps ==
  ASSUME IInv, NEW w \in Workers, Quiet(w)
  PROVE  Apart' /\ Orderly'
<1>1. Apart'
  BY Basics DEF Quiet, IInv, Apart, Rebuilding
<1>2. Orderly'
  <2> SUFFICES ASSUME ~overlapped'
               PROVE  /\ \A v, u \in Workers : job'[v].pc \in Rebuilding /\ job'[u].pc \in Rebuilding => v = u
                      /\ \A v \in Workers : Stage(job[v])'
                      /\ db' # NONE => content'[db'] # "part"
    BY DEF Orderly
  <2>1. ~overlapped /\ (job'[w].pc = "remove" => \A v \in Workers : job[v].pc \notin Rebuilding)
    BY DEF Quiet
  <2>2. ASSUME NEW v \in Workers, NEW u \in Workers, job'[v].pc \in Rebuilding, job'[u].pc \in Rebuilding
        PROVE  v = u
    BY <2>1, <2>2 DEF Quiet, IInv, Orderly
  <2>3. ASSUME NEW v \in Workers PROVE Stage(job[v])'
    <3>1. CASE v = w
      BY <3>1 DEF Quiet, Stage, Rebuilding
    <3>2. CASE v # w
      BY <2>1, <3>2 DEF Quiet, Stage, IInv, Orderly
    <3> QED
      BY <3>1, <3>2
  <2>4. db' # NONE => content'[db'] # "part"
    BY <2>1 DEF Quiet, IInv, Orderly
  <2> QED
    BY <2>2, <2>3, <2>4
<1> QED
  BY <1>1, <1>2

\* A step of a rebuild.
Rebuilds(w) ==
    /\ job[w].pc \in Rebuilding
    /\ overlapped' = overlapped
    /\ \A v \in Workers \ {w} : job'[v] = job[v]
    /\ tmp' # NONE => db' # tmp'
    /\ job'[w].pc = "build" => job'[w].inode \in Inodes
    /\ ~overlapped => Stage(job[w])' /\ (db' # NONE => content'[db'] # "part")

LEMMA RebuildKeeps ==
  ASSUME IInv, NEW w \in Workers, Rebuilds(w)
  PROVE  Apart' /\ Orderly'
<1>1. Apart'
  BY DEF Rebuilds, IInv, Apart
<1>2. Orderly'
  <2> SUFFICES ASSUME ~overlapped
               PROVE  /\ \A v, u \in Workers : job'[v].pc \in Rebuilding /\ job'[u].pc \in Rebuilding => v = u
                      /\ \A v \in Workers : Stage(job[v])'
                      /\ db' # NONE => content'[db'] # "part"
    BY DEF Orderly, Rebuilds
  <2>1. \A v \in Workers \ {w} : job'[v] = job[v] /\ job[v].pc \notin Rebuilding
    BY DEF Rebuilds, IInv, Orderly
  <2>2. ASSUME NEW v \in Workers, NEW u \in Workers, job'[v].pc \in Rebuilding, job'[u].pc \in Rebuilding
        PROVE  v = u
    BY <2>1, <2>2
  <2>3. ASSUME NEW v \in Workers PROVE Stage(job[v])'
    <3>1. CASE v = w
      BY <3>1 DEF Rebuilds
    <3>2. CASE v # w
      BY <2>1, <3>2 DEF Stage, Rebuilding
    <3> QED
      BY <3>1, <3>2
  <2> QED
    BY <2>2, <2>3 DEF Rebuilds
<1> QED
  BY <1>1, <1>2

-----------------------------------------------------------------------------
\* The reports.

LEMMA Tracked ==
  ASSUME TypeOK, Track
  PROVE  /\ sinceWhole' \in 0..TTL /\ sinceWhole' <= sinceWhole
         /\ Whole' => sinceWhole' = 0
BY Basics DEF TypeOK, Track

\* A step other than a tick: no report becomes ready, unless the database is
\* whole, and the cached one stays, is one that somebody had, is lost, or waits
\* for the request that has written the time.
Reports ==
    /\ \A v \in Workers :
        /\ job'[v].age \in 0..TTL
        /\ Mine(v)'
        /\ job'[v].pc \in {"accept", "admit"} =>
             Whole' \/ (job[v].pc \in {"accept", "admit"} /\ job'[v].age = job[v].age)
        /\ v = stamper' /\ job'[v].pc \in Storing => cache'.age = job'[v].age
    /\ CachedType'
    /\ \/ ~HalfStored /\ cached' = cached
       \/ HalfStored'
       \/ ~cache'.ready
       \/ \E v \in Workers : job[v].pc = "admit" /\ job[v].age <= cache'.age + slack'

LEMMA ReportsKeep ==
  ASSUME IInv, Track, Reports
  PROVE  Truthful' /\ sinceWhole' \in 0..TTL
<1>1. /\ sinceWhole' \in 0..TTL /\ sinceWhole' <= sinceWhole /\ (Whole' => sinceWhole' = 0)
      /\ sinceWhole \in 0..TTL
      /\ \A v \in Workers : job[v].age \in 0..TTL
  BY Tracked, JobIs DEF IInv, TypeOK, Jobs
<1>2. ASSUME NEW v \in Workers
      PROVE  Mine(v)' /\ (job'[v].pc \in {"accept", "admit"} => sinceWhole' <= job'[v].age)
  BY <1>1 DEF Reports, IInv, Truthful
<1>3. cache'.age \in 0..TTL /\ slack' \in 0..TTL /\ stamper' \in Workers
  BY DEF Reports, CachedType
<1>4. job'[stamper'].pc \in Storing => cache'.age = job'[stamper'].age
  BY <1>3 DEF Reports
<1>5. CacheHonest'
  <2> SUFFICES ASSUME cache'.ready, cache'.age < TTL, ~HalfStored'
               PROVE  sinceWhole' <= cache'.age + slack'
    BY DEF CacheHonest
  <2>1. CASE ~HalfStored /\ cached' = cached
    <3>1. cache' = cache /\ slack' = slack
      BY <2>1 DEF cached
    <3>2. sinceWhole <= cache.age + slack
      BY <2>1, <3>1 DEF IInv, Truthful, CacheHonest
    <3> QED
      BY <1>1, <1>3, <3>1, <3>2
  <2>2. CASE \E v \in Workers : job[v].pc = "admit" /\ job[v].age <= cache'.age + slack'
    <3>1. PICK v \in Workers : job[v].pc = "admit" /\ job[v].age <= cache'.age + slack'
      BY <2>2
    <3>2. sinceWhole <= job[v].age
      BY <3>1 DEF IInv, Truthful
    <3> QED
      BY <1>1, <1>3, <3>1, <3>2
  <2> QED
    BY <2>1, <2>2 DEF Reports
<1>6. (Whole => sinceWhole = 0)'
  BY <1>1
<1> QED
  BY <1>1, <1>2, <1>4, <1>5, <1>6 DEF Truthful

\* The types that a step sees to; Track sees to sinceWhole.
Typed ==
    /\ {db, tmp, wal} \subseteq Inodes \cup {NONE}
    /\ content \in [Inodes -> Contents]
    /\ job \in [Workers -> Jobs]
    /\ CachedType
    /\ overlapped \in BOOLEAN
    /\ wanted \subseteq Workers \X Kinds /\ faults \in Nat

LEMMA TypedIs == IInv => TypeOK /\ Typed
BY DEF IInv, TypeOK, Typed, Jobs, CachedType

LEMMA Together ==
  ASSUME IInv, Track, Typed', Reports, NEW w \in Workers, Quiet(w) \/ Rebuilds(w)
  PROVE  IInv'
<1>1. Apart' /\ Orderly'
  BY QuietKeeps, RebuildKeeps
<1>2. Truthful' /\ sinceWhole' \in 0..TTL
  BY ReportsKeep
<1>3. TypeOK'
  BY <1>2 DEF Typed, TypeOK, Jobs, CachedType
<1> QED
  BY <1>1, <1>2, <1>3 DEF IInv

LEMMA Looking ==
  ASSUME IInv, NEW w \in Workers, NEW stage \in 0..4, Look(w, stage)
  PROVE  \E n \in Jobs : job' = [job EXCEPT ![w] = n] /\ n.pc = "path" /\ n.kind = job[w].kind
<1>1. job[w] \in Jobs /\ job = [v \in Workers |-> job[v]]
  BY TypedIs, JobIs
<1> DEFINE n == [job[w] EXCEPT !.pc = "path", !.stage = stage]
<1>2. n \in Jobs /\ n.pc = "path" /\ n.kind = job[w].kind
  BY <1>1 DEF Jobs, Pcs
<1>3. job' = [job EXCEPT ![w] = n]
  BY DEF Look
<1> QED
  BY <1>2, <1>3

\* What comes of a report.
LEMMA AnsweredIs ==
  ASSUME IInv, NEW w \in Workers, NEW ready \in BOOLEAN, Answered(w, ready)
  PROVE  \E n \in Jobs :
           /\ job' = [job EXCEPT ![w] = n]
           /\ n.pc \notin Rebuilding \ {"remove"}
           /\ IF n.pc = "remove"
              THEN overlapped' = (overlapped \/ \E v \in Workers : job[v].pc \in Rebuilding)
              ELSE overlapped' = overlapped
           /\ n.pc \notin Storing /\ n.kind \in {job[w].kind, "visit"}
           /\ n.pc \in Reporting => n.kind = "ready"
           /\ n.pc = "accept" => ready
<1>1. job[w] \in Jobs /\ job = [v \in Workers |-> job[v]]
  BY TypedIs, JobIs
<1>2. ASSUME NEW pc \in Pcs, Go(w, pc)
      PROVE  \E n \in Jobs : job' = [job EXCEPT ![w] = n] /\ n.pc = pc /\ n.kind = job[w].kind
  <2> DEFINE n == [job[w] EXCEPT !.pc = pc]
  <2>1. n \in Jobs /\ n.pc = pc /\ n.kind = job[w].kind
    BY <1>1 DEF Jobs
  <2>2. job' = [job EXCEPT ![w] = n]
    BY <1>2 DEF Go
  <2> QED
    BY <2>1, <2>2
<1>4. CASE Look(w, 2) /\ UNCHANGED overlapped
  BY <1>4, Looking DEF Rebuilding, Reporting, Storing
<1>5. CASE Go(w, "remove") /\ overlapped' = (overlapped \/ \E v \in Workers : job[v].pc \in Rebuilding)
  BY <1>2, <1>5 DEF Rebuilding, Pcs, Reporting, Storing
<1>6. CASE Look(w, 4) /\ UNCHANGED overlapped
  BY <1>6, Looking DEF Rebuilding, Reporting, Storing
<1>7. CASE job[w].kind = "ready" /\ Go(w, IF ready THEN "accept" ELSE "refuse") /\ UNCHANGED overlapped
  <2>1. CASE ready
    BY <1>2, <1>7, <2>1 DEF Rebuilding, Pcs, Reporting, Storing
  <2>2. CASE ~ready
    BY <1>2, <1>7, <2>2 DEF Rebuilding, Pcs, Reporting, Storing
  <2> QED
    BY <2>1, <2>2
<1>8. CASE Done(w) /\ UNCHANGED overlapped
  BY <1>8, NoJobIs DEF Done, Rebuilding, Reporting, Storing
<1> QED
  BY <1>4, <1>5, <1>6, <1>7, <1>8 DEF Answered

\* A job that takes the place of one: neither is storing its report.
Calm(w, n) ==
    /\ job[w].pc \notin Storing /\ n.pc \notin Storing
    /\ n.kind = "ready" => w \in Threads \/ n.kind = job[w].kind
    /\ n.pc \in Reporting => n.kind = "ready"

LEMMA Unreported ==
  ASSUME IInv, NEW w \in Workers, NEW n \in Jobs, job' = [job EXCEPT ![w] = n], cached' = cached,
         Calm(w, n), n.pc = "accept" => Whole'
  PROVE  Reports
<1>1. job'[w] = n /\ \A v \in Workers \ {w} : job'[v] = job[v]
  BY TypedIs, OneJob
<1>2. \A v \in Workers : Mine(v)
  BY DEF IInv, Truthful
<1>3. cache' = cache /\ stamper' = stamper /\ slack' = slack
  BY DEF cached
<1>4. CachedType' /\ stamper \in Workers
  BY <1>3, TypedIs DEF Typed, CachedType
<1>5. HalfStored' <=> HalfStored
  BY <1>1, <1>3, <1>4 DEF HalfStored, Calm, Storing
<1>6. ASSUME NEW v \in Workers
      PROVE  /\ job'[v].age \in 0..TTL
             /\ Mine(v)'
             /\ job'[v].pc \in {"accept", "admit"} =>
                  Whole' \/ (job[v].pc \in {"accept", "admit"} /\ job'[v].age = job[v].age)
             /\ v = stamper' /\ job'[v].pc \in Storing => cache'.age = job'[v].age
  <2>1. job'[v].age \in 0..TTL
    BY <1>1, TypedIs, JobIs DEF Jobs
  <2>2. CASE v = w
    BY <1>1, <1>2, <2>1, <2>2 DEF Calm, Mine, Storing
  <2>3. CASE v # w
    <3>1. job'[v] = job[v]
      BY <1>1, <2>3
    <3>2. stamper = v /\ job[v].pc \in Storing => cache.age = job[v].age
      BY DEF IInv, Truthful
    <3> QED
      BY <1>2, <1>3, <2>1, <3>1, <3>2 DEF Mine
  <2> QED
    BY <2>2, <2>3
<1> QED
  BY <1>4, <1>5, <1>6 DEF Reports

\* A step that is no part of a rebuild and leaves the files alone.
LEMMA FilesKept ==
  ASSUME IInv, NEW w \in Workers, UNCHANGED files, NEW n \in Jobs, job' = [job EXCEPT ![w] = n],
         n.pc \notin Rebuilding \ {"remove"},
         IF n.pc = "remove"
         THEN overlapped' = (overlapped \/ \E v \in Workers : job[v].pc \in Rebuilding)
         ELSE overlapped' = overlapped
  PROVE  Quiet(w)
<1>1. job'[w] = n /\ \A v \in Workers \ {w} : job'[v] = job[v]
  BY TypedIs, OneJob
<1>2. tmp # NONE => db # tmp
  BY DEF IInv, Apart
<1> QED
  BY <1>1, <1>2 DEF Quiet, files

LEMMA QuietStep ==
  ASSUME IInv, Track, NEW w \in Workers, UNCHANGED files,
         NEW n \in Jobs, job' = [job EXCEPT ![w] = n], n.pc \notin Rebuilding \ {"remove"},
         IF n.pc = "remove"
         THEN overlapped' = (overlapped \/ \E v \in Workers : job[v].pc \in Rebuilding)
         ELSE overlapped' = overlapped,
         wanted' \subseteq Workers \X Kinds, faults' \in Nat, Reports
  PROVE  IInv'
<1>1. Quiet(w)
  BY FilesKept
<1>2. job' \in [Workers -> Jobs] /\ overlapped' \in BOOLEAN
  BY TypedIs, OneJob DEF Typed
<1>3. Typed'
  BY <1>2, TypedIs DEF Typed, files, Reports
<1> QED
  BY <1>1, <1>3, Together

\* What is left to come goes down by one.
LEMMA Counted ==
  ASSUME Typed
  PROVE  /\ faults > 0 => faults - 1 \in Nat
         /\ wanted \subseteq Workers \X Kinds /\ faults \in Nat
         /\ \A w, kind : Wants(w, kind) => kind \in Kinds /\ wanted' \subseteq Workers \X Kinds
         /\ CachedType
BY DEF Typed, Wants

\* Whoever was at work on a report belongs to the service.
LEMMA Served ==
  ASSUME IInv, NEW w \in Workers
  PROVE  Mine(w)
BY DEF IInv, Truthful

LEMMA Starting ==
  ASSUME NEW kind \in {"ready", "ensure", "admin"}, NEW stage \in 0..4
  PROVE  LET n == [NoJob EXCEPT !.pc = "path", !.kind = kind, !.stage = stage]
         IN n \in Jobs /\ n.pc = "path" /\ n.kind = kind
<1>1. "path" \in Pcs
  BY DEF Pcs
<1> QED
  BY <1>1, NoJobIs DEF Jobs, Kinds

LEMMA PollStep ==
  ASSUME IInv, Track, NEW w \in Workers, Poll(w)
  PROVE  IInv'
<1> DEFINE n == [NoJob EXCEPT !.pc = "path", !.kind = "ready", !.stage = 1]
<1>1. n \in Jobs /\ n.pc = "path" /\ w \in Threads
  BY Starting, RebuildAssumption DEF Poll
<1>2. job' = [job EXCEPT ![w] = n] /\ UNCHANGED <<files, overlapped, cached, wanted, faults>>
      /\ job[w].pc = "idle"
  BY DEF Poll, rest
<1> HIDE DEF n
<1>3. Reports
  BY <1>1, <1>2, Unreported DEF Calm, Reporting, Storing
<1> QED
  BY <1>1, <1>2, <1>3, QuietStep, TypedIs, Counted DEF Rebuilding

LEMMA AskStep ==
  ASSUME IInv, Track, NEW w \in Workers, NEW kind \in {"ready", "ensure", "admin"}, Ask(w, kind)
  PROVE  IInv'
<1>1. /\ UNCHANGED <<files, cached, faults>> /\ Wants(w, kind)
      /\ overlapped' = (overlapped \/ (kind = "admin" /\ \E v \in Workers : job[v].pc \in Rebuilding))
  BY DEF Ask
<1>2. wanted' \subseteq Workers \X Kinds /\ faults' \in Nat /\ overlapped \in BOOLEAN
      /\ job[w].pc = "idle" /\ (kind = "ready" => w \in Threads)
  BY <1>1, TypedIs, Counted DEF Typed, Ask, Workers
<1>3. CASE kind = "admin"
  <2> DEFINE n == [NoJob EXCEPT !.pc = "remove", !.kind = kind]
  <2>1. n \in Jobs /\ n.pc = "remove" /\ n.kind = "admin"
    BY <1>3, NoJobIs DEF Jobs, Pcs, Rebuilding, Kinds
  <2>2. job' = [job EXCEPT ![w] = n]
    BY <1>3 DEF Ask
  <2> HIDE DEF n
  <2>3. Reports
    BY <1>1, <1>2, <2>1, <2>2, Unreported DEF Calm, Reporting, Storing
  <2> QED
    BY <1>1, <1>2, <1>3, <2>1, <2>2, <2>3, QuietStep
<1>4. CASE kind # "admin"
  <2> DEFINE stage == IF kind = "ready" THEN 1 ELSE 2
             n == [NoJob EXCEPT !.pc = "path", !.kind = kind, !.stage = stage]
  <2>1. n \in Jobs /\ n.pc = "path" /\ n.kind = kind
    <3>1. stage \in 0..4
      OBVIOUS
    <3>2. kind \in Kinds /\ "path" \in Pcs
      BY DEF Kinds, Pcs
    <3> HIDE DEF stage
    <3> QED
      BY <3>1, <3>2, NoJobIs DEF Jobs
  <2>2. job' = [job EXCEPT ![w] = n] /\ overlapped' = overlapped
    BY <1>1, <1>2, <1>4 DEF Ask
  <2> HIDE DEF n
  <2>3. Reports
    BY <1>1, <1>2, <2>1, <2>2, Unreported DEF Calm, Reporting, Storing
  <2> QED
    BY <1>1, <1>2, <2>1, <2>2, <2>3, QuietStep DEF Rebuilding
<1> QED
  BY <1>3, <1>4

\* An answer without a change of the files.
LEMMA AnsweredStep ==
  ASSUME IInv, Track, NEW w \in Workers, Answered(w, FALSE), UNCHANGED <<files, cached, wanted>>,
         faults' \in Nat, job[w].pc \in {"path", "open"}
  PROVE  IInv'
<1>1. PICK n \in Jobs :
        /\ job' = [job EXCEPT ![w] = n]
        /\ n.pc \notin Rebuilding \ {"remove"}
        /\ IF n.pc = "remove"
           THEN overlapped' = (overlapped \/ \E v \in Workers : job[v].pc \in Rebuilding)
           ELSE overlapped' = overlapped
        /\ n.pc \notin Storing /\ n.kind \in {job[w].kind, "visit"}
        /\ n.pc \in Reporting => n.kind = "ready"
        /\ n.pc # "accept"
  BY AnsweredIs
<1>2. Reports
  BY <1>1, Unreported DEF Calm, Storing
<1> QED
  BY <1>1, <1>2, QuietStep, TypedIs, Counted

LEMMA LookPathStep ==
  ASSUME IInv, Track, NEW w \in Workers, LookPath(w)
  PROVE  IInv'
<1>1. UNCHANGED <<files, cached, wanted, faults>> /\ job[w].pc = "path"
  BY DEF LookPath, rest
<1>2. CASE db = NONE
  BY <1>1, <1>2, AnsweredStep, TypedIs, Counted DEF LookPath
<1>3. CASE db # NONE
  <2> DEFINE n == [job[w] EXCEPT !.pc = "open"]
  <2>1. n \in Jobs /\ n.pc = "open" /\ n.kind = job[w].kind
    BY TypedIs, JobIs DEF Jobs, Pcs
  <2>2. job' = [job EXCEPT ![w] = n] /\ overlapped' = overlapped
    BY <1>3 DEF LookPath, Go
  <2> HIDE DEF n
  <2>3. Reports
    BY <1>1, <2>1, <2>2, Unreported DEF Calm, Reporting, Storing
  <2> QED
    BY <1>1, <2>1, <2>2, <2>3, QuietStep, TypedIs, Counted DEF Rebuilding
<1> QED
  BY <1>2, <1>3

LEMMA OpenFailsStep ==
  ASSUME IInv, Track, NEW w \in Workers, OpenFails(w)
  PROVE  IInv'
BY AnsweredStep, TypedIs, Counted DEF OpenFails

\* The time, and then the report, of a request.
LEMMA StampStep ==
  ASSUME IInv, Track, NEW w \in Workers, Stamp(w)
  PROVE  IInv'
<1> DEFINE pc == IF job[w].pc = "accept" THEN "admit" ELSE "deny"
           n == [job[w] EXCEPT !.pc = pc]
<1>1. /\ job[w].pc \in {"accept", "refuse"} /\ Go(w, pc)
      /\ cache' = [cache EXCEPT !.age = job[w].age] /\ stamper' = w /\ slack' = slack
      /\ UNCHANGED <<files, overlapped, wanted, faults>>
  BY DEF Stamp, Stamped
<1>2. job[w] \in Jobs /\ job[w].age \in 0..TTL /\ cache \in [ready : BOOLEAN, age : 0..TTL] /\ slack \in 0..TTL
  BY TypedIs, JobIs, Counted DEF Jobs, CachedType
<1>3. pc \in Pcs /\ pc \in Storing /\ pc \notin Rebuilding /\ (pc = "admit" => job[w].pc = "accept")
  BY DEF Pcs, Storing, Rebuilding
<1>4. n \in Jobs /\ n.pc = pc /\ n.kind = job[w].kind /\ n.age = job[w].age
  BY <1>2, <1>3 DEF Jobs
<1>5. job' = [job EXCEPT ![w] = n]
  BY <1>1 DEF Go
<1>6. job'[w] = n /\ \A v \in Workers \ {w} : job'[v] = job[v]
  BY <1>4, <1>5, TypedIs, OneJob
<1>7. cache' \in [ready : BOOLEAN, age : 0..TTL] /\ cache'.age = job[w].age
  BY <1>1, <1>2
<1>8. CachedType' /\ HalfStored'
  BY <1>1, <1>2, <1>3, <1>4, <1>6, <1>7 DEF CachedType, HalfStored, Storing
<1> HIDE DEF n, pc
<1>9. ASSUME NEW v \in Workers
      PROVE  /\ job'[v].age \in 0..TTL
             /\ Mine(v)'
             /\ job'[v].pc \in {"accept", "admit"} =>
                  Whole' \/ (job[v].pc \in {"accept", "admit"} /\ job'[v].age = job[v].age)
             /\ v = stamper' /\ job'[v].pc \in Storing => cache'.age = job'[v].age
  <2>1. Mine(v) /\ job[v].age \in 0..TTL
    BY Served, TypedIs, JobIs DEF Jobs
  <2>2. CASE v = w
    BY <1>1, <1>3, <1>4, <1>6, <1>7, <2>1, <2>2 DEF Mine, Reporting, Storing
  <2>3. CASE v # w
    BY <1>1, <1>6, <2>1, <2>3 DEF Mine
  <2> QED
    BY <2>2, <2>3
<1>10. Reports
  BY <1>8, <1>9 DEF Reports
<1>11. n.pc \notin Rebuilding
  BY <1>3, <1>4
<1>12. n.pc # "remove"
  BY <1>11 DEF Rebuilding
<1> QED
  BY <1>1, <1>4, <1>5, <1>10, <1>11, <1>12, QuietStep, TypedIs, Counted

LEMMA StoreStep ==
  ASSUME IInv, Track, NEW w \in Workers, Store(w)
  PROVE  IInv'
<1>1. /\ job[w].pc \in Storing /\ job' = [job EXCEPT ![w] = NoJob]
      /\ cache' = [cache EXCEPT !.ready = job[w].pc = "admit"]
      /\ slack' = IF stamper = w THEN 0 ELSE job[w].age
      /\ stamper' = stamper
      /\ UNCHANGED <<files, overlapped, wanted, faults>>
  BY DEF Store, Storing, Done
<1>2. job[w].age \in 0..TTL /\ cache \in [ready : BOOLEAN, age : 0..TTL] /\ stamper \in Workers
  BY TypedIs, JobIs, Counted DEF Jobs, CachedType
<1>3. job'[w] = NoJob /\ \A v \in Workers \ {w} : job'[v] = job[v]
  BY <1>1, NoJobIs, TypedIs, OneJob
<1>4. cache' \in [ready : BOOLEAN, age : 0..TTL] /\ cache'.age = cache.age
      /\ (cache'.ready => job[w].pc = "admit")
  BY <1>1, <1>2
<1>5. slack' \in 0..TTL
  BY <1>1, <1>2, Basics
<1>6. CachedType'
  BY <1>1, <1>2, <1>4, <1>5 DEF CachedType
<1>7. cache.age \in 0..TTL
  BY <1>2
<1>8. stamper = w => cache.age = job[w].age
  BY <1>1 DEF IInv, Truthful
<1>9. job[w].age <= cache'.age + slack'
  BY <1>1, <1>2, <1>4, <1>7, <1>8
<1>10. ASSUME NEW v \in Workers
       PROVE  /\ job'[v].age \in 0..TTL
              /\ Mine(v)'
              /\ job'[v].pc \in {"accept", "admit"} =>
                   Whole' \/ (job[v].pc \in {"accept", "admit"} /\ job'[v].age = job[v].age)
              /\ v = stamper' /\ job'[v].pc \in Storing => cache'.age = job'[v].age
  <2>1. Mine(v) /\ job[v].age \in 0..TTL /\ 0 \in 0..TTL
    BY Served, TypedIs, JobIs, Basics DEF Jobs
  <2>2. v = stamper /\ job[v].pc \in Storing => cache.age = job[v].age
    BY DEF IInv, Truthful
  <2>3. CASE v = w
    BY <1>3, <2>1, <2>3, NoJobIs DEF Mine, Reporting, Storing
  <2>4. CASE v # w
    BY <1>1, <1>3, <1>4, <2>1, <2>2, <2>4 DEF Mine
  <2> QED
    BY <2>3, <2>4
<1>11. Reports
  BY <1>4, <1>6, <1>9, <1>10 DEF Reports
<1> QED
  BY <1>1, <1>11, NoJobIs, QuietStep, TypedIs, Counted DEF Rebuilding

LEMMA ReplaceFailsStep ==
  ASSUME IInv, Track, NEW w \in Workers, ReplaceFails(w)
  PROVE  IInv'
<1>1. /\ job[w].pc = "replace" /\ job' = [job EXCEPT ![w] = NoJob]
      /\ UNCHANGED <<files, overlapped, cached, wanted, faults>>
  BY DEF ReplaceFails, Done, rest
<1>2. Reports
  BY <1>1, NoJobIs, Unreported DEF Calm, Reporting, Storing
<1> QED
  BY <1>1, <1>2, NoJobIs, QuietStep, TypedIs, Counted DEF Rebuilding

\* A step that opens or closes the database, and changes nothing but its content.
LEMMA QuietFiles ==
  ASSUME IInv, Track, NEW w \in Workers,
         NEW n \in Jobs, job' = [job EXCEPT ![w] = n], n.pc \notin Rebuilding \ {"remove"},
         IF n.pc = "remove"
         THEN overlapped' = (overlapped \/ \E v \in Workers : job[v].pc \in Rebuilding)
         ELSE overlapped' = overlapped,
         tmp' = tmp, db' \in Inodes \cup {NONE}, wal' \in Inodes \cup {NONE},
         db' # NONE => db' # tmp,
         NEW c \in [Inodes -> Contents], Collect(c), tmp # NONE => c[tmp] = content[tmp],
         db' # NONE => c[db'] # "part" \/ (db' = db /\ c[db] = content[db]),
         cached' = cached, wanted' \subseteq Workers \X Kinds, faults' \in Nat,
         Calm(w, n), n.pc = "accept" => Whole'
  PROVE  IInv'
<1>1. /\ content' \in [Inodes -> Contents]
      /\ db' \in Inodes => content'[db'] = c[db']
      /\ tmp' \in Inodes => content'[tmp'] = c[tmp']
  BY Collected
<1>2. job' \in [Workers -> Jobs] /\ job'[w] = n /\ (\A v \in Workers \ {w} : job'[v] = job[v])
      /\ overlapped' \in BOOLEAN
  BY TypedIs, OneJob DEF Typed
<1>3. tmp \in Inodes \cup {NONE}
  BY TypedIs DEF Typed
<1>4. Quiet(w)
  BY <1>1, <1>2, <1>3 DEF Quiet
<1>5. Reports
  BY Unreported
<1>6. Typed'
  BY <1>1, <1>2, <1>3, <1>5 DEF Typed, Reports
<1> QED
  BY <1>4, <1>5, <1>6, Together

LEMMA OpenedStep ==
  ASSUME IInv, Track, NEW w \in Workers, NEW i \in Inodes, Connect(i), Opened(w, i),
         UNCHANGED <<overlapped, cached>>, wanted' \subseteq Workers \X Kinds, faults' \in Nat,
         job[w].pc \notin Storing
  PROVE  IInv'
<1> DEFINE n == [NoJob EXCEPT !.pc = "visit", !.inode = i]
           c == IF db = NONE THEN [content EXCEPT ![i] = "empty"]
                ELSE IF Foreign THEN [content EXCEPT ![i] = "mixed"] ELSE content
<1>1. n \in Jobs /\ n.pc = "visit" /\ n.kind = "visit"
  BY NoJobIs DEF Jobs, Pcs
<1>2. job' = [job EXCEPT ![w] = n] /\ db' = i /\ wal' = i /\ tmp' = tmp /\ Collect(c)
  BY DEF Opened
<1>3. content \in [Inodes -> Contents] /\ tmp \in Inodes \cup {NONE}
  BY TypedIs DEF Typed
<1>4. i # tmp /\ (db # NONE => i = db)
  BY Connected
<1>5. /\ c \in [Inodes -> Contents] /\ (tmp # NONE => c[tmp] = content[tmp])
      /\ c[i] # "part" \/ (i = db /\ c[db] = content[db])
  BY <1>3, <1>4 DEF Contents
<1> HIDE DEF n, c
<1> QED
  BY <1>1, <1>2, <1>4, <1>5, QuietFiles DEF Rebuilding, Calm, Reporting, Storing

LEMMA VisitStep ==
  ASSUME IInv, Track, NEW w \in Workers, Visit(w)
  PROVE  IInv'
BY OpenedStep, TypedIs, Counted DEF Visit, Storing

LEMMA RecordStep ==
  ASSUME IInv, Track, NEW w \in Workers, Record(w)
  PROVE  IInv'
BY OpenedStep, TypedIs, Counted DEF Record, rest, Storing

LEMMA CloseStep ==
  ASSUME IInv, Track, NEW w \in Workers, Close(w)
  PROVE  IInv'
<1>1. /\ job' = [job EXCEPT ![w] = NoJob] /\ UNCHANGED <<db, tmp, overlapped, cached, wanted, faults>>
      /\ Collect(content) /\ wal' \in {NONE, wal} /\ job[w].pc = "visit"
  BY DEF Close, Done, rest
<1>2. content \in [Inodes -> Contents] /\ {db, tmp, wal} \subseteq Inodes \cup {NONE}
  BY TypedIs DEF Typed
<1>3. db # NONE => db # tmp
  BY DEF IInv, Apart
<1>4. wanted' \subseteq Workers \X Kinds /\ faults' \in Nat
  BY <1>1, TypedIs, Counted
<1> QED
  BY <1>1, <1>2, <1>3, <1>4, NoJobIs, QuietFiles DEF Rebuilding, Calm, Reporting, Storing

\* The report of a database that is whole leaves it whole.
LEMMA OpenStep ==
  ASSUME IInv, Track, NEW w \in Workers, Open(w)
  PROVE  IInv'
<1> DEFINE c == IF db = NONE THEN [content EXCEPT ![db'] = "empty"]
                ELSE IF Foreign THEN [content EXCEPT ![db] = "mixed"] ELSE content
<1>1. /\ Answered(w, Whole) /\ UNCHANGED <<tmp, cached, wanted, faults>>
      /\ wal' = IF Visitors(db) # {} /\ ~Foreign THEN wal ELSE NONE
      /\ Collect(c) /\ job[w].pc = "open"
  BY DEF Open, Ready, rest
<1>2. PICK i \in Inodes : Connect(i) /\ db' = i
  BY DEF Open
<1>3. content \in [Inodes -> Contents] /\ {tmp, wal} \subseteq Inodes \cup {NONE}
  BY TypedIs DEF Typed
<1>4. i # tmp /\ (db # NONE => i = db)
  BY <1>2, Connected
<1>5. Whole \in BOOLEAN
  BY DEF Whole
<1>6. PICK n \in Jobs :
        /\ job' = [job EXCEPT ![w] = n]
        /\ n.pc \notin Rebuilding \ {"remove"}
        /\ IF n.pc = "remove"
           THEN overlapped' = (overlapped \/ \E v \in Workers : job[v].pc \in Rebuilding)
           ELSE overlapped' = overlapped
        /\ n.pc \notin Storing /\ n.kind \in {job[w].kind, "visit"}
        /\ n.pc \in Reporting => n.kind = "ready"
        /\ n.pc = "accept" => Whole
  BY <1>1, <1>5, AnsweredIs
<1>7. /\ c \in [Inodes -> Contents] /\ (tmp # NONE => c[tmp] = content[tmp])
      /\ c[db'] # "part" \/ (db' = db /\ c[db] = content[db])
  BY <1>2, <1>3, <1>4 DEF Contents
<1>8. wal' \in Inodes \cup {NONE}
  BY <1>1, <1>3
<1>9. Whole => Whole'
  <2> SUFFICES ASSUME Whole PROVE Whole'
    OBVIOUS
  <2>1. db # NONE /\ content[db] = "whole" /\ ~Foreign /\ db' = db /\ c = content
    BY <1>2, <1>4 DEF Whole, Foreign
  <2>2. content'[db'] = content[db]
    BY <1>1, <1>2, <1>3, <2>1, Collected
  <2>3. wal' \in {NONE, db'}
    BY <1>1, <2>1 DEF Foreign
  <2> QED
    BY <2>1, <2>2, <2>3 DEF Whole
<1>10. wanted' \subseteq Workers \X Kinds /\ faults' \in Nat
  BY <1>1, TypedIs, Counted
<1>11. Collect(c)
  BY <1>1
<1>12. Calm(w, n)
  BY <1>1, <1>6 DEF Calm, Storing
<1> HIDE DEF c
<1> QED
  BY <1>1, <1>2, <1>4, <1>6, <1>7, <1>8, <1>9, <1>10, <1>11, <1>12, QuietFiles

-----------------------------------------------------------------------------
\* The steps of a rebuild.

LEMMA RebuildStep ==
  ASSUME IInv, Track, NEW w \in Workers, job[w].pc \in Rebuilding,
         NEW n \in Jobs, job' = [job EXCEPT ![w] = n], n.pc \notin Reporting,
         n.kind \in {job[w].kind, "visit"},
         n.pc = "build" => n.inode \in Inodes,
         UNCHANGED <<overlapped, cached, wanted>>, faults' \in Nat,
         {db', tmp', wal'} \subseteq Inodes \cup {NONE}, tmp' # NONE => db' # tmp',
         NEW c \in [Inodes -> Contents], Collect(c),
         ~overlapped =>
            /\ n.pc = "create" => tmp' = NONE
            /\ n.pc = "build" => tmp' = n.inode
            /\ n.pc \in {"built", "unwal", "replace"} => tmp' # NONE /\ c[tmp'] = "whole"
            /\ db' # NONE => c[db'] # "part"
  PROVE  IInv'
<1>1. /\ content' \in [Inodes -> Contents]
      /\ db' \in Inodes => content'[db'] = c[db']
      /\ tmp' \in Inodes => content'[tmp'] = c[tmp']
  BY Collected
<1>2. job' \in [Workers -> Jobs] /\ job'[w] = n /\ \A v \in Workers \ {w} : job'[v] = job[v]
  BY TypedIs, OneJob
<1>3. Rebuilds(w)
  BY <1>1, <1>2 DEF Rebuilds, Stage
<1>4. Calm(w, n)
  BY DEF Calm, Reporting, Storing, Rebuilding
<1>5. Reports
  BY <1>4, Unreported DEF Reporting
<1>6. Typed'
  BY <1>1, <1>2, <1>5, TypedIs DEF Typed, Reports
<1> QED
  BY <1>3, <1>5, <1>6, Together

LEMMA FilesAre ==
  ASSUME IInv
  PROVE  /\ {db, tmp, wal} \subseteq Inodes \cup {NONE} /\ content \in [Inodes -> Contents]
         /\ faults \in Nat
         /\ tmp # NONE => db # tmp
         /\ ~overlapped => /\ db # NONE => content[db] # "part"
                           /\ \A w \in Workers : Stage(job[w])
         /\ \A w \in Workers : job[w].pc = "build" => job[w].inode \in Inodes
BY TypedIs DEF Typed, IInv, Apart, Orderly

LEMMA Going ==
  ASSUME IInv, NEW w \in Workers, NEW pc \in Pcs, Go(w, pc)
  PROVE  LET n == [job[w] EXCEPT !.pc = pc]
         IN /\ job' = [job EXCEPT ![w] = n] /\ n \in Jobs
            /\ n.pc = pc /\ n.inode = job[w].inode /\ n.kind = job[w].kind
BY TypedIs, JobIs DEF Go, Jobs

LEMMA RemoveStep ==
  ASSUME IInv, Track, NEW w \in Workers, Remove(w)
  PROVE  IInv'
<1> DEFINE n == [job[w] EXCEPT !.pc = "create"]
<1>1. /\ job[w].pc \in Rebuilding /\ tmp' = NONE /\ Collect(content)
      /\ UNCHANGED <<db, wal, overlapped, cached, wanted, faults>>
  BY DEF Remove, rest, Rebuilding
<1>2. job' = [job EXCEPT ![w] = n] /\ n \in Jobs /\ n.pc = "create" /\ n.kind = job[w].kind
  BY Going DEF Remove, Pcs, Rebuilding
<1> HIDE DEF n
<1> QED
  BY <1>1, <1>2, FilesAre, RebuildStep DEF Reporting, Storing

LEMMA CreateStep ==
  ASSUME IInv, Track, NEW w \in Workers, Create(w)
  PROVE  IInv'
<1>1. PICK i \in Inodes :
        /\ IF tmp = NONE THEN New(i) ELSE i = tmp
        /\ tmp' = i
        /\ job' = [job EXCEPT ![w].pc = "build", ![w].inode = i]
        /\ UNCHANGED <<db, wal, overlapped, rest>>
        /\ Collect([content EXCEPT ![i] = IF tmp = NONE THEN "part" ELSE content[i]])
  BY DEF Create
<1> DEFINE n == [job[w] EXCEPT !.pc = "build", !.inode = i]
           c == [content EXCEPT ![i] = IF tmp = NONE THEN "part" ELSE content[i]]
<1>2. job' = [job EXCEPT ![w] = n] /\ n \in Jobs /\ n.pc = "build" /\ n.inode = i /\ n.kind = job[w].kind
  BY <1>1, TypedIs, JobIs DEF Jobs, Pcs, Rebuilding
<1>3. job[w].pc = "create" /\ job[w].pc \in Rebuilding
  BY DEF Create, Rebuilding
<1>4. i # db
  BY <1>1, FilesAre, Basics DEF New, Used
<1>5. c \in [Inodes -> Contents] /\ (db # NONE => c[db] = content[db])
  BY <1>4, FilesAre DEF Contents
<1>6. Collect(c) /\ UNCHANGED <<db, wal, overlapped, cached, wanted, faults>> /\ tmp' = i
  BY <1>1 DEF rest
<1> HIDE DEF n, c
<1> QED
  BY <1>2, <1>3, <1>4, <1>5, <1>6, FilesAre, RebuildStep DEF Reporting, Storing

LEMMA BuiltStep ==
  ASSUME IInv, Track, NEW w \in Workers, Built(w)
  PROVE  IInv'
<1> DEFINE n == [job[w] EXCEPT !.pc = "built", !.inode = NONE]
           c == [content EXCEPT ![job[w].inode] = "whole"]
<1>1. /\ job[w].pc = "build" /\ job[w].pc \in Rebuilding /\ Collect(c)
      /\ UNCHANGED <<db, tmp, wal, overlapped, cached, wanted, faults>>
  BY DEF Built, rest, Rebuilding
<1>2. job' = [job EXCEPT ![w] = n] /\ n \in Jobs /\ n.pc = "built" /\ n.kind = job[w].kind
  BY TypedIs, JobIs DEF Built, Jobs, Pcs, Rebuilding
<1>3. job[w].inode \in Inodes /\ (~overlapped => tmp = job[w].inode /\ (db # NONE => content[db] # "part"))
  BY <1>1, FilesAre DEF Stage
<1>4. c \in [Inodes -> Contents] /\ c[job[w].inode] = "whole"
      /\ \A i \in Inodes : c[i] = content[i] \/ c[i] = "whole"
  BY <1>3, FilesAre DEF Contents
<1>5. ~overlapped => /\ tmp # NONE /\ c[tmp] = "whole"
                     /\ db # NONE => c[db] # "part"
  BY <1>3, <1>4, FilesAre, Basics
<1> HIDE DEF n, c
<1> QED
  BY <1>1, <1>2, <1>4, <1>5, FilesAre, RebuildStep DEF Reporting, Storing

LEMMA BuildFailsStep ==
  ASSUME IInv, Track, NEW w \in Workers, BuildFails(w)
  PROVE  IInv'
<1>1. /\ job[w].pc \in Rebuilding /\ tmp' = NONE /\ Collect(content)
      /\ UNCHANGED <<db, wal, overlapped, cached, wanted>> /\ faults > 0 /\ faults' = faults - 1
      /\ job' = [job EXCEPT ![w] = NoJob]
  BY DEF BuildFails, Rebuilding, Done
<1>2. faults' \in Nat
  BY <1>1, TypedIs, Counted
<1> QED
  BY <1>1, <1>2, NoJobIs, FilesAre, RebuildStep DEF Reporting, Storing

LEMMA UnlinkStep ==
  ASSUME IInv, Track, NEW w \in Workers, Unlink(w)
  PROVE  IInv'
<1> DEFINE n == [job[w] EXCEPT !.pc = "unwal"]
<1>1. /\ job[w].pc = "built" /\ job[w].pc \in Rebuilding /\ db' = NONE
      /\ Collect(content) /\ UNCHANGED <<tmp, wal, overlapped, cached, wanted, faults>>
  BY DEF Unlink, rest, Rebuilding
<1>2. job' = [job EXCEPT ![w] = n] /\ n \in Jobs /\ n.pc = "unwal" /\ n.kind = job[w].kind
  BY Going DEF Unlink, Pcs, Rebuilding
<1>3. ~overlapped => tmp # NONE /\ content[tmp] = "whole"
  BY <1>1, FilesAre DEF Stage
<1> HIDE DEF n
<1> QED
  BY <1>1, <1>2, <1>3, FilesAre, RebuildStep DEF Reporting, Storing

LEMMA UnlinkWalStep ==
  ASSUME IInv, Track, NEW w \in Workers, UnlinkWal(w)
  PROVE  IInv'
<1> DEFINE n == [job[w] EXCEPT !.pc = "replace"]
<1>1. /\ job[w].pc = "unwal" /\ job[w].pc \in Rebuilding /\ wal' = NONE
      /\ Collect(content) /\ UNCHANGED <<db, tmp, overlapped, cached, wanted, faults>>
  BY DEF UnlinkWal, rest, Rebuilding
<1>2. job' = [job EXCEPT ![w] = n] /\ n \in Jobs /\ n.pc = "replace" /\ n.kind = job[w].kind
  BY Going DEF UnlinkWal, Pcs, Rebuilding
<1>3. ~overlapped => tmp # NONE /\ content[tmp] = "whole"
  BY <1>1, FilesAre DEF Stage
<1> HIDE DEF n
<1> QED
  BY <1>1, <1>2, <1>3, FilesAre, RebuildStep DEF Reporting, Storing

LEMMA ReplaceStep ==
  ASSUME IInv, Track, NEW w \in Workers, Replace(w)
  PROVE  IInv'
<1>1. /\ job[w].pc = "replace" /\ job[w].pc \in Rebuilding /\ tmp # NONE /\ tmp' = NONE /\ db' = tmp
      /\ Collect(content) /\ UNCHANGED <<wal, overlapped, cached, wanted, faults>>
  BY DEF Replace, rest, Rebuilding
<1>2. PICK n \in Jobs : /\ job' = [job EXCEPT ![w] = n] /\ n.pc \in {"record", "path"}
                        /\ n.kind \in {job[w].kind, "visit"}
  <2>1. CASE job[w].kind = "admin"
    <3> DEFINE n == [NoJob EXCEPT !.pc = "record"]
    <3>1. n \in Jobs /\ n.pc = "record" /\ n.kind = "visit"
      BY NoJobIs DEF Jobs, Pcs
    <3>2. job' = [job EXCEPT ![w] = n]
      BY <2>1 DEF Replace
    <3> QED
      BY <3>1, <3>2
  <2>2. CASE job[w].kind # "admin"
    BY <2>2, Looking DEF Replace
  <2> QED
    BY <2>1, <2>2
<1>3. ~overlapped => content[tmp] = "whole"
  BY <1>1, FilesAre DEF Stage
<1> QED
  BY <1>1, <1>2, <1>3, FilesAre, RebuildStep DEF Reporting, Storing

-----------------------------------------------------------------------------
\* Crashes and ticks.

LEMMA CrashStep ==
  ASSUME IInv, Track, NEW ws \in SUBSET Workers, Crash(ws), ws = Threads \/ ws \subseteq Scripts
  PROVE  IInv'
<1>1. /\ job' = [w \in Workers |-> IF w \in ws THEN NoJob ELSE job[w]]
      /\ faults > 0 /\ faults' = faults - 1
      /\ cache' = IF ws = Threads THEN [ready |-> FALSE, age |-> TTL] ELSE cache
      /\ UNCHANGED <<db, tmp, wal, stamper, slack, overlapped, wanted>> /\ Collect(content)
  BY DEF Crash
<1>2. \A w \in Workers : job'[w] = NoJob \/ job'[w] = job[w]
  BY <1>1
<1>3. job' \in [Workers -> Jobs]
  BY <1>1, NoJobIs, TypedIs, JobIs
<1>4. /\ content' \in [Inodes -> Contents]
      /\ db \in Inodes => content'[db] = content[db]
      /\ tmp \in Inodes => content'[tmp] = content[tmp]
  BY <1>1, FilesAre, Collected
<1>5. faults' \in Nat /\ CachedType'
  BY <1>1, TypedIs, Counted, Basics DEF CachedType
<1>6. Typed'
  BY <1>1, <1>3, <1>4, <1>5, TypedIs DEF Typed
<1>7. Apart'
  BY <1>1, <1>2, FilesAre, NoJobIs DEF Apart
<1>8. Orderly'
  <2> SUFFICES ASSUME ~overlapped
               PROVE  /\ \A v, w \in Workers : job'[v].pc \in Rebuilding /\ job'[w].pc \in Rebuilding => v = w
                      /\ \A w \in Workers : Stage(job[w])'
                      /\ db # NONE => content'[db] # "part"
    BY <1>1 DEF Orderly
  <2>1. \A v, w \in Workers : job'[v].pc \in Rebuilding /\ job'[w].pc \in Rebuilding => v = w
    BY <1>2, NoJobIs DEF IInv, Orderly, Rebuilding
  <2>2. ASSUME NEW w \in Workers PROVE Stage(job[w])'
    <3>1. CASE job'[w] = NoJob
      BY <3>1, NoJobIs DEF Stage
    <3>2. CASE job'[w] = job[w]
      BY <1>1, <1>4, <3>2, FilesAre DEF Stage
    <3> QED
      BY <1>2, <3>1, <3>2
  <2>3. db # NONE => content'[db] # "part"
    BY <1>4, FilesAre
  <2> QED
    BY <2>1, <2>2, <2>3
<1>9. Reports
  <2>1. ASSUME NEW v \in Workers
        PROVE  /\ job'[v].age \in 0..TTL
               /\ Mine(v)'
               /\ job'[v].pc \in {"accept", "admit"} =>
                    Whole' \/ (job[v].pc \in {"accept", "admit"} /\ job'[v].age = job[v].age)
               /\ v = stamper' /\ job'[v].pc \in Storing => cache'.age = job'[v].age
    <3>1. job'[v].age \in 0..TTL
      BY <1>3 DEF Jobs
    <3>2. CASE job'[v] = NoJob
      BY <3>1, <3>2, NoJobIs DEF Mine, Reporting, Storing
    <3>3. CASE job'[v] = job[v] /\ job[v].pc \notin Storing
      BY <3>1, <3>3, Served DEF Mine
    <3>4. CASE job'[v] = job[v] /\ job[v].pc \in Storing /\ job'[v] # NoJob
      <4>1. v \in Threads /\ v \notin ws
        BY <1>1, <3>4, Served DEF Mine, Reporting
      <4>2. cache' = cache /\ stamper' = stamper
        BY <1>1, <4>1
      <4>3. stamper = v => cache.age = job[v].age
        BY <3>4 DEF IInv, Truthful
      <4> QED
        BY <3>1, <3>4, <4>2, <4>3, Served DEF Mine
    <3> QED
      BY <1>2, <3>2, <3>3, <3>4
  <2>2. CASE ws = Threads
    BY <1>1, <1>5, <2>1, <2>2 DEF Reports
  <2>3. CASE ws # Threads /\ ws \subseteq Scripts
    <3>1. cache' = cache /\ cached' = cached /\ stamper \in Workers
      BY <1>1, <2>3, TypedIs, Counted DEF cached, CachedType
    <3>2. HalfStored => HalfStored'
      <4> SUFFICES ASSUME HalfStored PROVE HalfStored'
        OBVIOUS
      <4>1. stamper \in Threads
        BY <3>1, Served DEF HalfStored, Mine, Reporting, Storing
      <4>2. stamper \notin ws
        BY <2>3, <4>1, RebuildAssumption
      <4>3. job'[stamper] = job[stamper] /\ stamper' = stamper
        BY <1>1, <3>1, <4>2
      <4> QED
        BY <4>3 DEF HalfStored
    <3> QED
      BY <1>5, <2>1, <3>1, <3>2 DEF Reports
  <2> QED
    BY <2>2, <2>3
<1>10. Truthful' /\ sinceWhole' \in 0..TTL
  BY <1>9, ReportsKeep
<1>11. TypeOK'
  BY <1>6, <1>10 DEF Typed, TypeOK, Jobs, CachedType
<1> QED
  BY <1>7, <1>8, <1>10, <1>11 DEF IInv

\* A tick: what is cached or reported ages no slower than the database.
LEMMA TickStep ==
  ASSUME IInv, Tick
  PROVE  IInv'
<1>1. /\ cache' = [cache EXCEPT !.age = Older(@)]
      /\ job' = [w \in Workers |->
                    IF job[w].kind = "ready" THEN [job[w] EXCEPT !.age = Older(@)] ELSE job[w]]
      /\ sinceWhole' = IF Whole THEN 0 ELSE Older(sinceWhole)
      /\ UNCHANGED <<db, tmp, wal, content, stamper, slack, overlapped, wanted, faults>>
  BY DEF Tick, files
<1>2. /\ cache \in [ready : BOOLEAN, age : 0..TTL] /\ cache.age \in 0..TTL /\ sinceWhole \in 0..TTL
      /\ job \in [Workers -> Jobs]
      /\ stamper \in Workers /\ slack \in 0..TTL
  BY TypedIs DEF Typed, TypeOK, CachedType
<1>3. /\ cache' \in [ready : BOOLEAN, age : 0..TTL]
      /\ cache'.ready = cache.ready /\ cache'.age = Older(cache.age)
  <2>1. Older(cache.age) \in 0..TTL
    BY <1>2, Basics
  <2> QED
    BY <1>1, <1>2, <2>1
<1>4. ASSUME NEW w \in Workers
      PROVE  /\ job'[w] \in Jobs /\ job'[w].pc = job[w].pc /\ job'[w].inode = job[w].inode
             /\ job'[w].kind = job[w].kind
             /\ job'[w].kind = "ready" => job'[w].age = Older(job[w].age)
             /\ job[w].age \in 0..TTL
  <2>1. job[w] \in Jobs /\ job[w].age \in 0..TTL /\ Older(job[w].age) \in 0..TTL
    BY <1>2, Basics DEF Jobs
  <2>2. job'[w] = IF job[w].kind = "ready" THEN [job[w] EXCEPT !.age = Older(job[w].age)] ELSE job[w]
    BY <1>1
  <2> QED
    BY <2>1, <2>2 DEF Jobs
<1>5. job' \in [Workers -> Jobs]
  BY <1>1, <1>4
<1>6. sinceWhole' \in 0..TTL /\ sinceWhole' <= Older(sinceWhole)
  BY <1>1, <1>2, Basics
<1>7. TypeOK'
  BY <1>1, <1>2, <1>3, <1>5, <1>6, TypedIs DEF Typed, TypeOK, Jobs
<1>8. Apart'
  BY <1>1, <1>4 DEF IInv, Apart
<1>9. Orderly'
  BY <1>1, <1>4 DEF IInv, Orderly, Stage
<1>10. Truthful'
  <2>1. Whole' => sinceWhole' = 0
    BY <1>1 DEF Whole
  <2>2. ASSUME NEW w \in Workers
        PROVE  Mine(w)' /\ (job'[w].pc \in {"accept", "admit"} => sinceWhole' <= job'[w].age)
    <3>1. Mine(w)'
      BY <1>4, Served DEF Mine
    <3>2. ASSUME job'[w].pc \in {"accept", "admit"} PROVE sinceWhole' <= job'[w].age
      <4>1. job[w].kind = "ready" /\ sinceWhole <= job[w].age
        BY <1>4, <3>2, Served DEF IInv, Truthful, Mine, Reporting, Storing
      <4>2. Older(sinceWhole) <= Older(job[w].age) /\ Older(sinceWhole) \in 0..TTL
            /\ Older(job[w].age) \in 0..TTL
        BY <1>2, <1>4, <4>1, Basics
      <4> QED
        BY <1>4, <1>6, <4>1, <4>2
    <3> QED
      BY <3>1, <3>2
  <2>3. CacheHonest'
    <3> SUFFICES ASSUME cache'.ready, cache'.age < TTL, ~HalfStored'
                 PROVE  sinceWhole' <= cache'.age + slack'
      BY DEF CacheHonest
    <3>1. ~HalfStored /\ slack' = slack
      BY <1>1, <1>2, <1>4 DEF HalfStored
    <3>2. cache'.age = cache.age + 1 /\ cache.age < TTL
      BY <1>2, <1>3, Basics DEF Older
    <3>3. sinceWhole <= cache.age + slack
      BY <1>3, <3>1, <3>2 DEF IInv, Truthful, CacheHonest
    <3>4. Older(sinceWhole) <= sinceWhole + 1 /\ Older(sinceWhole) \in 0..TTL
      BY <1>2, Basics DEF Older
    <3> QED
      BY <1>2, <1>6, <3>1, <3>2, <3>3, <3>4
  <2>4. job'[stamper'].pc \in Storing => cache'.age = job'[stamper'].age
    <3>1. stamper' = stamper /\ (job[stamper].pc \in Storing => cache.age = job[stamper].age)
      BY <1>1 DEF IInv, Truthful
    <3>2. job[stamper].pc \in Storing => job[stamper].kind = "ready"
      BY <1>2, Served DEF Mine, Reporting
    <3> QED
      BY <1>2, <1>3, <1>4, <3>1, <3>2
  <2> QED
    BY <2>1, <2>2, <2>3, <2>4 DEF Truthful
<1> QED
  BY <1>7, <1>8, <1>9, <1>10 DEF IInv

LEMMA InitHolds == ASSUME Init PROVE IInv
<1>1. /\ content \in [Inodes -> {"none", "whole"}] /\ (\A i \in Inodes : content[i] = "whole" => i = 1)
      /\ db = (IF content[1] = "whole" THEN 1 ELSE NONE)
      /\ tmp = NONE /\ wal = NONE /\ job = [w \in Workers |-> NoJob]
      /\ cache = [ready |-> FALSE, age |-> TTL]
      /\ sinceWhole = (IF Whole THEN 0 ELSE TTL) /\ overlapped = FALSE
      /\ stamper = Poller /\ slack = 0 /\ wanted \subseteq Workers \X Kinds /\ faults \in Nat
  BY RebuildAssumption DEF Init, Workers, Kinds
<1>2. \A w \in Workers : job[w] = NoJob
  BY <1>1
<1>3. TypeOK
  <2>1. job \in [Workers -> Jobs]
    BY <1>1, NoJobIs
  <2>2. content \in [Inodes -> Contents]
    BY <1>1 DEF Contents
  <2>3. sinceWhole \in 0..TTL /\ cache \in [ready : BOOLEAN, age : 0..TTL] /\ wanted \subseteq Workers \X Kinds
        /\ faults \in Nat /\ stamper \in Workers /\ slack \in 0..TTL
    BY <1>1, Basics, RebuildAssumption
  <2>4. {db, tmp, wal} \subseteq Inodes \cup {NONE}
    BY <1>1, RebuildAssumption DEF Inodes
  <2> QED
    BY <1>1, <2>1, <2>2, <2>3, <2>4 DEF TypeOK, Jobs
<1>4. Apart
  BY <1>1, <1>2, NoJobIs DEF Apart
<1>5. Orderly
  BY <1>1, <1>2, NoJobIs DEF Orderly, Stage, Rebuilding, Inodes
<1>6. Truthful
  <2>1. stamper \in Workers
    BY <1>1, Basics
  <2> QED
    BY <1>1, <1>2, <2>1, NoJobIs DEF Truthful, CacheHonest, Mine, Reporting, Storing
<1> QED
  BY <1>3, <1>4, <1>5, <1>6 DEF IInv

LEMMA WorkStep ==
  ASSUME IInv, Track, NEW w \in Workers, Work(w)
  PROVE  IInv'
BY LookPathStep, OpenStep, StampStep, StoreStep, RemoveStep, CreateStep, BuiltStep, UnlinkStep,
   UnlinkWalStep, ReplaceStep, ReplaceFailsStep, RecordStep, CloseStep
DEF Work

LEMMA DisturbStep ==
  ASSUME IInv, Track, NEW w \in Workers, Disturb(w)
  PROVE  IInv'
BY AskStep, VisitStep, OpenFailsStep, BuildFailsStep DEF Disturb, Kinds

LEMMA Step ==
  ASSUME IInv, [Next]_vars
  PROVE  IInv'
<1>1. ASSUME NEW w \in Workers, Poll(w) \/ Work(w) \/ Disturb(w), Track PROVE IInv'
  BY <1>1, PollStep, WorkStep, DisturbStep
<1>2. CASE Crash(Threads) /\ Track
  <2>1. Threads \in SUBSET Workers
    BY DEF Workers
  <2> QED
    BY <1>2, <2>1, CrashStep
<1>3. ASSUME NEW s \in Scripts, Crash({s}), Track PROVE IInv'
  <2>1. {s} \in SUBSET Workers /\ {s} \subseteq Scripts
    BY DEF Workers
  <2> QED
    BY <1>3, <2>1, CrashStep
<1>4. CASE Tick
  BY <1>4, TickStep
<1>5. CASE UNCHANGED vars
  <2>1. /\ db' = db /\ tmp' = tmp /\ wal' = wal /\ content' = content /\ job' = job /\ cache' = cache
        /\ sinceWhole' = sinceWhole /\ overlapped' = overlapped /\ wanted' = wanted /\ faults' = faults
        /\ stamper' = stamper /\ slack' = slack
    BY <1>5 DEF vars, files
  <2>2. TypeOK' /\ Apart'
    BY <2>1 DEF IInv, TypeOK, Apart
  <2>3. Orderly'
    BY <2>1 DEF IInv, Orderly, Stage
  <2>4. Truthful'
    BY <2>1 DEF IInv, Truthful, CacheHonest, HalfStored, Mine, Whole
  <2> QED
    BY <2>2, <2>3, <2>4 DEF IInv
<1> QED
  BY <1>1, <1>2, <1>3, <1>4, <1>5 DEF Next

-----------------------------------------------------------------------------
\* The strengthened invariant: what the paths lead to at each stage of a rebuild
\* that no other overlaps, and how old what was reported is at most.
THEOREM Invariance == Spec => []IInv
<1>1. Init => IInv
  BY InitHolds
<1>2. IInv /\ [Next]_vars => IInv'
  BY Step
<1> QED
  BY <1>1, <1>2, PTL DEF Spec

\* Jobs, paths, contents and ages are of their types.
THEOREM TypeCorrect == Spec => []TypeOK
<1>1. IInv => TypeOK
  BY DEF IInv
<1> QED
  BY <1>1, Invariance, PTL

\* Rebuilds that do not overlap never show a file that is half built, whatever
\* crashed or failed before.
THEOREM WholeFilesOnly == Spec => []NeverHalfBuilt
<1>1. IInv => NeverHalfBuilt
  BY DEF IInv, Orderly, Stage, NeverHalfBuilt
<1> QED
  BY <1>1, Invariance, PTL

\* However many requests store their reports at once: one that is let in, by
\* entries that no request is half way through, is let in at most TTL after
\* the database was whole, and the time which the report took when its entries
\* are of two requests.
THEOREM CacheHolds == Spec => []CacheHonest
<1>1. IInv => CacheHonest
  BY DEF IInv, Truthful
<1> QED
  BY <1>1, Invariance, PTL
=============================================================================
