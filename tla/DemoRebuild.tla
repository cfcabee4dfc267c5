---------------------------- MODULE DemoRebuild ----------------------------
(***************************************************************************)
(* The readiness report and the rebuild of the demo database:              *)
(* readiness_report and ensure_demo_db of app/db.py, the cached report and *)
(* /admin/rebuild-demo of app/main.py, rebuild_demo_database of            *)
(* app/seed_data.py.                                                       *)
(*                                                                         *)
(* A rebuild fills a temporary file, unlinks the database and renames the  *)
(* temporary file.  There is one temporary path and no lock, and connect() *)
(* creates the database if it finds none.  A file is an inode: threads go  *)
(* on using one that no path leads to any more.  The -wal file belongs to  *)
(* a path; one that was written for another inode is applied to the        *)
(* database all the same.                                                  *)
(*                                                                         *)
(* StampedLate, ReadyWhenThere and FailureIgnored are slips the properties *)
(* must catch, each written before the definition it would replace.        *)
(***************************************************************************)
EXTENDS Integers

CONSTANTS
    Threads,    \* threads of the service, which one crash ends together
    Scripts,    \* other processes: batch_ingest, evaluate_quality, ...
    Poller,     \* the thread that serves whoever polls /ready
    MaxInode,   \* bound: files that exist at a time
    TTL,        \* READINESS_CACHE_TTL_SECONDS, in ticks
    Mixes       \* bounds: which requests besides the polls, <<worker, kind>>, are
                \* made once each, together with how many errors and crashes

ASSUME RebuildAssumption ==
    /\ Poller \in Threads
    /\ Threads \cap Scripts = {}
    /\ MaxInode \in Nat \ {0} /\ TTL \in Nat
    /\ \A m \in Mixes :
         /\ m.requests \subseteq (Threads \cup Scripts) \X {"ready", "ensure", "admin", "visit"}
         /\ m.faults \in Nat

Workers == Threads \cup Scripts
Inodes == 1..MaxInode
NONE == 0
Kinds == {"ready", "ensure", "admin", "visit"}

VARIABLES
    db,          \* the inode at DB_PATH
    tmp,         \* the inode at the temporary path
    wal,         \* the inode whose changes the -wal file beside DB_PATH holds
    content,     \* what each inode holds
    job,         \* what each worker is doing
    cache,       \* READINESS_CACHE
    sinceWhole,  \* ticks since the database was whole
    stamper,     \* the last request to write the time into READINESS_CACHE
    slack,       \* by how much the report written last may be older than that
    overlapped,  \* whether two rebuilds have been at work at once
    wanted,      \* the requests still to be made
    faults       \* how many errors and crashes are still to come

files == <<db, tmp, wal, content>>
vars == <<files, job, cache, sinceWhole, stamper, slack, overlapped, wanted, faults>>

\* "whole" is what readiness_report accepts.
Contents == {"none", "empty", "part", "mixed", "whole"}

\* A job for /ready looks at stages 1 to 4: its first report, the first and
\* the second of ensure_demo_db, its last.  Startup and scripts call
\* ensure_demo_db alone.
NoJob == [pc |-> "idle", kind |-> "visit", stage |-> 0, inode |-> NONE, age |-> 0]
Rebuilding == {"remove", "create", "build", "built", "unwal", "replace"}

Whole == db # NONE /\ content[db] = "whole" /\ wal \in {NONE, db}

Go(w, pc) == job' = [job EXCEPT ![w].pc = pc]
Look(w, stage) == job' = [job EXCEPT ![w].pc = "path", ![w].stage = stage]
Done(w) == job' = [job EXCEPT ![w] = NoJob]

\* What no path and no worker refers to any more is gone.
Referred == {db', tmp', wal'} \cup {job'[w].inode : w \in Workers}
Collect(c) == content' = [i \in Inodes |-> IF i \in Referred THEN c[i] ELSE "none"]

Used == {db, tmp, wal} \cup {job[w].inode : w \in Workers}
New(i) == i \in Inodes \ Used /\ \A k \in Inodes \ Used : i <= k

Visitors(i) == {w \in Workers : job[w].pc = "visit" /\ job[w].inode = i}
Foreign == wal \notin {NONE, db}

cached == <<cache, stamper, slack>>
rest == <<cached, wanted, faults>>

-----------------------------------------------------------------------------
\* What starts.

Poll(w) ==
    /\ job[w].pc = "idle" /\ w = Poller
    /\ job' = [job EXCEPT ![w] = [NoJob EXCEPT !.pc = "path", !.kind = "ready", !.stage = 1]]
    /\ UNCHANGED <<files, overlapped, rest>>

\* Another /ready; a script or a startup that calls ensure_demo_db;
\* /admin/rebuild-demo.
Wants(w, kind) == <<w, kind>> \in wanted /\ wanted' = wanted \ {<<w, kind>>}

Ask(w, kind) ==
    /\ job[w].pc = "idle"
    /\ Wants(w, kind)
    /\ w \in Scripts => kind = "ensure"
    /\ job' = [job EXCEPT ![w] =
                  IF kind = "admin" THEN [NoJob EXCEPT !.pc = "remove", !.kind = kind]
                  ELSE [NoJob EXCEPT !.pc = "path", !.kind = kind,
                                     !.stage = IF kind = "ready" THEN 1 ELSE 2]]
    /\ overlapped' = (overlapped \/ (kind = "admin" /\ \E v \in Workers : job[v].pc \in Rebuilding))
    /\ UNCHANGED <<files, cached, faults>>

\* Any other request connects.  A -wal file of another inode is applied.
Opened(w, i) ==
    /\ db' = i
    /\ wal' = i
    /\ UNCHANGED tmp
    /\ job' = [job EXCEPT ![w] = [NoJob EXCEPT !.pc = "visit", !.inode = i]]
    /\ Collect(IF db = NONE THEN [content EXCEPT ![i] = "empty"]
               ELSE IF Foreign THEN [content EXCEPT ![i] = "mixed"] ELSE content)
Connect(i) == IF db = NONE THEN New(i) ELSE i = db

Visit(w) ==
    /\ job[w].pc = "idle"
    /\ Wants(w, "visit")
    /\ \E i \in Inodes : Connect(i) /\ Opened(w, i)
    /\ UNCHANGED <<overlapped, cached, faults>>

\* The last to close the database it finds at the path removes the -wal file.
Close(w) ==
    /\ job[w].pc = "visit"
    /\ Done(w)
    /\ wal' = IF db = job[w].inode /\ Visitors(db) = {w} THEN NONE ELSE wal
    /\ UNCHANGED <<db, tmp, overlapped, rest>>
    /\ Collect(content)

-----------------------------------------------------------------------------
\* readiness_report, and what its callers do with it.

Answered(w, ready) ==
    LET stage == job[w].stage
        mine == job[w].kind = "ready"
    IN \/ /\ stage = 1 /\ ~ready
          /\ Look(w, 2)
          /\ UNCHANGED overlapped
       \/ /\ stage = 2 /\ ~ready
          /\ Go(w, "remove")
          /\ overlapped' = (overlapped \/ \E v \in Workers : job[v].pc \in Rebuilding)
       \/ /\ stage \in {2, 3} /\ ready /\ mine
          /\ Look(w, 4)
          /\ UNCHANGED overlapped
       \/ /\ mine
          /\ (stage = 1 /\ ready) \/ (stage = 3 /\ ~ready) \/ stage = 4
          /\ Go(w, IF ready THEN "accept" ELSE "refuse")
          /\ UNCHANGED overlapped
       \/ /\ ~mine
          /\ (stage = 2 /\ ready) \/ stage = 3
          /\ Done(w)
          /\ UNCHANGED overlapped

LookPath(w) ==
    /\ job[w].pc = "path"
    /\ IF db = NONE THEN Answered(w, FALSE) ELSE Go(w, "open") /\ UNCHANGED overlapped
    /\ UNCHANGED <<files, rest>>

ReadyWhenThere == db # NONE
Ready == Whole

\* connect() creates the file if it has gone since; the report closes it again.
Open(w) ==
    /\ job[w].pc = "open"
    /\ Answered(w, Ready)
    /\ \E i \in Inodes : Connect(i) /\ db' = i
    /\ wal' = IF Visitors(db) # {} /\ ~Foreign THEN wal ELSE NONE
    /\ UNCHANGED <<tmp, rest>>
    /\ Collect(IF db = NONE THEN [content EXCEPT ![db'] = "empty"]
               ELSE IF Foreign THEN [content EXCEPT ![db] = "mixed"] ELSE content)

\* A lock, an error of the disk: the report says not ready.
OpenFails(w) ==
    /\ job[w].pc = "open"
    /\ faults > 0
    /\ faults' = faults - 1
    /\ Answered(w, FALSE)
    /\ UNCHANGED <<files, cached, wanted>>

\* READINESS_CACHE gets the time at which the request came, and then, with no
\* lock, the report.
StampedLate(w) == 0
Stamped(w) == job[w].age

Stamp(w) ==
    /\ job[w].pc \in {"accept", "refuse"}
    /\ cache' = [cache EXCEPT !.age = Stamped(w)]
    /\ stamper' = w
    /\ Go(w, IF job[w].pc = "accept" THEN "admit" ELSE "deny")
    /\ UNCHANGED <<files, slack, overlapped, wanted, faults>>

Store(w) ==
    /\ job[w].pc \in {"admit", "deny"}
    /\ cache' = [cache EXCEPT !.ready = job[w].pc = "admit"]
    /\ slack' = IF stamper = w THEN 0 ELSE job[w].age
    /\ Done(w)
    /\ UNCHANGED <<files, stamper, overlapped, wanted, faults>>

-----------------------------------------------------------------------------
\* rebuild_demo_database.

Remove(w) ==
    /\ job[w].pc = "remove"
    /\ tmp' = NONE
    /\ Go(w, "create")
    /\ UNCHANGED <<db, wal, overlapped, rest>>
    /\ Collect(content)

\* sqlite3.connect opens what is there.
Create(w) ==
    /\ job[w].pc = "create"
    /\ \E i \in Inodes :
        /\ IF tmp = NONE THEN New(i) ELSE i = tmp
        /\ tmp' = i
        /\ job' = [job EXCEPT ![w].pc = "build", ![w].inode = i]
        /\ UNCHANGED <<db, wal, overlapped, rest>>
        /\ Collect([content EXCEPT ![i] = IF tmp = NONE THEN "part" ELSE content[i]])

Built(w) ==
    /\ job[w].pc = "build"
    /\ job' = [job EXCEPT ![w].pc = "built", ![w].inode = NONE]
    /\ UNCHANGED <<db, tmp, wal, overlapped, rest>>
    /\ Collect([content EXCEPT ![job[w].inode] = "whole"])

FailureIgnored(w) ==
    /\ job[w].pc = "build"
    /\ faults > 0
    /\ faults' = faults - 1
    /\ job' = [job EXCEPT ![w].pc = "built", ![w].inode = NONE]
    /\ UNCHANGED <<files, overlapped, cached, wanted>>
BuildFails(w) ==
    /\ job[w].pc = "build"
    /\ faults > 0
    /\ faults' = faults - 1
    /\ tmp' = NONE
    /\ Done(w)
    /\ UNCHANGED <<db, wal, overlapped, cached, wanted>>
    /\ Collect(content)

Unlink(w) ==
    /\ job[w].pc = "built"
    /\ db' = NONE
    /\ Go(w, "unwal")
    /\ UNCHANGED <<tmp, wal, overlapped, rest>>
    /\ Collect(content)

\* And the -shm file after it.
UnlinkWal(w) ==
    /\ job[w].pc = "unwal"
    /\ wal' = NONE
    /\ Go(w, "replace")
    /\ UNCHANGED <<db, tmp, overlapped, rest>>
    /\ Collect(content)

\* Then ensure_demo_db looks again, and /admin/rebuild-demo writes its audit
\* row like any request.
Replace(w) ==
    /\ job[w].pc = "replace"
    /\ tmp # NONE
    /\ tmp' = NONE
    /\ IF job[w].kind = "admin"
       THEN job' = [job EXCEPT ![w] = [NoJob EXCEPT !.pc = "record"]]
       ELSE Look(w, 3)
    /\ db' = tmp
    /\ UNCHANGED <<wal, overlapped, rest>>
    /\ Collect(content)

Record(w) ==
    /\ job[w].pc = "record"
    /\ \E i \in Inodes : Connect(i) /\ Opened(w, i)
    /\ UNCHANGED <<overlapped, rest>>

\* FileNotFoundError, which nothing catches: the other rebuild's file was
\* taken, or removed.
ReplaceFails(w) ==
    /\ job[w].pc = "replace"
    /\ tmp = NONE
    /\ Done(w)
    /\ UNCHANGED <<files, overlapped, rest>>

-----------------------------------------------------------------------------
\* A crash of the service ends its threads and forgets the cached report, one
\* of a script ends the script.
Crash(ws) ==
    /\ \E w \in ws : job[w].pc # "idle"
    /\ faults > 0
    /\ faults' = faults - 1
    /\ job' = [w \in Workers |-> IF w \in ws THEN NoJob ELSE job[w]]
    /\ cache' = IF ws = Threads THEN [ready |-> FALSE, age |-> TTL] ELSE cache
    /\ UNCHANGED <<db, tmp, wal, stamper, slack, overlapped, wanted>>
    /\ Collect(content)

Older(age) == IF age < TTL THEN age + 1 ELSE TTL

Tick ==
    /\ cache' = [cache EXCEPT !.age = Older(@)]
    /\ job' = [w \in Workers |->
                  IF job[w].kind = "ready" THEN [job[w] EXCEPT !.age = Older(@)] ELSE job[w]]
    /\ sinceWhole' = IF Whole THEN 0 ELSE Older(sinceWhole)
    /\ UNCHANGED <<files, stamper, slack, overlapped, wanted, faults>>

Init ==
    /\ content \in [Inodes -> {"none", "whole"}]
    /\ \A i \in Inodes : content[i] = "whole" => i = 1
    /\ db = IF content[1] = "whole" THEN 1 ELSE NONE
    /\ tmp = NONE /\ wal = NONE
    /\ job = [w \in Workers |-> NoJob]
    /\ cache = [ready |-> FALSE, age |-> TTL]
    /\ sinceWhole = IF Whole THEN 0 ELSE TTL
    /\ stamper = Poller /\ slack = 0
    /\ overlapped = FALSE
    /\ \E m \in Mixes : wanted = m.requests /\ faults = m.faults

Work(w) ==
    \/ LookPath(w) \/ Open(w) \/ Stamp(w) \/ Store(w)
    \/ Remove(w) \/ Create(w) \/ Built(w) \/ Unlink(w) \/ UnlinkWal(w)
    \/ Replace(w) \/ ReplaceFails(w) \/ Record(w) \/ Close(w)

Disturb(w) ==
    \/ \E kind \in Kinds \ {"visit"} : Ask(w, kind)
    \/ Visit(w)
    \/ OpenFails(w) \/ BuildFails(w)

Track == sinceWhole' = IF Whole' THEN 0 ELSE sinceWhole

Next ==
    \/ (\E w \in Workers : Poll(w) \/ Work(w) \/ Disturb(w)) /\ Track
    \/ (Crash(Threads) \/ \E w \in Scripts : Crash({w})) /\ Track
    \/ Tick

Spec == Init /\ [][Next]_vars

\* Somebody goes on polling /ready, and what runs goes on running.
Fairness ==
    /\ WF_vars(Poll(Poller) /\ Track)
    /\ \A w \in Workers : WF_vars(Work(w) /\ Track)
FairSpec == Spec /\ Fairness

-----------------------------------------------------------------------------
Pcs == {"idle", "path", "open", "accept", "refuse", "admit", "deny", "visit", "record"}
           \cup Rebuilding

TypeOK ==
    /\ {db, tmp, wal} \subseteq Inodes \cup {NONE}
    /\ content \in [Inodes -> Contents]
    /\ job \in [Workers -> [pc : Pcs, kind : Kinds, stage : 0..4,
                            inode : Inodes \cup {NONE}, age : 0..TTL]]
    /\ cache \in [ready : BOOLEAN, age : 0..TTL]
    /\ sinceWhole \in 0..TTL
    /\ stamper \in Workers /\ slack \in 0..TTL
    /\ overlapped \in BOOLEAN
    /\ wanted \subseteq Workers \X Kinds /\ faults \in Nat

\* Rebuilds that do not overlap never show a file that is half built, whoever
\* connects meanwhile and whatever crashed before; and none finds its
\* temporary file gone.
NeverHalfBuilt ==
    ~overlapped =>
        /\ db # NONE => content[db] # "part"
        /\ \A w \in Workers : job[w].pc = "replace" => tmp # NONE /\ content[tmp] = "whole"

\* A request that READINESS_CACHE lets in is let in at most TTL after the
\* database was whole, plus, when two requests have mixed their entries, the
\* time which the one whose report is served took.  The exception: between the
\* two assignments of a request an older report, of any age, counts as new.
HalfStored == job[stamper].pc \in {"admit", "deny"}
CacheHonest ==
    cache.ready /\ cache.age < TTL /\ ~HalfStored => sinceWhole <= cache.age + slack

\* However rebuilds, requests and crashes have left the files, the checks that
\* go on end up with a whole database, and it stays.
Heals == <>[]Whole
=============================================================================
