----------------------------- MODULE BackupPlan -----------------------------
(***************************************************************************)
(* scripts/backup_db.py: backups of the database with their sidecar files, *)
(* encrypted and copied off site, restore drill, retention, restore.       *)
(*                                                                         *)
(* A backup is several files written one after the other, and the process  *)
(* may stop after each.  Retention does not look into files: whatever a    *)
(* dead run left counts among the latest ones.  One backup, plan or prune  *)
(* command runs at a time (ops/systemd: a oneshot service); the program    *)
(* goes on writing meanwhile and an operator may restore.                  *)
(*                                                                         *)
(* ManifestOnly, NoDrillGate, KeptShort and SaveMissing are slips the      *)
(* properties must catch, each written before the definition it would      *)
(* replace.                                                                *)
(***************************************************************************)
EXTENDS Integers, Sequences, FiniteSets

CONSTANTS
    Versions,    \* what the database may hold
    Empty,       \* the version that holds nothing
    Healthy,     \* the versions database_health_report accepts
    Options,     \* how the backup command and the plan are called
    KeepLatest,  \* [Dirs -> Nat], keep_latest of the two retention policies
    AgeLimited,  \* whether max_age_days is set
    MaxFiles,    \* bound: backups in a directory when the backup command starts
    MaxFresh,    \* bound: backups younger than max_age_days
    MaxSpoiled,  \* bound: crashes, errors, and backups of an unhealthy database
    MaxRestores  \* bound: restores

Dirs == {"local", "offsite"}
Cut == "cut"

ASSUME BackupAssumption ==
    /\ Empty \in Versions
    /\ Healthy \subseteq Versions \ {Empty}
    /\ Cut \notin Versions
    /\ Options \subseteq [command : {"backup", "plan"}, encrypted : BOOLEAN,
                          keep_plaintext : BOOLEAN, offsite : BOOLEAN, drill : BOOLEAN]
    /\ KeepLatest \in [Dirs -> Nat]
    /\ AgeLimited \in BOOLEAN
    /\ MaxFiles \in Nat /\ MaxFresh \in Nat
    /\ MaxSpoiled \in Nat /\ MaxRestores \in Nat

VARIABLES
    live,       \* what the database holds
    files,      \* per directory the primaries, newest first
    orphans,    \* per directory the groups of which only sidecars are left
    job,        \* the backup, plan or prune command at work
    restore,    \* the restore at work, with what its pre_restore copy holds
    temps,      \* decrypted copies nobody will remove
    spoiled,    \* crashes, errors, and backups of an unhealthy database so far
    restores,   \* restores so far
    proven      \* the directories a drilled backup was put into

vars == <<live, files, orphans, job, restore, temps, spoiled, restores, proven>>

\* What a file holds, and so the database: a version, or what a write that was
\* cut short leaves.
Contents == Versions \cup {Cut}

\* A "temporary" file is a plaintext that is to go once it is encrypted.  A
\* file is old when it is past max_age_days, wanted when a restore was given
\* its path.
Groups == [kind : {"plain", "temporary", "enc"}, content : Contents,
           sidecars : BOOLEAN, old : BOOLEAN, wanted : BOOLEAN]

Pcs == {"copy", "checksum", "encrypt", "seal", "manifest", "unlink", "unlinkSidecar",
        "offsite", "send", "drill", "retain", "sweep", "sweepSidecars"}

Prune == [command |-> "prune", encrypted |-> FALSE, keep_plaintext |-> FALSE,
          offsite |-> FALSE, drill |-> FALSE]
NoJob == [pc |-> "idle", options |-> Prune, dir |-> "local", kept |-> 0]
NoRestore == [pc |-> "idle", content |-> Empty, saved |-> Empty, encrypted |-> FALSE,
              dir |-> "local", written |-> FALSE]

-----------------------------------------------------------------------------
NewGroup(kind, content) ==
    [kind |-> kind, content |-> content, sidecars |-> FALSE, old |-> FALSE, wanted |-> FALSE]

Push(d, group) == files' = [files EXCEPT ![d] = <<group>> \o @]
Newest(d) == Head(files[d])

\* The newest primary is written to.
Touch(d, content, sidecars) ==
    files' = [files EXCEPT ![d] =
                 <<[Head(files[d]) EXCEPT !.content = content, !.sidecars = sidecars]>>
                 \o Tail(files[d])]

Without(d, i) == SubSeq(files[d], 1, i - 1) \o SubSeq(files[d], i + 1, Len(files[d]))

\* A primary is unlinked first; its sidecars follow in a step of their own.
UnlinkPrimary(d, i, pc) ==
    /\ files' = [files EXCEPT ![d] = Without(d, i)]
    /\ IF files[d][i].sidecars
       THEN /\ orphans' = [orphans EXCEPT ![d] = @ + 1]
            /\ job' = [job EXCEPT !.pc = pc]
       ELSE UNCHANGED <<orphans, job>>

Goto(pc) == job' = [job EXCEPT !.pc = pc]
GotoDir(pc, d) == job' = [job EXCEPT !.pc = pc, !.dir = d]

Fresh(d) == Cardinality({i \in DOMAIN files[d] : ~files[d][i].old})

AfterBackup(o) ==
    IF o.offsite THEN "offsite" ELSE IF o.command = "backup" THEN "idle"
    ELSE IF o.drill THEN "drill" ELSE "retain"
AfterCopies(o) == AfterBackup([o EXCEPT !.offsite = FALSE])
Finish(pc) == IF pc = "idle" THEN job' = NoJob ELSE Goto(pc)

other == <<restore, temps, restores, proven>>

-----------------------------------------------------------------------------
\* backup_database.

\* sqlite3.connect creates the destination.
Start(o) ==
    /\ job.pc = "idle"
    /\ \A d \in Dirs : Fresh(d) < MaxFresh
    /\ o.command = "backup" => \A d \in Dirs : Len(files[d]) < MaxFiles
    /\ Push("local", NewGroup(IF o.encrypted /\ ~o.keep_plaintext THEN "temporary" ELSE "plain",
                              Empty))
    /\ job' = [NoJob EXCEPT !.pc = "copy", !.options = o]
    /\ UNCHANGED <<live, orphans, spoiled, other>>

Copy ==
    /\ job.pc = "copy"
    /\ Touch("local", live, FALSE)
    /\ live \notin Healthy => spoiled < MaxSpoiled
    /\ spoiled' = IF live \in Healthy THEN spoiled ELSE spoiled + 1
    /\ Goto("checksum")
    /\ UNCHANGED <<live, orphans, other>>

Checksum ==
    /\ job.pc = "checksum"
    /\ Touch("local", Newest("local").content, TRUE)
    /\ Finish(IF job.options.encrypted THEN "encrypt" ELSE AfterBackup(job.options))
    /\ UNCHANGED <<live, orphans, spoiled, other>>

\* encrypt_backup_file writes the file chunk by chunk.
Encrypt ==
    /\ job.pc = "encrypt"
    /\ Push("local", NewGroup("enc", Cut))
    /\ Goto("seal")
    /\ UNCHANGED <<live, orphans, spoiled, other>>

Seal ==
    /\ job.pc = "seal"
    /\ Touch("local", files["local"][2].content, FALSE)
    /\ Goto("manifest")
    /\ UNCHANGED <<live, orphans, spoiled, other>>

ManifestOnly ==
    /\ job.pc = "manifest"
    /\ Touch("local", Newest("local").content, TRUE)
    /\ Finish(AfterBackup(job.options))
    /\ UNCHANGED <<live, orphans, spoiled, other>>
Manifest ==
    /\ job.pc = "manifest"
    /\ Touch("local", Newest("local").content, TRUE)
    /\ Finish(IF job.options.keep_plaintext THEN AfterBackup(job.options) ELSE "unlink")
    /\ UNCHANGED <<live, orphans, spoiled, other>>

Unlink ==
    /\ job.pc = "unlink"
    /\ UnlinkPrimary("local", 2, "unlinkSidecar")
    /\ UNCHANGED <<live, spoiled, other>>

UnlinkSidecar ==
    /\ job.pc = "unlinkSidecar"
    /\ orphans' = [orphans EXCEPT !["local"] = @ - 1]
    /\ Finish(AfterBackup(job.options))
    /\ UNCHANGED <<live, files, spoiled, other>>

\* copy_backup_artifacts: the primary, then its sidecars.
Offsite ==
    /\ job.pc = "offsite"
    /\ Push("offsite", NewGroup(Newest("local").kind, Cut))
    /\ Goto("send")
    /\ UNCHANGED <<live, orphans, spoiled, other>>

Send ==
    /\ job.pc = "send"
    /\ Touch("offsite", Newest("local").content, TRUE)
    /\ Finish(AfterCopies(job.options))
    /\ UNCHANGED <<live, orphans, spoiled, other>>

-----------------------------------------------------------------------------
\* run_backup_plan: drill, then retention here and off site.

Passed == Newest("local").content \in Healthy

NoDrillGate ==
    /\ job.pc = "drill"
    /\ Goto("retain")
    /\ proven' = proven \cup {"local"} \cup (IF job.options.offsite THEN {"offsite"} ELSE {})
    /\ UNCHANGED <<live, files, orphans, restore, temps, spoiled, restores>>
Drill ==
    /\ job.pc = "drill"
    /\ IF Passed
       THEN /\ Goto("retain")
            /\ proven' = proven \cup {"local"} \cup (IF job.options.offsite THEN {"offsite"} ELSE {})
       ELSE job' = NoJob /\ UNCHANGED proven
    /\ UNCHANGED <<live, files, orphans, restore, temps, spoiled, restores>>

StartPrune(d) ==
    /\ job.pc = "idle"
    /\ job' = [NoJob EXCEPT !.pc = "retain", !.dir = d]
    /\ UNCHANGED <<live, files, orphans, spoiled, other>>

\* prune_backup_artifacts keeps the first of the primaries it lists: the files
\* come newest first, and what is older than an old file is old.
KeptShort(d) ==
    LET latest == IF KeepLatest[d] = 0 THEN 0 ELSE KeepLatest[d] - 1
    IN IF AgeLimited /\ Fresh(d) > latest THEN Fresh(d)
       ELSE IF latest < Len(files[d]) THEN latest ELSE Len(files[d])
Kept(d) ==
    IF AgeLimited /\ Fresh(d) > KeepLatest[d] THEN Fresh(d)
    ELSE IF KeepLatest[d] < Len(files[d]) THEN KeepLatest[d] ELSE Len(files[d])

Retain ==
    /\ job.pc = "retain"
    /\ job' = [job EXCEPT !.pc = "sweep", !.kept = Kept(job.dir)]
    /\ UNCHANGED <<live, files, orphans, spoiled, other>>

Doomed == {i \in DOMAIN files[job.dir] : i > job.kept}

Sweep ==
    /\ job.pc = "sweep"
    /\ \E i \in Doomed :
        /\ \A k \in Doomed : i <= k
        /\ UnlinkPrimary(job.dir, i, "sweepSidecars")
    /\ UNCHANGED <<live, spoiled, other>>

SweepSidecars ==
    /\ job.pc = "sweepSidecars"
    /\ orphans' = [orphans EXCEPT ![job.dir] = @ - 1]
    /\ Goto("sweep")
    /\ UNCHANGED <<live, files, spoiled, other>>

Swept ==
    /\ job.pc = "sweep"
    /\ Doomed = {}
    /\ IF job.options.offsite /\ job.dir = "local" THEN GotoDir("retain", "offsite")
       ELSE job' = NoJob
    /\ UNCHANGED <<live, files, orphans, spoiled, other>>

\* An error, or the process stops.  A drill that is cut off may leave the
\* directory with the decrypted copy behind.
Fail ==
    /\ job.pc # "idle"
    /\ spoiled < MaxSpoiled
    /\ spoiled' = spoiled + 1
    /\ job' = NoJob
    /\ temps' \in {temps} \cup (IF job.pc = "drill" THEN {temps + 1} ELSE {})
    /\ UNCHANGED <<live, files, orphans, restore, restores, proven>>

-----------------------------------------------------------------------------
\* restore_database.

Wanted(d) == {i \in DOMAIN files[d] : files[d][i].wanted}
Unmarked ==
    [d \in Dirs |-> [i \in DOMAIN files[d] |-> [files[d][i] EXCEPT !.wanted = FALSE]]]

\* The path exists; the database is saved to pre_restore_*.
SaveMissing(d, i) ==
    /\ restore.pc = "idle"
    /\ restores < MaxRestores
    /\ restores' = restores + 1
    /\ files' = [files EXCEPT ![d][i].wanted = TRUE]
    /\ restore' = [NoRestore EXCEPT !.pc = IF files[d][i].kind = "enc" THEN "decrypt" ELSE "overwrite",
                                   !.encrypted = files[d][i].kind = "enc",
                                   !.dir = d, !.saved = restore.saved]
    /\ UNCHANGED <<live, orphans, job, temps, spoiled, proven>>
Save(d, i) ==
    /\ restore.pc = "idle"
    /\ restores < MaxRestores
    /\ restores' = restores + 1
    /\ files' = [files EXCEPT ![d][i].wanted = TRUE]
    /\ restore' = [NoRestore EXCEPT !.pc = IF files[d][i].kind = "enc" THEN "decrypt" ELSE "overwrite",
                                   !.encrypted = files[d][i].kind = "enc",
                                   !.dir = d, !.saved = live]
    /\ UNCHANGED <<live, orphans, job, temps, spoiled, proven>>

\* A file that ends after its header, or after any chunk, is decrypted without
\* an error: nothing tells the last chunk from the others.
Decrypt ==
    /\ restore.pc = "decrypt"
    /\ \E i \in Wanted(restore.dir) :
        restore' = [restore EXCEPT !.pc = "overwrite",
                                   !.content = files[restore.dir][i].content]
    /\ UNCHANGED <<live, files, orphans, job, temps, spoiled, restores, proven>>

\* A wrong key, a file cut inside a chunk, one pruned meanwhile: decrypt_backup_file
\* raises outside the try whose finally removes the temporary file.
DecryptFails ==
    /\ restore.pc = "decrypt"
    /\ temps' = temps + 1
    /\ restore' = NoRestore
    /\ files' = Unmarked
    /\ UNCHANGED <<live, orphans, job, spoiled, restores, proven>>

\* SQLite takes a file of no bytes for an empty database, and copies one that is
\* cut in its first or in its last page; any other it refuses (RestoreFails).
Opened(content) == IF content = Cut THEN {Empty, Cut} ELSE {content}

Overwrite ==
    /\ restore.pc = "overwrite"
    /\ \/ restore.encrypted /\ live' \in Opened(restore.content)
       \/ /\ ~restore.encrypted
          /\ \E i \in Wanted(restore.dir) : live' \in Opened(files[restore.dir][i].content)
    /\ restore' = NoRestore
    /\ files' = Unmarked
    /\ UNCHANGED <<orphans, job, temps, spoiled, restores, proven>>

\* The unencrypted backup was pruned after the path was looked at:
\* sqlite3.connect creates it again, empty, and the database is overwritten
\* with it.  Bound: not while a command writes a backup.
OverwriteGone ==
    /\ restore.pc = "overwrite"
    /\ ~restore.encrypted
    /\ Wanted(restore.dir) = {}
    /\ job.pc \in {"idle", "retain", "sweep", "sweepSidecars"}
    /\ spoiled < MaxSpoiled
    /\ spoiled' = spoiled + 1
    /\ live' = Empty
    /\ Push(restore.dir, NewGroup("plain", Empty))
    /\ job' = IF job.dir = restore.dir THEN [job EXCEPT !.kept = @ + 1] ELSE job
    /\ restore' = NoRestore
    /\ UNCHANGED <<orphans, temps, restores, proven>>

\* An error of SQLite; the temporary file is removed.
RestoreFails ==
    /\ restore.pc = "overwrite"
    /\ restore' = NoRestore
    /\ files' = Unmarked
    /\ UNCHANGED <<live, orphans, job, temps, spoiled, restores, proven>>

RestoreDies ==
    /\ restore.pc # "idle"
    /\ spoiled < MaxSpoiled
    /\ spoiled' = spoiled + 1
    /\ temps' = IF restore.encrypted THEN temps + 1 ELSE temps
    /\ restore' = NoRestore
    /\ files' = Unmarked
    /\ UNCHANGED <<live, orphans, job, restores, proven>>

-----------------------------------------------------------------------------
\* The program writes; it may also lose what it holds, and get it back.
Write(v) ==
    /\ v # live
    /\ live' = v
    /\ restore' = [restore EXCEPT !.written = restore.pc # "idle"]
    /\ UNCHANGED <<files, orphans, job, temps, spoiled, restores, proven>>

\* max_age_days pass for the oldest backup that is still fresh.  That takes
\* days, a command takes minutes.
Age(d) ==
    /\ AgeLimited
    /\ job.pc = "idle"
    /\ Fresh(d) > 0
    /\ files' = [files EXCEPT ![d][Fresh(d)].old = TRUE]
    /\ UNCHANGED <<live, orphans, job, restore, temps, spoiled, restores, proven>>

Init ==
    /\ live \in Healthy
    /\ files = [d \in Dirs |-> <<>>]
    /\ orphans = [d \in Dirs |-> 0]
    /\ job = NoJob
    /\ restore = NoRestore
    /\ temps = 0
    /\ spoiled = 0
    /\ restores = 0
    /\ proven = {}

BackupStep ==
    \/ Checksum \/ Encrypt \/ Seal \/ Manifest \/ Unlink \/ UnlinkSidecar \/ Offsite \/ Send

PlanStep == Drill \/ Retain \/ Sweep \/ SweepSidecars \/ Swept

StartPlan == \E o \in Options : o.command = "plan" /\ Start(o)
StartBackup == \E o \in Options : o.command = "backup" /\ Start(o)

Restore ==
    \/ \E d \in Dirs : \E i \in DOMAIN files[d] : Save(d, i)
    \/ Decrypt \/ DecryptFails \/ Overwrite \/ OverwriteGone
    \/ RestoreFails \/ RestoreDies

Next ==
    \/ StartPlan \/ StartBackup \/ \E d \in Dirs : StartPrune(d)
    \/ Copy \/ BackupStep \/ PlanStep \/ Fail
    \/ Restore
    \/ \E v \in Versions : Write(v)
    \/ \E d \in Dirs : Age(d)

Spec == Init /\ [][Next]_vars

\* The timer starts the plan day after day and what was started goes on; days
\* pass; a database that lost its content gets content again.
Fairness ==
    /\ SF_vars(StartPlan)
    /\ SF_vars(Copy)
    /\ WF_vars(BackupStep \/ PlanStep)
    /\ \A d \in Dirs : SF_vars(Age(d))
    /\ WF_vars(live \notin Healthy /\ \E v \in Healthy : Write(v))
FairSpec == Spec /\ Fairness

-----------------------------------------------------------------------------
TypeOK ==
    /\ live \in Contents
    /\ files \in [Dirs -> Seq(Groups)]
    /\ orphans \in [Dirs -> Nat]
    /\ job \in [pc : Pcs \cup {"idle"}, options : Options \cup {Prune}, dir : Dirs, kept : Nat]
    /\ restore \in [pc : {"idle", "decrypt", "overwrite"}, content : Contents, saved : Contents,
                    encrypted : BOOLEAN, dir : Dirs, written : BOOLEAN]
    /\ temps \in Nat
    /\ spoiled \in 0..MaxSpoiled
    /\ restores \in 0..MaxRestores
    /\ proven \subseteq Dirs

Restorable(d) == \E i \in DOMAIN files[d] : files[d][i].content \in Healthy

\* Once a plan's drill has passed, a backup that restores is left in the
\* directory, whatever crashed since and whichever retention ran, from the plan
\* or by hand.  Retention counts files, and a dead or unhealthy run leaves two
\* of them at most: so this takes keep_latest above twice the spoiled runs.
Recoverable ==
    \A d \in proven : 2 * spoiled < KeepLatest[d] => Restorable(d)

\* The plan's own retention needs less of a margin: a plan that is past its
\* drill has put a backup that restores into each of its directories, and
\* leaves one there.  Only the empty files of restores whose backup was pruned
\* can get before it meanwhile, one each; none counts where age limits.
PlanRecoverable ==
    \A d \in {"local"} \cup (IF job.options.offsite THEN {"offsite"} ELSE {}) :
        /\ job.pc \in {"retain", "sweep", "sweepSidecars"}
        /\ job.options.command = "plan" /\ job.options.drill
        /\ KeepLatest[d] > spoiled \/ AgeLimited
        => Restorable(d)

Temporaries(d) == {i \in DOMAIN files[d] : files[d][i].kind = "temporary"}
AtWork == IF job.pc = "idle" THEN 0 ELSE 1

\* A plaintext beside its encrypted copy, or a sidecar without its primary, is
\* there while a command is at work, or was left by one that died: one each.
LeftoversBounded ==
    \A d \in Dirs : Cardinality(Temporaries(d)) + orphans[d] <= AtWork + spoiled

\* What a restore overwrites is in a pre_restore copy, unless the program
\* wrote to the database after the copy was made.
RestoreUndoable ==
    [][live' # live /\ restore'.pc = "idle" /\ restore.pc = "overwrite"
       => live = restore.saved \/ restore.written]_vars

\* Sooner or later retention removes the plaintexts that dead runs left.
TemporaryGone ==
    \A d \in Dirs : <>[](job.pc = "idle" => Temporaries(d) = {})

-----------------------------------------------------------------------------
\* tests/test_backup_db.py: after a restore there is no rdkg_restore_*.sqlite.
\* Nothing died, and no decrypted copy is left behind.
RestoreCleansUp == spoiled = 0 /\ restore.pc = "idle" => temps = 0
=============================================================================
