---------------------------- MODULE MCBackupPlan ----------------------------
(***************************************************************************)
(* Small instances of BackupPlan.                                          *)
(***************************************************************************)
EXTENDS BackupPlan

CONSTANTS newer, nothing

\* ops/backup_plan.example.json
Scheduled == [command |-> "plan", encrypted |-> TRUE, keep_plaintext |-> FALSE,
              offsite |-> TRUE, drill |-> TRUE]
\* backup_db.py backup --encrypted --keep-plaintext
ByHand == [command |-> "backup", encrypted |-> TRUE, keep_plaintext |-> TRUE,
           offsite |-> FALSE, drill |-> FALSE]

Both == {Scheduled, ByHand}
Keep == [d \in Dirs |-> IF d = "local" THEN 3 ELSE 0]
=============================================================================
