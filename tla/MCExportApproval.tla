-------------------------- MODULE MCExportApproval --------------------------
(***************************************************************************)
(* Items to choose from: one a manager may view and not export, one of a   *)
(* lower label whose text a DLP rule raises to secret, one it blocks.      *)
(***************************************************************************)
EXTENDS ExportApproval, TLC

CONSTANTS secret, token, blocked

MCItemLabel == [i \in Items |-> IF i = secret THEN "secret" ELSE "internal"]
MCItemDlp ==
    [i \in Items |->
        CASE i = secret  -> [action |-> "flag", classification |-> "public"]
          [] i = token   -> [action |-> "approval_required", classification |-> "secret"]
          [] i = blocked -> [action |-> "block", classification |-> "confidential"]]

Symmetry == Permutations(Workers) \cup Permutations(Approvals)
=============================================================================
