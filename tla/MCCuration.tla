----------------------------- MODULE MCCuration -----------------------------
(***************************************************************************)
(* Facts, rows and threads are interchangeable.                            *)
(***************************************************************************)
EXTENDS Curation, TLC

Symmetry ==
    Permutations(Workers) \cup Permutations(Facts)
        \cup Permutations(Assignments) \cup Permutations(Disputes)
=============================================================================
