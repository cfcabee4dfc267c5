--------------------------- MODULE MCEntityGraph ---------------------------
(***************************************************************************)
(* Small instances of EntityGraph.                                         *)
(***************************************************************************)
EXTENDS EntityGraph, TLC

CONSTANTS w1, w2, nickel, ni, ore, f1, told, again

Symmetric == Permutations({w1, w2}) \cup Permutations({nickel, ni, ore})
             \cup Permutations({told, again})
None == {{}}
=============================================================================
