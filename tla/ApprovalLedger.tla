--------------------------- MODULE ApprovalLedger ---------------------------
(***************************************************************************)
(* What the approval flow promises, without requests, rows or statuses:    *)
(* an approval is asked for with a scope that never changes, is used only  *)
(* after a grant, at most MaxUses times, and every export under it is      *)
(* preceded by a use of its own.  README.md promises MaxUses = 1.          *)
(***************************************************************************)
EXTENDS Integers

CONSTANTS Approvals, Scopes, NoScope, MaxUses

VARIABLES
    scope,    \* what each approval is for, NoScope until it is asked for
    granted,  \* approvals granted at some time
    uses,     \* how often each was used
    exports   \* how many exports each let through

ledger == <<scope, granted, uses, exports>>

Init ==
    /\ scope = [a \in Approvals |-> NoScope]
    /\ granted = {}
    /\ uses = [a \in Approvals |-> 0]
    /\ exports = [a \in Approvals |-> 0]

Ask(a, s) ==
    /\ scope[a] = NoScope
    /\ scope' = [scope EXCEPT ![a] = s]
    /\ UNCHANGED <<granted, uses, exports>>

Grant(a) ==
    /\ scope[a] # NoScope
    /\ granted' = granted \cup {a}
    /\ UNCHANGED <<scope, uses, exports>>

Use(a) ==
    /\ a \in granted
    /\ uses[a] < MaxUses
    /\ uses' = [uses EXCEPT ![a] = @ + 1]
    /\ UNCHANGED <<scope, granted, exports>>

Export(a) ==
    /\ exports[a] < uses[a]
    /\ exports' = [exports EXCEPT ![a] = @ + 1]
    /\ UNCHANGED <<scope, granted, uses>>

Next ==
    \E a \in Approvals :
        \/ \E s \in Scopes : Ask(a, s)
        \/ Grant(a)
        \/ Use(a)
        \/ Export(a)

Spec == Init /\ [][Next]_ledger
=============================================================================
