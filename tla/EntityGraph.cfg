SPECIFICATION Spec
CONSTANTS
    w1 = w1  w2 = w2  nickel = nickel  ni = ni  ore = ore  f1 = f1  told = told  again = again
    Workers = {w1, w2}  Names = {nickel, ni, ore}
    Facts = {f1}  Labels = {told, again}  MaxId = 3  MaxEdges = 2
    NewAliases <- None
SYMMETRY Symmetric
INVARIANT TypeOK
INVARIANT NoDangling
PROPERTY EvidenceKept
PROPERTY NamesKept
