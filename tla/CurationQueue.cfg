SPECIFICATION Spec
CONSTANTS
    Workers = {w1, w2}
    Facts = {f1, f2}
    Assignments = {a1, a2}
    Disputes = {d1}
    NoFact = NoFact
    MaxVersion = 2
SYMMETRY Symmetry
INVARIANTS
    TypeOK
    OneActive
    LinksLogged
PROPERTIES
    DecisionClosesWork
    ClosedStays
    ResolvedStays
    VersionsGrow
