SPECIFICATION Spec
CONSTANTS
    Workers = {w1, w2, w3}
    Approvals = {a1}
    Targets = {t1}
    secret = secret
    token = token
    blocked = blocked
    Items = {secret, token, blocked}
    ItemLabel <- MCItemLabel
    ItemDlp <- MCItemDlp
    Requesters = {"manager", "admin"}
    NoApproval = NoApproval
    NoTarget = NoTarget
SYMMETRY Symmetry
INVARIANTS
    TypeOK
    DeliveredAsApproved
    TrailComplete
    UseBounded
PROPERTIES
    SettledStays
    ImplementsLedger
