SPECIFICATION Spec
CONSTANTS
    Workers = {w1}
    Approvals = {a1}
    Targets = {t1}
    secret = secret
    token = token
    blocked = blocked
    Items = {secret, token}
    ItemLabel <- MCItemLabel
    ItemDlp <- MCItemDlp
    Requesters = {"manager", "admin"}
    NoApproval = NoApproval
    NoTarget = NoTarget
SYMMETRY Symmetry
INVARIANT RefusalAudited
