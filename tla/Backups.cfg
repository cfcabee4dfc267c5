SPECIFICATION FairSpec
CONSTANTS
    newer = newer  nothing = nothing
    Versions = {newer, nothing}  Empty = nothing  Healthy = {newer}
    Options <- Both  KeepLatest <- Keep
    AgeLimited = TRUE
    MaxFiles = 2  MaxFresh = 1  MaxSpoiled = 1  MaxRestores = 1
INVARIANT Recoverable
INVARIANT PlanRecoverable
INVARIANT LeftoversBounded
PROPERTY RestoreUndoable
PROPERTY TemporaryGone
