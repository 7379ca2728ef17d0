CONSTANTS
    Layouts = {flat, byKey}
    RowCounts <- MCRowCounts
    AllowEmptySource = TRUE
    SelectionQuery = FALSE
    MaxVersion = 3
    MaxFaults = 2
    NoTable = NoTable
    NoStamp = NoStamp
SPECIFICATION Spec
INVARIANTS TypeOK SkipIsSound ReportIsFresh TargetFollowsStaging
PROPERTY CatchesUp
