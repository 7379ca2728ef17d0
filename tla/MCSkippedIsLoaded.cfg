CONSTANTS
    Layouts = {flat}
    RowCounts <- MCRowCounts
    AllowEmptySource = FALSE
    SelectionQuery = FALSE
    MaxVersion = 1
    MaxFaults = 1
    NoTable = NoTable
    NoStamp = NoStamp
SPECIFICATION Spec
INVARIANT SkippedIsLoaded
