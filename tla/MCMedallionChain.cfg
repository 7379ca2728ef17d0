CONSTANTS
    Layouts = {flat}
    RowCounts <- MCRowCounts
    AllowEmptySource = FALSE
    SelectionQuery = FALSE
    MaxVersion = 2
    MaxFaults = 0
    NoTable = NoTable
    NoStamp = NoStamp
SPECIFICATION Spec
PROPERTY GoldSkipIsSound
