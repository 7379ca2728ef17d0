CONSTANTS
    k1 = k1
    k2 = k2
    a = a
    b = b
    Keys = {k1, k2}
    Vals = {a, b}
    Absent = Absent
    Snapshots <- MCOneOrTwoRows
    Layouts = {flat, byKey}
    Unpartitioned = flat
    Queries = {FALSE}
    DeletePolicies = {TRUE}
    AllowEmpty = FALSE
    MaxVersion = 2
    MaxFaults = 0
    NoTable = NoTable
    NoStamp = NoStamp
SPECIFICATION Spec
INVARIANT NewRowsAppended
