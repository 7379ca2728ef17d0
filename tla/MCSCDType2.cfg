CONSTANTS
    k1 = k1
    k2 = k2
    a = a
    b = b
    Keys = {k1, k2}
    Vals = {a, b}
    Absent = Absent
    Snapshots <- MCSnapshots
    Layouts = {flat, byKey}
    Unpartitioned = flat
    Queries = {TRUE, FALSE}
    DeletePolicies = {TRUE, FALSE}
    AllowEmpty = TRUE
    MaxVersion = 2
    MaxFaults = 1
    NoTable = NoTable
    NoStamp = NoStamp
SPECIFICATION Spec
INVARIANTS TypeOK OneActivePerKey ActiveMirrorsStaging
PROPERTIES ImplementsHistory
