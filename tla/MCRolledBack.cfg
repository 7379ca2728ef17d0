CONSTANTS
    silver = silver
    external = external
    Entries <- MCEntries
    MasterSpecs <- MCMasterSpecs
    Sessions = {s1}
    LastNumber = 1
    HoursValues <- MCHours
    MaxTime = 2
    MaxContents <- MCMaxContents
    MaxPoints = 1
    MaxRequests = 1
    NoTable = NoTable
    NoContent = NoContent
SPECIFICATION Spec
INVARIANT RolledBack
