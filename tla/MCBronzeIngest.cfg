CONSTANTS
    LoadTypes = {"API_EXTRACTOR", "STORAGE_FETCH"}
    Attempts = {0, 1, 3}
    Formats = {"parquet", "json"}
    Names <- MCNames
    Depths = {0, 2}
    Files = {1, 2}
    NotANumber = NotANumber
    NoAnswer = NoAnswer
    MaxVersion = 2
    MaxNumber = 10
    MaxEntries = 6
    NoTable = NoTable
SPECIFICATION Spec
INVARIANTS TypeOK HonestFailure LoadedIsNewest
PROPERTIES RunEnds
