\* a row key of two columns and --where with a single comparison
SPECIFICATION ConcatSpec
CONSTANTS
    NoRowID = NoRowID
    Configs <- MCWhere
    Cap = 2
    RowLengths = {1}
    BytesPerFile = 8
    DefaultRows = 2
    MaxRows = 5
INVARIANT OnlyWanted
