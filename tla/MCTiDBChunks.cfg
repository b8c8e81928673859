SPECIFICATION ConcatSpec
CONSTANTS
    NoRowID = NoRowID
    Configs <- MCConfigs
    Cap = 2
    RowLengths = {0, 1, 3, 8}
    BytesPerFile = 8
    DefaultRows = 2
    MaxRows = 5
INVARIANTS
    ConcatTypeOK
    EachRowInOneTask
    OnlyWanted
    IndexesAreDense
    TasksWithinRegions
    ConcatIsWhole
    RowsRestored
PROPERTY
    DumpTableDataReturns
