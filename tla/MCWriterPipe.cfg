SPECIFICATION FairSpec
CONSTANTS
    NRows = 6
    RowSizes <- MCRowSizes
    HeaderSize = 1
    PrefixSize = 1
    LengthLimit = 2
    Cap = 2
    Configs <- MCConfigs
INVARIANTS
    WriteErrorReported
    StatementsComplete
    SizeAccounted
PROPERTIES
    ImplementsRowSink
    WriteInsertReturns
