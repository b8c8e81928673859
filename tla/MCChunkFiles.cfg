SPECIFICATION FairSpec
CONSTANTS
    NChunks = 2
    Results <- MCResults
    Attempts = 2
    Configs <- MCConfigs
INVARIANTS
    RowsDumpedOnce
PROPERTY
    WriteTableDataReturns
