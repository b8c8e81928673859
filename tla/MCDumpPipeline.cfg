SPECIFICATION FairSpec
CONSTANTS
    Writers = {w1, w2}
    Databases <- MCDatabases
    Chunks <- MCChunks
    Cap = 2
INVARIANTS
    WriterErrorReported
    MetadataIsLast
    SuccessMeansComplete
    TaskHandledOnce
PROPERTIES
    DumpReturns
    WritersStop
