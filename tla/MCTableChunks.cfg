SPECIFICATION FairSpec
CONSTANTS
    KeySpace <- MCKeySpace
    Rows = 2
    Width = 4
    MaxCount = 12
INVARIANTS
    EachKeyInOneChunk
    NullsInOneChunk
    IndexBelowTotal
PROPERTIES
    SplitEnds
