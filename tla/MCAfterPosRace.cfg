\* two writers that may reconnect at the same time
SPECIFICATION Spec
CONSTANTS
    Writers = {w1, w2}
    InnoDB = {a}
    MyISAM = {}
    Other = other
    Parts = 2
    Configs <- MCNone
    Attempts = 2
    MaxPos = 2
SYMMETRY WriterSymmetry
INVARIANTS
    AfterPosCoversSnapshots
