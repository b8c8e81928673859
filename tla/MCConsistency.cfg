\* every mode, a table of each kind of engine, two writers
SPECIFICATION FairSpec
CONSTANTS
    Writers = {w1, w2}
    InnoDB = {a}
    MyISAM = {m}
    Other = other
    Parts = 1
    Configs <- MCModes
    Attempts = 2
    MaxPos = 1
INVARIANTS
    TransactionalCut
    FlushIsExact
    LockedUntilTheEnd
    LockReleased
    PositionIsEarly
    SnapshotIsExact
PROPERTY
    LockEventuallyReleased
