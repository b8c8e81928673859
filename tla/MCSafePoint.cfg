SPECIFICATION FairSpec
CONSTANTS
    TTL = 6
    Retries = 1
    CallTime = 1
    StartTime = 1
    GCLife = 5
    MaxTime = 11
    NoTS <- MCNoTS
    Configs <- MCConfigs
INVARIANTS
    SnapshotReadable
    LeaseUnbroken
PROPERTY
    ServiceEnds
