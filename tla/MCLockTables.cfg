SPECIFICATION Spec
CONSTANTS
    d1 = d1
    d2 = d2
    a = a
    b = b
    c = c
    e = e
    v = v
    Databases = {d1, d2}
    Base = {a, b, c, e}
    View = {v}
    Dotted = {c}
    DatabaseOf <- MCDatabaseOf
    Configs <- MCConfigs
    Attempts = 3
    MaxDDL = 4
INVARIANTS
    ListComplete
    StableTablesLocked
    SetupSurvivesDrops
    SuccessIsWhole
