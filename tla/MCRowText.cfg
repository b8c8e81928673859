\* Values written as SQL or CSV and read back, in every supported setting.
CONSTANTS
    Null = Null
    Configs <- MCConfigs
SPECIFICATION Spec
INVARIANTS
    RowsReadBack
