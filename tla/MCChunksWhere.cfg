SPECIFICATION Spec
CONSTANTS
    KeySpace <- MCKeySpace
    Rows = 2
    Width = 4
    MaxCount = 12
INVARIANTS
    SelectedRowsDumped
