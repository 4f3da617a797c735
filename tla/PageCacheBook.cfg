SPECIFICATION FairSpec
CONSTANTS
    MachineText = {m1}
    EditText = {t1}
    Editors = {e1}
    Workers = {w1}
    NoDoc = NoDoc
    Rerenderable = FALSE
    MaxPosts = 1
    MaxEdits = 1
    MaxFaults = 0
PROPERTY EditIsRendered
CHECK_DEADLOCK FALSE
