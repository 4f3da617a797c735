SPECIFICATION FairSpec
CONSTANTS
    MachineText = {m1}
    EditText = {t1, t2}
    Editors = {e1}
    Workers = {w1}
    NoDoc = NoDoc
    Rerenderable = TRUE
    MaxPosts = 1
    MaxEdits = 2
    MaxFaults = 0
PROPERTY StaleUntilRerendered
CHECK_DEADLOCK FALSE
