SPECIFICATION FairSpec
CONSTANTS
    MachineText = {m1}
    EditText = {t1}
    Editors = {e1, e2}
    Workers = {w1}
    NoDoc = NoDoc
    Rerenderable = TRUE
    MaxPosts = 2
    MaxEdits = 2
    MaxFaults = 1
INVARIANTS TypeOK FreshImageShowsMetadata ManifestClosed StaleHasRerender
PROPERTY StaleIsRepaired
CHECK_DEADLOCK FALSE
