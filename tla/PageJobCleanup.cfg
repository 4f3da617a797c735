SPECIFICATION Spec
CONSTANTS
    Pages <- TexturedPages
    Items <- RegionIds
    InpaintEnabled = FALSE
    MaxEdits = 0
    MaxItems = 4
    MaxAttempts = 2
INVARIANT OwnDocumentAccepted
CHECK_DEADLOCK FALSE
