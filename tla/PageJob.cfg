SPECIFICATION FairSpec
CONSTANTS
    Pages <- FlatPages
    Items <- RegionIds
    InpaintEnabled = TRUE
    MaxEdits = 1
    MaxItems = 2
    MaxAttempts = 2
INVARIANTS PageJobTypeOK OwnDocumentAccepted IdentitiesAgree  EveryItemOnce DoneIsComplete
PROPERTIES KeepsPromise JobEnds
CHECK_DEADLOCK FALSE
